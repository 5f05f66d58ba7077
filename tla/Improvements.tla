----------------------------- MODULE Improvements ---------------------------
(***************************************************************************)
(* Self-improvement loops (agents/improvement/loop.py) and the Chroma      *)
(* collection that keeps them (agents/improvement/storage.py).  A solution *)
(* is the number of improvements that were made to the first one.          *)
(***************************************************************************)
EXTENDS Naturals, Sequences, FiniteSets

CONSTANTS
  ImLoop,          \* loops that requests run
  ImMaxIterations  \* max_iterations

ASSUME ImAssumption == ImMaxIterations \in Nat

VARIABLES
  imAt,        \* what each loop awaits
  imIteration, \* current_iteration
  imSolution,  \* current_solution
  imCritique,  \* the latest critique
  imLog,       \* iterations
  imStatus,    \* status
  imLoopDocs,  \* the documents of loops that are stored
  imIterDocs   \* the documents of iterations that are stored

imVars == <<imAt, imIteration, imSolution, imCritique, imLog, imStatus, imLoopDocs, imIterDocs>>

\* quality_score against the threshold and 0.8, the lists of tests, the list of issues.
ImCritique == [quality : {"low", "above_0.8", "threshold"},
               failed : BOOLEAN, passed : BOOLEAN, issues : BOOLEAN]

ImNoCritique == [quality |-> "low", failed |-> FALSE, passed |-> FALSE, issues |-> TRUE]

ImEntry(l, n, phase, solution) == [loop |-> l, iteration |-> n, phase |-> phase, solution |-> solution]

ImInit ==
  /\ imAt = [l \in ImLoop |-> "idle"]
  /\ imIteration = [l \in ImLoop |-> 0]
  /\ imSolution = [l \in ImLoop |-> 0]
  /\ imCritique = [l \in ImLoop |-> ImNoCritique]
  /\ imLog = [l \in ImLoop |-> << >>]
  /\ imStatus = [l \in ImLoop |-> "running"]
  /\ imLoopDocs = {} /\ imIterDocs = {}

ImPassing(c) == ~c.failed /\ c.passed

ImShouldStop(c) ==
  \/ c.quality = "threshold"
  \/ ImPassing(c)
  \/ ~c.issues /\ c.quality # "low"

ImTerminationStatus(c) ==
  IF c.quality = "threshold" THEN "converged" ELSE IF ImPassing(c) THEN "tests_passing" ELSE "converged"

\* The first solution is given, or generated; an exception of the generator leaves
\* nothing behind.
ImStart(l, generated) ==
  /\ imAt[l] = "idle"
  /\ IF generated
       THEN /\ imLog' = [imLog EXCEPT ![l] = <<ImEntry(l, 0, "generate", 0)>>]
            /\ imIteration' = [imIteration EXCEPT ![l] = IF ImMaxIterations = 0 THEN 0 ELSE 1]
            /\ imAt' = [imAt EXCEPT ![l] = IF ImMaxIterations = 0 THEN "left" ELSE "critique"]
       ELSE /\ imAt' = [imAt EXCEPT ![l] = "raised"]
            /\ UNCHANGED <<imLog, imIteration>>
  /\ UNCHANGED <<imSolution, imCritique, imStatus, imLoopDocs, imIterDocs>>

\* The critic answered: stop, or go on to improve.
ImCritiqueEnds(l, c) ==
  /\ imAt[l] = "critique"
  /\ imCritique' = [imCritique EXCEPT ![l] = c]
  /\ imLog' = [imLog EXCEPT ![l] = Append(@, ImEntry(l, imIteration[l], "critique", imSolution[l]))]
  /\ IF ImShouldStop(c)
       THEN /\ imStatus' = [imStatus EXCEPT ![l] = ImTerminationStatus(c)]
            /\ imAt' = [imAt EXCEPT ![l] = "left"]
       ELSE imAt' = [imAt EXCEPT ![l] = "improve"] /\ UNCHANGED imStatus
  /\ UNCHANGED <<imIteration, imSolution, imLoopDocs, imIterDocs>>

ImImproveEnds(l) ==
  /\ imAt[l] = "improve"
  /\ imSolution' = [imSolution EXCEPT ![l] = @ + 1]
  /\ imLog' = [imLog EXCEPT ![l] = Append(@, ImEntry(l, imIteration[l], "improve", imSolution[l] + 1))]
  /\ IF imIteration[l] < ImMaxIterations
       THEN /\ imIteration' = [imIteration EXCEPT ![l] = @ + 1]
            /\ imAt' = [imAt EXCEPT ![l] = "critique"]
       ELSE imAt' = [imAt EXCEPT ![l] = "left"] /\ UNCHANGED imIteration
  /\ UNCHANGED <<imCritique, imStatus, imLoopDocs, imIterDocs>>

\* The critic raises, or the callback does: before the solution is replaced.
ImIterationFails(l, logged) ==
  /\ imAt[l] \in {"critique", "improve"}
  /\ imStatus' = [imStatus EXCEPT ![l] = "failed"]
  /\ imAt' = [imAt EXCEPT ![l] = "left"]
  /\ imLog' = IF ~logged THEN imLog
              ELSE [imLog EXCEPT ![l] =
                     Append(@, ImEntry(l, imIteration[l], imAt[l],
                                       IF imAt[l] = "improve" THEN imSolution[l] + 1 ELSE imSolution[l]))]
  /\ UNCHANGED <<imIteration, imSolution, imCritique, imLoopDocs, imIterDocs>>

\* Behind the loop: a status at last, and the final solution.
ImLeave(l) ==
  /\ imAt[l] = "left"
  /\ imStatus' = [imStatus EXCEPT ![l] = IF @ = "running" THEN "max_iterations" ELSE @]
  /\ imAt' = [imAt EXCEPT ![l] = "saving"]
  /\ UNCHANGED <<imIteration, imSolution, imCritique, imLog, imLoopDocs, imIterDocs>>

\* The documents of the first n entries of the log: their id is the number of the
\* iteration, and an id that is there already keeps its document.
ImAdded(l, n) ==
  {imLog[l][i] : i \in {i \in 1..n : \A j \in 1..i - 1 : imLog[l][j].iteration # imLog[l][i].iteration}}

\* save_loop stores the loop and then its iterations one by one; an exception of
\* the collection ends that, and the call of run.
ImSave(l, n) ==
  /\ imAt[l] = "saving"
  /\ n \in 0..Len(imLog[l])
  /\ imLoopDocs' = imLoopDocs \cup {l}
  /\ imIterDocs' = imIterDocs \cup ImAdded(l, n)
  /\ imAt' = [imAt EXCEPT ![l] = IF n = Len(imLog[l]) THEN "returned" ELSE "raised"]
  /\ UNCHANGED <<imIteration, imSolution, imCritique, imLog, imStatus>>

\* save_iterations is off, or the document of the loop could not be added.
ImUnsaved(l, end) ==
  /\ imAt[l] = "saving"
  /\ imAt' = [imAt EXCEPT ![l] = end]
  /\ UNCHANGED <<imIteration, imSolution, imCritique, imLog, imStatus, imLoopDocs, imIterDocs>>

\* delete_loop: all documents that name the loop.
ImDelete(l) ==
  /\ l \in imLoopDocs
  /\ imLoopDocs' = imLoopDocs \ {l}
  /\ imIterDocs' = {d \in imIterDocs : d.loop # l}
  /\ UNCHANGED <<imAt, imIteration, imSolution, imCritique, imLog, imStatus>>

ImStep(l) ==
  \/ \E c \in ImCritique : ImCritiqueEnds(l, c)
  \/ ImImproveEnds(l) \/ ImLeave(l)
  \/ \E logged \in BOOLEAN : ImIterationFails(l, logged)
  \/ \E n \in 0..2 * ImMaxIterations + 1 : ImSave(l, n)
  \/ \E end \in {"returned", "raised"} : ImUnsaved(l, end)

ImNext ==
  \E l \in ImLoop : (\E generated \in BOOLEAN : ImStart(l, generated)) \/ ImStep(l) \/ ImDelete(l)
-----------------------------------------------------------------------------
ImTypeOK ==
  /\ imAt \in [ImLoop -> {"idle", "critique", "improve", "left", "saving", "returned", "raised"}]
  /\ imIteration \in [ImLoop -> 0..ImMaxIterations]
  /\ imSolution \in [ImLoop -> 0..ImMaxIterations]
  /\ imCritique \in [ImLoop -> ImCritique]
  /\ imStatus \in [ImLoop -> {"running", "converged", "tests_passing", "max_iterations", "failed"}]
  /\ imLoopDocs \subseteq ImLoop
  /\ \A d \in imIterDocs : d.loop \in ImLoop

\* The status of a loop that ended says why: the latest critique met the threshold
\* or had no issues, or had its tests pass though the threshold was not met, or all
\* the iterations were used without such a critique.
ImStatusExplained ==
  \A l \in ImLoop : imAt[l] \in {"saving", "returned"} =>
    LET c == imCritique[l] IN
    CASE imStatus[l] = "converged" -> c.quality = "threshold" \/ (~c.issues /\ c.quality # "low" /\ ~ImPassing(c))
      [] imStatus[l] = "tests_passing" -> ImPassing(c) /\ c.quality # "threshold"
      [] imStatus[l] = "max_iterations" -> /\ ~ImShouldStop(c)
                                           /\ imIteration[l] = ImMaxIterations
                                           /\ imSolution[l] = ImMaxIterations
      [] imStatus[l] = "failed" -> imSolution[l] < ImMaxIterations
      [] OTHER -> FALSE

\* What is stored of an iteration is one document, whose solution is the one that
\* the iteration began with, never the one that it made; and there are no
\* iterations of a loop that is not stored or was deleted.
ImStoredSolutions ==
  \A d \in imIterDocs :
    /\ d.loop \in imLoopDocs
    /\ \A e \in imIterDocs : e.loop = d.loop /\ e.iteration = d.iteration => e = d
    /\ d.iteration > 0 => d.solution = d.iteration - 1
=============================================================================
