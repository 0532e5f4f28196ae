---------------------------- MODULE MCJudgeQueue ----------------------------
(***************************************************************************)
(* Small instances of JudgeQueue for TLC.                                  *)
(***************************************************************************)
EXTENDS JudgeQueue, TLC

CONSTANTS w1, w2, h1, h2   \* model values

OneWorker == {w1}
TwoWorkers == {w1, w2}
OneHandler == {h1}
TwoHandlers == {h1, h2}

\* Workers are interchangeable, and so are web threads; used in safety runs.
Symmetry == Permutations(Worker) \cup Permutations(Handler)

\* No guard and no part of the refinement mapping reads the other variables (the
\* stored result and the history), so states that agree on these behave alike.
ControlView ==
    <<verdict, problem, data, workerVars, cancelVars, handlerVars, boundVars>>

\* At most one Event per submission is registered and one per worker detached.
Events == 1..(MaxSubmissions + Cardinality(Worker))

\* Test 1 is a sample and pays nothing when there are others; no subtasks.
Percents ==
    LET scored == IF NTests = 1 THEN Test ELSE Test \ {1}
    IN  [P \in SUBSET Test |->
           IF Partial THEN (100 * Cardinality(P \cap scored)) \div Cardinality(scored)
           ELSE IF scored \subseteq P THEN 100 ELSE 0]
=============================================================================
