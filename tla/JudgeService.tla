---------------------------- MODULE JudgeService ----------------------------
(***************************************************************************)
(* What the judge promises its users, with the machinery left out: every   *)
(* submission waits in one queue, is taken by at most one worker at a      *)
(* time, oldest first, and ends with a result; it goes back to the queue   *)
(* only when an administrator asks for it or when the judge restarts.      *)
(*                                                                         *)
(* There is no code for this module.  It is the abstract specification     *)
(* that JudgeQueue is shown to implement.                                  *)
(***************************************************************************)
EXTENDS Naturals

CONSTANTS Worker,          \* judge workers
          MaxSubmissions   \* submissions ever created

Sub == 1..MaxSubmissions
Free == 0                  \* "no submission": ids start at 1

VARIABLES phase,           \* phase[s]: where submission s is in its life
          running          \* running[w]: the submission worker w judges, or Free

svars == <<phase, running>>

Phases == {"absent", "queued", "running", "abandoned", "done", "gone"}

TypeOK ==
    /\ phase \in [Sub -> Phases]
    /\ running \in [Worker -> Sub \cup {Free}]

Init ==
    /\ phase = [s \in Sub |-> "absent"]
    /\ running = [w \in Worker |-> Free]

Submit(s) ==
    /\ phase[s] = "absent"
    /\ phase' = [phase EXCEPT ![s] = "queued"]
    /\ UNCHANGED running

\* First come, first judged: a worker may only take the oldest waiting one.
Take(w, s) ==
    /\ running[w] = Free
    /\ phase[s] = "queued"
    /\ \A q \in Sub : phase[q] = "queued" => s <= q
    /\ phase' = [phase EXCEPT ![s] = "running"]
    /\ running' = [running EXCEPT ![w] = s]

\* The worker ends its run with a result, or gives it up without one.
Leave(w, end) ==
    /\ running[w] # Free
    /\ phase' = [phase EXCEPT ![running[w]] = end]
    /\ running' = [running EXCEPT ![w] = Free]

\* A waiting submission is cancelled; no worker ever starts it.
Cancel(s) ==
    /\ phase[s] = "queued"
    /\ phase' = [phase EXCEPT ![s] = "done"]
    /\ UNCHANGED running

\* An administrator sends submissions nobody is judging back to the queue.
Rejudge(S) ==
    /\ \A s \in S : phase[s] \notin {"absent", "running", "gone"}
    /\ phase' = [s \in Sub |-> IF s \in S THEN "queued" ELSE phase[s]]
    /\ UNCHANGED running

\* The judge stops: what was running is abandoned until Recover.
Stop ==
    /\ phase' = [s \in Sub |-> IF phase[s] = "running" THEN "abandoned" ELSE phase[s]]
    /\ running' = [w \in Worker |-> Free]

Recover ==
    /\ phase' = [s \in Sub |-> IF phase[s] = "abandoned" THEN "queued" ELSE phase[s]]
    /\ UNCHANGED running

\* The problem is deleted and its submissions with it.
Delete ==
    /\ phase' = [s \in Sub |-> IF phase[s] = "absent" THEN "absent" ELSE "gone"]
    /\ running' = [w \in Worker |-> Free]

Next ==
    \/ \E s \in Sub : Submit(s) \/ Cancel(s)
    \/ \E w \in Worker, s \in Sub : Take(w, s)
    \/ \E w \in Worker, end \in {"done", "abandoned"} : Leave(w, end)
    \/ \E S \in SUBSET Sub : Rejudge(S)
    \/ Stop
    \/ Recover
    \/ Delete

Spec == Init /\ [][Next]_svars

-----------------------------------------------------------------------------
\* A submission is being judged exactly when some worker has it, and then only
\* one has.
OneJudgeEach ==
    /\ \A s \in Sub : phase[s] = "running" <=> \E w \in Worker : running[w] = s
    /\ \A v, w \in Worker : running[v] = running[w] /\ running[v] # Free => v = w
=============================================================================
