----------------------------- MODULE JudgeQueue -----------------------------
(***************************************************************************)
(* The submission queue and the judge workers: stroj/judge/worker.py,      *)
(* stroj/judge/cancel.py, the control of stroj/judge/runner.py, and the    *)
(* handlers that enqueue, cancel, rejudge and delete submissions           *)
(* (routes_submissions.py, routes_admin.py).                               *)
(*                                                                         *)
(* The web process holds the request handlers, the judge workers (threads) *)
(* and the cancellation registry (memory).  The submissions table is       *)
(* SQLite, so each transaction is one step; a worker and a handler         *)
(* interleave between their transactions.  A crash loses the memory and    *)
(* keeps the table.                                                        *)
(*                                                                         *)
(* All submissions are to one problem.  WA stands for every verdict a      *)
(* failed test gives (WA, TLE, MLE, RE, OLE, IE); a test is worth one      *)
(* point.                                                                  *)
(***************************************************************************)
EXTENDS Naturals, FiniteSets

CONSTANTS
    Worker,          \* the judge's threads (config.JUDGE_WORKERS)
    Handler,         \* web threads that serve the abort route
    MaxSubmissions,  \* bound: rows ever inserted
    NTests,          \* test cases of the problem
    Partial,         \* the problem's `partial` flag: run past a failed test
    Percent,         \* Percent[P]: what earned_percent gives when P passed
    Event,           \* identities of threading.Event objects
    MaxRejudges,     \* bound: rejudge requests
    MaxFixes,        \* bound: times the test data is replaced
    MaxFaults,       \* bound: database calls that raise
    MaxCrashes       \* bound: times the process stops

Sub == 1..MaxSubmissions   \* submission ids: AUTOINCREMENT, never reused
Test == 1..NTests
NoSub == 0
NoEvent == 0

ASSUME BoundsAssumption ==
    /\ MaxSubmissions \in Nat \ {0}
    /\ NTests \in Nat \ {0}
    /\ MaxRejudges \in Nat
    /\ MaxFixes \in Nat
    /\ MaxFaults \in Nat
    /\ MaxCrashes \in Nat
ASSUME ProblemAssumption ==
    /\ Partial \in BOOLEAN
    /\ Percent \in [SUBSET Test -> Nat]
    /\ Percent[{}] = 0
ASSUME EventAssumption == Event \subseteq Nat \ {NoEvent}

VARIABLES
    \* The database.
    verdict,    \* submissions.verdict; NoRow when there is no such row
    score,      \* submissions.score
    earned,     \* submissions.earned_percent
    rows,       \* submission_tests: the tests recorded as passed and as failed
    problem,    \* is the problem's row there?
    data,       \* version of the problem's test data
    \* The workers.
    pc,         \* where the thread is
    job,        \* submission_id
    handle,     \* abort: the Event it watches
    run,        \* the JudgeOutcome being built, and the data it was loaded from
    \* cancel.py.
    registry,   \* _requests: submission id -> Event
    signalled,  \* the Events that are set
    \* The abort route.
    hpc,
    target,
    \* The process and the bounds.
    up, created, rejudges, faults, crashes,
    \* History, read by properties only.
    struck,     \* rejudged while a worker was judging them
    disturbed,  \* rejudged while a worker, a cancellation or an Event was left
    asked,      \* a cancellation was requested since they were last enqueued
    want,       \* the data version when they were last enqueued
    basis,      \* the data version the stored result comes from
    orphaned    \* left JUDGING by a worker whose database failed twice

dbVars == <<verdict, score, earned, rows>>
problemVars == <<problem, data>>
workerVars == <<pc, job, handle, run>>
cancelVars == <<registry, signalled>>
handlerVars == <<hpc, target>>
boundVars == <<up, created, rejudges, faults, crashes>>
historyVars == <<struck, disturbed, asked, want, basis, orphaned>>
vars == <<dbVars, problemVars, workerVars, cancelVars, handlerVars, boundVars,
          historyVars>>

-----------------------------------------------------------------------------
NoRow == "none"
PENDING == "PENDING"
JUDGING == "JUDGING"
AC == "AC"
WA == "WA"
CE == "CE"
IE == "IE"
AB == "AB"
Final == {AC, WA, CE, IE, AB}
InFlight == {PENDING, JUDGING}

NoTests == [pass |-> {}, fail |-> {}]

\* A run so far: tests 1..next - 1 are finished, those in passed were passed.
Outcome(ver, next, passed, v) ==
    [ver |-> ver, next |-> next, passed |-> passed, verdict |-> v]
NewRun == Outcome(0, 1, {}, AC)

\* Where a worker is; it judges its job until its outcome is stored.
Judging == {"claimed", "cleared", "ready", "loop", "running", "storing",
            "unwinding", "crashed"}
WorkerPc == Judging \cup {"idle", "releasing"}
HandlerPc == {"idle", "read", "requested", "won"}

Exists(s) == verdict[s] # NoRow
Holders(s) == {w \in Worker : job[w] = s /\ pc[w] \in Judging}
\* Mutant: `if abort is not None` without `and abort.is_set()`.
IsWatched(w) == handle[w] # NoEvent

\* abort.is_set()
IsSet(w) == handle[w] \in signalled

\* The tests of a run that did not pass.
Failed(r) == (1..(r.next - 1)) \ r.passed

\* Nothing of an earlier enqueueing of s is still going on or left behind.
Quiet(s) ==
    /\ \A w \in Worker : job[w] # s
    /\ \A h \in Handler : target[h] # s
    /\ registry[s] = NoEvent

\* A UPDATE ... WHERE id = s: no row, no change.
Updated(column, s, v) == IF Exists(s) THEN [column EXCEPT ![s] = v] ELSE column

Init ==
    /\ verdict = [s \in Sub |-> NoRow]
    /\ score = [s \in Sub |-> 0]
    /\ earned = [s \in Sub |-> 0]
    /\ rows = [s \in Sub |-> NoTests]
    /\ problem = TRUE
    /\ data = 0
    /\ pc = [w \in Worker |-> "idle"]
    /\ job = [w \in Worker |-> NoSub]
    /\ handle = [w \in Worker |-> NoEvent]
    /\ run = [w \in Worker |-> NewRun]
    /\ registry = [s \in Sub |-> NoEvent]
    /\ signalled = {}
    /\ hpc = [h \in Handler |-> "idle"]
    /\ target = [h \in Handler |-> NoSub]
    /\ up = TRUE
    /\ created = 0
    /\ rejudges = 0
    /\ faults = 0
    /\ crashes = 0
    /\ struck = {}
    /\ disturbed = {}
    /\ asked = {}
    /\ want = [s \in Sub |-> 0]
    /\ basis = [s \in Sub |-> 0]
    /\ orphaned = {}

-----------------------------------------------------------------------------
(***************************************************************************)
(* Enqueueing.                                                             *)
(***************************************************************************)

\* The INSERT of submit, bulk_submit and express_create.  The limits that may
\* refuse it before are another component's (see README); so is the wakeup,
\* which only shortens a worker's one-second poll.
Submit ==
    /\ up
    /\ problem
    /\ created < MaxSubmissions
    /\ created' = created + 1
    /\ verdict' = [verdict EXCEPT ![created + 1] = PENDING]
    /\ want' = [want EXCEPT ![created + 1] = data]
    /\ UNCHANGED <<score, earned, rows, problemVars, workerVars, cancelVars,
                   handlerVars, up, rejudges, faults, crashes,
                   struck, disturbed, asked, basis, orphaned>>

\* One UPDATE, whatever state the rows are in.  `stroj rejudge` does the same
\* from its own process, so the web process need not be up.
Rejudge(S) ==
    /\ rejudges < MaxRejudges
    /\ S # {}
    /\ \A s \in S : Exists(s)
    /\ rejudges' = rejudges + 1
    /\ verdict' = [s \in Sub |-> IF s \in S THEN PENDING ELSE verdict[s]]
    /\ struck' = struck \cup {s \in S : Holders(s) # {}}
    /\ disturbed' = disturbed \cup {s \in S : ~Quiet(s)}
    /\ asked' = asked \ S
    /\ want' = [s \in Sub |-> IF s \in S THEN data ELSE want[s]]
    /\ orphaned' = orphaned \ S
    /\ UNCHANGED <<score, earned, rows, problemVars, workerVars, cancelVars,
                   handlerVars, up, created, faults, crashes, basis>>

RejudgeOne == \E s \in Sub : Rejudge({s})
RejudgeProblem == Rejudge({s \in Sub : Exists(s)})

\* replace_tests, upload_tests: new test data.
FixTests ==
    /\ up
    /\ problem
    /\ data < MaxFixes
    /\ data' = data + 1
    /\ UNCHANGED <<dbVars, problem, workerVars, cancelVars, handlerVars, boundVars,
                   historyVars>>

\* delete_problem: the submissions and their tests go by ON DELETE CASCADE.
DeleteProblem ==
    /\ up
    /\ problem
    /\ problem' = FALSE
    /\ verdict' = [s \in Sub |-> NoRow]
    /\ score' = [s \in Sub |-> 0]
    /\ earned' = [s \in Sub |-> 0]
    /\ rows' = [s \in Sub |-> NoTests]
    /\ UNCHANGED <<data, workerVars, cancelVars, handlerVars, boundVars, historyVars>>

-----------------------------------------------------------------------------
(***************************************************************************)
(* cancel.py.                                                              *)
(***************************************************************************)

UsedEvents == {registry[s] : s \in Sub} \cup {handle[w] : w \in Worker}

\* threading.Event(): an object nobody refers to yet, and not set.
NewEvent(e) ==
    /\ e \in Event \ UsedEvents
    /\ \A f \in Event \ UsedEvents : e <= f

\* Mutant: the registry entry is replaced, not kept.
RegisterReplaces(w) ==
    \E e \in Event :
        /\ NewEvent(e)
        /\ handle' = [handle EXCEPT ![w] = e]
        /\ registry' = [registry EXCEPT ![job[w]] = e]
        /\ UNCHANGED signalled

\* The worker gets the Event already there, or a new one.
Register(w) ==
    \/ /\ registry[job[w]] # NoEvent
       /\ handle' = [handle EXCEPT ![w] = registry[job[w]]]
       /\ UNCHANGED cancelVars
    \/ /\ registry[job[w]] = NoEvent
       /\ \E e \in Event :
            /\ NewEvent(e)
            /\ handle' = [handle EXCEPT ![w] = e]
            /\ registry' = [registry EXCEPT ![job[w]] = e]
       /\ UNCHANGED signalled

\* setdefault, then set().
RequestCancel(s) ==
    \/ /\ registry[s] # NoEvent
       /\ signalled' = signalled \cup {registry[s]}
       /\ UNCHANGED registry
    \/ /\ registry[s] = NoEvent
       /\ \E e \in Event :
            /\ NewEvent(e)
            /\ registry' = [registry EXCEPT ![s] = e]
            /\ signalled' = signalled \cup {e}

\* The entry is popped; an Event no worker holds is garbage.
ReleaseEntry(s, holding) ==
    /\ registry' = [registry EXCEPT ![s] = NoEvent]
    /\ signalled' = signalled \cap
         ({registry[q] : q \in Sub \ {s}} \cup {handle[w] : w \in holding})

-----------------------------------------------------------------------------
(***************************************************************************)
(* A worker: run() and judge_submission().                                 *)
(***************************************************************************)

Goto(w, place) == pc' = [pc EXCEPT ![w] = place]

\* Mutant: no ORDER BY.
AnyPending(s) == verdict[s] = PENDING

\* The SELECT of claim_next.
OldestPending(s) ==
    /\ verdict[s] = PENDING
    /\ \A q \in Sub : verdict[q] = PENDING => s <= q

\* Mutant: the row is selected and not marked.
NotMarked(s) == UNCHANGED verdict

\* The UPDATE of claim_next.
MarkJudging(s) == verdict' = [verdict EXCEPT ![s] = JUDGING]

\* claim_next: the SELECT and the UPDATE in one transaction.
Claim(w) ==
    /\ up
    /\ pc[w] = "idle"
    /\ \E s \in Sub :
        /\ OldestPending(s)
        /\ MarkJudging(s)
        /\ job' = [job EXCEPT ![w] = s]
    /\ Goto(w, "claimed")
    /\ UNCHANGED <<score, earned, rows, problemVars, handle, run, cancelVars,
                   handlerVars, boundVars, historyVars>>

\* Mutant: the previous run's tests and score stay.
LeaveEarlierRun(s) == UNCHANGED <<rows, score>>

ClearEarlierRun(s) ==
    /\ rows' = [rows EXCEPT ![s] = NoTests]
    /\ score' = [score EXCEPT ![s] = 0]

\* The row is read, and the traces of an earlier run are removed; its
\* earned_percent is not.
Reset(w) ==
    /\ pc[w] = "claimed"
    /\ Exists(job[w])
    /\ ClearEarlierRun(job[w])
    /\ Goto(w, "cleared")
    /\ UNCHANGED <<verdict, earned, problemVars, job, handle, run, cancelVars,
                   handlerVars, boundVars, historyVars>>

\* "submission vanished": nothing is stored and nothing was registered.
Vanished(w) ==
    /\ pc[w] = "claimed"
    /\ ~Exists(job[w])
    /\ Goto(w, "idle")
    /\ job' = [job EXCEPT ![w] = NoSub]
    /\ UNCHANGED <<dbVars, problemVars, handle, run, cancelVars, handlerVars,
                   boundVars, historyVars>>

\* Mutant: test cases from a cache that a replacement does not drop.
CachedTests == IF data > 0 THEN data - 1 ELSE data

\* load_tests, load_subtasks, load_limits: read anew for each run.
LoadedTests == data

\* The problem is read, the Event registered and the test data loaded.  What
\* others do between these three reads commutes with one of them, so they are
\* one step.
Load(w) ==
    /\ pc[w] = "cleared"
    /\ Register(w)
    /\ \/ /\ problem
          /\ run' = [run EXCEPT ![w] = Outcome(LoadedTests, 1, {}, AC)]
          /\ Goto(w, "ready")
       \/ /\ ~problem
          /\ run' = [run EXCEPT ![w] = Outcome(0, 1, {}, IE)]
          /\ Goto(w, "storing")
    /\ UNCHANGED <<dbVars, problemVars, job, handlerVars, boundVars, historyVars>>

\* No run at all: language unknown or not installed, no test cases (IE), source
\* refused or not compiling (CE).  All but the last come before the Event is
\* looked at.
Refuse(w, v) ==
    /\ pc[w] = "ready"
    /\ run' = [run EXCEPT ![w] = Outcome(run[w].ver, 1, {}, v)]
    /\ Goto(w, "storing")
    /\ UNCHANGED <<dbVars, problemVars, job, handle, cancelVars, handlerVars,
                   boundVars, historyVars>>

\* Compiled and warmed up without being cancelled.
Compiled(w) ==
    /\ pc[w] = "ready"
    /\ ~IsSet(w)
    /\ Goto(w, "loop")
    /\ UNCHANGED <<dbVars, problemVars, job, handle, run, cancelVars, handlerVars,
                   boundVars, historyVars>>

\* The Event is looked at before each test ...
BeginTest(w) ==
    /\ pc[w] = "loop"
    /\ ~IsSet(w)
    /\ Goto(w, "running")
    /\ UNCHANGED <<dbVars, problemVars, job, handle, run, cancelVars, handlerVars,
                   boundVars, historyVars>>

\* ... and by the sandbox while the program compiles or runs.  The tests that
\* finished are kept, the one that was stopped is not.
Cancelled(w) ==
    /\ pc[w] \in {"ready", "loop", "running"}
    /\ IsSet(w)
    /\ run' = [run EXCEPT ![w] =
                  Outcome(run[w].ver, run[w].next, run[w].passed, AB)]
    /\ Goto(w, "storing")
    /\ UNCHANGED <<dbVars, problemVars, job, handle, cancelVars, handlerVars,
                   boundVars, historyVars>>

\* publish_test, INSERT OR REPLACE and the header in one transaction; without
\* the submission's row the foreign key refuses it.
Publish(s, i, ok) ==
    /\ rows' = IF ~Exists(s) THEN rows
               ELSE [rows EXCEPT ![s] =
                       IF ok THEN [pass |-> rows[s].pass \cup {i},
                                   fail |-> rows[s].fail \ {i}]
                             ELSE [pass |-> rows[s].pass \ {i},
                                   fail |-> rows[s].fail \cup {i}]]
    /\ score' = Updated(score, s, score[s] + IF ok THEN 1 ELSE 0)

\* Mutant: the loop looks one test too far.
EndsLate(i, ok) == i = NTests + 1 \/ (~ok /\ ~Partial)

\* A failed test ends the run unless the problem pays for partial results.
Ends(i, ok) == i = NTests \/ (~ok /\ ~Partial)

\* A test finishes and is published.  An error in publishing is swallowed.
EndTest(w, ok, published) ==
    LET i == run[w].next
    IN  /\ pc[w] = "running"
        /\ run' = [run EXCEPT ![w] =
                     Outcome(run[w].ver,
                             i + 1,
                             IF ok THEN run[w].passed \cup {i} ELSE run[w].passed,
                             IF ok THEN run[w].verdict ELSE WA)]
        /\ IF published
           THEN Publish(job[w], i, ok) /\ UNCHANGED faults
           ELSE /\ faults < MaxFaults
                /\ faults' = faults + 1
                /\ UNCHANGED <<rows, score>>
        /\ Goto(w, IF Ends(i, ok) THEN "storing" ELSE "loop")
        /\ UNCHANGED <<verdict, earned, problemVars, job, handle, cancelVars,
                       handlerVars, up, created, rejudges, crashes, historyVars>>

\* judge() catches any exception of its own: IE, and the finished tests are
\* dropped from the outcome.
Breaks(w) ==
    /\ pc[w] = "running"
    /\ run' = [run EXCEPT ![w] = Outcome(run[w].ver, 1, {}, IE)]
    /\ Goto(w, "storing")
    /\ UNCHANGED <<dbVars, problemVars, job, handle, cancelVars, handlerVars,
                   boundVars, historyVars>>

\* Mutant: the tests published so far are kept instead of replaced.
RowsKept(s, r) == rows

\* The outcome's tests replace whatever was published.
RowsOf(s, r) == Updated(rows, s, [pass |-> r.passed, fail |-> Failed(r)])

\* store_outcome, one transaction.  Cancelled: score 0, nothing earned, tests
\* kept.
WriteOutcome(s, r) ==
    /\ verdict' = Updated(verdict, s, r.verdict)
    /\ rows' = RowsOf(s, r)
    /\ score' = Updated(score, s, IF r.verdict = AB THEN 0 ELSE Cardinality(r.passed))
    /\ earned' = Updated(earned, s,
                         IF r.verdict \in {CE, AB} THEN 0 ELSE Percent[r.passed])
    /\ basis' = [basis EXCEPT ![s] = r.ver]

\* The outcome is stored, over whatever verdict the row has by now.  If the row
\* was deleted its tests violate the foreign key; without tests nothing does.
Store(w) ==
    /\ pc[w] = "storing"
    /\ \/ /\ Exists(job[w]) \/ run[w].next = 1
          /\ WriteOutcome(job[w], run[w])
          /\ Goto(w, "releasing")
       \/ /\ ~Exists(job[w]) /\ run[w].next # 1
          /\ Goto(w, "unwinding")
          /\ UNCHANGED <<dbVars, basis>>
    /\ run' = [run EXCEPT ![w] = NewRun]
    /\ UNCHANGED <<problemVars, job, handle, cancelVars, handlerVars, boundVars,
                   struck, disturbed, asked, want, orphaned>>

\* The finally: cancel.release, after the outcome was stored or on the way of
\* an exception to run().
Release(w) ==
    /\ pc[w] \in {"releasing", "unwinding"}
    /\ ReleaseEntry(job[w], Worker \ {w})
    /\ handle' = [handle EXCEPT ![w] = NoEvent]
    /\ \/ /\ pc[w] = "releasing"
          /\ Goto(w, "idle")
          /\ job' = [job EXCEPT ![w] = NoSub]
       \/ /\ pc[w] = "unwinding"
          /\ Goto(w, "crashed")
          /\ UNCHANGED job
    /\ UNCHANGED <<dbVars, problemVars, run, handlerVars, boundVars, historyVars>>

\* run() records "judge crashed": IE, no tests.
RecordCrash(w) ==
    /\ pc[w] = "crashed"
    /\ WriteOutcome(job[w], Outcome(0, 1, {}, IE))
    /\ Goto(w, "idle")
    /\ job' = [job EXCEPT ![w] = NoSub]
    /\ UNCHANGED <<problemVars, handle, run, cancelVars, handlerVars, boundVars,
                   struck, disturbed, asked, want, orphaned>>

\* A database call of the worker raises.  Before the Event is registered there
\* is nothing to release; while loading or storing, the finally runs first; if
\* recording the crash fails too, the worker only logs it and goes on.
Fault(w) ==
    /\ faults < MaxFaults
    /\ faults' = faults + 1
    /\ \/ /\ pc[w] \in {"claimed", "cleared"}
          /\ Goto(w, "crashed")
          /\ UNCHANGED <<job, handle, run, cancelVars, orphaned>>
       \/ /\ pc[w] = "cleared"
          /\ Register(w)
          /\ Goto(w, "unwinding")
          /\ UNCHANGED <<job, run, orphaned>>
       \/ /\ pc[w] = "storing"
          /\ Goto(w, "unwinding")
          /\ run' = [run EXCEPT ![w] = NewRun]
          /\ UNCHANGED <<job, handle, cancelVars, orphaned>>
       \/ /\ pc[w] = "crashed"
          /\ Goto(w, "idle")
          /\ job' = [job EXCEPT ![w] = NoSub]
          /\ orphaned' = orphaned \cup {job[w]}
          /\ UNCHANGED <<handle, run, cancelVars>>
    /\ UNCHANGED <<dbVars, problemVars, handlerVars, up, created, rejudges, crashes,
                   struck, disturbed, asked, want, basis>>

-----------------------------------------------------------------------------
(***************************************************************************)
(* The abort route: reads the row, asks, then tries to settle it in the    *)
(* queue.                                                                  *)
(***************************************************************************)

HandlerGoto(h, place) == hpc' = [hpc EXCEPT ![h] = place]

AbortRead(h) ==
    /\ up
    /\ hpc[h] = "idle"
    /\ \E s \in Sub :
        /\ verdict[s] \in InFlight
        /\ target' = [target EXCEPT ![h] = s]
    /\ HandlerGoto(h, "read")
    /\ UNCHANGED <<dbVars, problemVars, workerVars, cancelVars, boundVars,
                   historyVars>>

AbortRequest(h) ==
    /\ hpc[h] = "read"
    /\ RequestCancel(target[h])
    /\ asked' = asked \cup {target[h]}
    /\ HandlerGoto(h, "requested")
    /\ UNCHANGED <<dbVars, problemVars, workerVars, target, boundVars,
                   struck, disturbed, want, basis, orphaned>>

\* Mutant: the UPDATE without AND verdict = PENDING.
MayCancel(s) == Exists(s)

StillQueued(s) == verdict[s] = PENDING

\* UPDATE ... WHERE verdict = PENDING: verdict, message and judged_at only.
AbortSettle(h) ==
    /\ hpc[h] = "requested"
    /\ \/ /\ StillQueued(target[h])
          /\ verdict' = [verdict EXCEPT ![target[h]] = AB]
          /\ HandlerGoto(h, "won")
          /\ UNCHANGED target
       \/ /\ ~StillQueued(target[h])
          /\ HandlerGoto(h, "idle")
          /\ target' = [target EXCEPT ![h] = NoSub]
          /\ UNCHANGED verdict
    /\ UNCHANGED <<score, earned, rows, problemVars, workerVars, cancelVars,
                   boundVars, historyVars>>

\* "It never started, so nothing is watching the event."
AbortRelease(h) ==
    /\ hpc[h] = "won"
    /\ ReleaseEntry(target[h], Worker)
    /\ HandlerGoto(h, "idle")
    /\ target' = [target EXCEPT ![h] = NoSub]
    /\ UNCHANGED <<dbVars, problemVars, workerVars, boundVars, historyVars>>

\* The UPDATE raises: the request stays, the row was not touched.
AbortFault(h) ==
    /\ hpc[h] = "requested"
    /\ faults < MaxFaults
    /\ faults' = faults + 1
    /\ HandlerGoto(h, "idle")
    /\ target' = [target EXCEPT ![h] = NoSub]
    /\ UNCHANGED <<dbVars, problemVars, workerVars, cancelVars, up, created,
                   rejudges, crashes, historyVars>>

-----------------------------------------------------------------------------
(***************************************************************************)
(* The process stops at any moment and is started again.                   *)
(***************************************************************************)

Crash ==
    /\ up
    /\ crashes < MaxCrashes
    /\ up' = FALSE
    /\ crashes' = crashes + 1
    /\ pc' = [w \in Worker |-> "idle"]
    /\ job' = [w \in Worker |-> NoSub]
    /\ handle' = [w \in Worker |-> NoEvent]
    /\ run' = [w \in Worker |-> NewRun]
    /\ registry' = [s \in Sub |-> NoEvent]
    /\ signalled' = {}
    /\ hpc' = [h \in Handler |-> "idle"]
    /\ target' = [h \in Handler |-> NoSub]
    /\ asked' = {s \in asked : verdict[s] \in Final}
    /\ UNCHANGED <<dbVars, problemVars, created, rejudges, faults,
                   struck, disturbed, want, basis, orphaned>>

\* Mutant: the pool starts without requeue_stuck.
NothingStuck == {}

Stuck == {s \in Sub : verdict[s] = JUDGING}

\* start_pool: requeue_stuck before any worker or request runs.
Restart ==
    /\ ~up
    /\ up' = TRUE
    /\ verdict' = [s \in Sub |-> IF s \in Stuck THEN PENDING ELSE verdict[s]]
    /\ score' = [s \in Sub |-> IF s \in Stuck THEN 0 ELSE score[s]]
    /\ earned' = [s \in Sub |-> IF s \in Stuck THEN 0 ELSE earned[s]]
    /\ rows' = [s \in Sub |-> IF s \in Stuck THEN NoTests ELSE rows[s]]
    /\ orphaned' = orphaned \ Stuck
    /\ UNCHANGED <<problemVars, workerVars, cancelVars, handlerVars, created,
                   rejudges, faults, crashes, struck, disturbed, asked, want, basis>>

-----------------------------------------------------------------------------
\* What a worker does of its own accord, the database permitting.
WorkerStep(w) ==
    \/ Claim(w)
    \/ Reset(w)
    \/ Vanished(w)
    \/ Load(w)
    \/ \E v \in {CE, IE} : Refuse(w, v)
    \/ Compiled(w)
    \/ BeginTest(w)
    \/ Cancelled(w)
    \/ \E ok, published \in BOOLEAN : EndTest(w, ok, published)
    \/ Breaks(w)
    \/ Store(w)
    \/ Release(w)
    \/ RecordCrash(w)

HandlerStep(h) ==
    \/ AbortRead(h)
    \/ AbortRequest(h)
    \/ AbortSettle(h)
    \/ AbortRelease(h)

Next ==
    \/ Submit
    \/ RejudgeOne
    \/ RejudgeProblem
    \/ FixTests
    \/ DeleteProblem
    \/ \E w \in Worker : WorkerStep(w) \/ Fault(w)
    \/ \E h \in Handler : HandlerStep(h) \/ AbortFault(h)
    \/ Crash
    \/ Restart

\* Threads run, every test ends (the sandbox has a wall clock) and a stopped
\* container is started again.  Users and administrators owe nothing, and
\* nothing says a database call must fail.
Fairness ==
    /\ \A w \in Worker : WF_vars(WorkerStep(w))
    /\ WF_vars(Restart)

Spec == Init /\ [][Next]_vars

FairSpec == Spec /\ Fairness

\* The behaviours in which nobody rejudges a submission a worker is judging.
CarefulNext == Next /\ UNCHANGED struck

CarefulSpec == Init /\ [][CarefulNext]_vars

FairCarefulSpec == CarefulSpec /\ Fairness

-----------------------------------------------------------------------------
(***************************************************************************)
(* Properties.                                                             *)
(***************************************************************************)

DbTypeOK ==
    /\ verdict \in [Sub -> Final \cup InFlight \cup {NoRow}]
    /\ score \in [Sub -> Nat]
    /\ earned \in [Sub -> Nat]
    /\ rows \in [Sub -> [pass : SUBSET Test, fail : SUBSET Test]]
    /\ problem \in BOOLEAN
    /\ data \in 0..MaxFixes

Outcomes == [ver : 0..MaxFixes, next : 1..(NTests + 1), passed : SUBSET Test,
             verdict : Final]

WorkerTypeOK ==
    /\ pc \in [Worker -> WorkerPc]
    /\ job \in [Worker -> Sub \cup {NoSub}]
    /\ handle \in [Worker -> Event \cup {NoEvent}]
    /\ run \in [Worker -> Outcomes]
    /\ \A w \in Worker : pc[w] # "idle" => job[w] \in Sub
    /\ \A w \in Worker : pc[w] \in {"ready", "loop", "running"} => run[w].next \in Test

CancelTypeOK ==
    /\ registry \in [Sub -> Event \cup {NoEvent}]
    /\ signalled \in SUBSET Event
    /\ hpc \in [Handler -> HandlerPc]
    /\ target \in [Handler -> Sub \cup {NoSub}]
    /\ \A h \in Handler : hpc[h] # "idle" => target[h] \in Sub

BoundTypeOK ==
    /\ up \in BOOLEAN
    /\ created \in 0..MaxSubmissions
    /\ rejudges \in 0..MaxRejudges
    /\ faults \in 0..MaxFaults
    /\ crashes \in 0..MaxCrashes

HistoryTypeOK ==
    /\ struck \in SUBSET Sub
    /\ disturbed \in SUBSET Sub
    /\ asked \in SUBSET Sub
    /\ want \in [Sub -> 0..MaxFixes]
    /\ basis \in [Sub -> 0..MaxFixes]
    /\ orphaned \in SUBSET Sub

\* Every variable has its type (submissions, submission_tests, the threads'
\* locals and the cancellation registry); a thread that is busy has a submission,
\* and a test that starts is one of the problem's.
TypeOK ==
    /\ DbTypeOK
    /\ WorkerTypeOK
    /\ CancelTypeOK
    /\ BoundTypeOK
    /\ HistoryTypeOK

\* claim_next is atomic so that no submission is judged by two workers.  It is
\* so across faults, crashes and cancellations; the one way to break it is a
\* rejudge that strikes while a worker is judging.
ExclusiveJudging ==
    \A s \in Sub \ struck : \A v, w \in Holders(s) : v = w

\* A row says JUDGING only while some worker judges it, unless that worker's
\* database failed twice in a row (then the row waits for a restart and counts
\* against its owner's limit until then).
NoZombieRow ==
    up => \A s \in Sub \ orphaned : verdict[s] = JUDGING => Holders(s) # {}

\* What the submission page shows during a run is this run's: only tests that
\* it finished, with the result it gave them, and a score that is the sum of
\* the points on the page (publish_test adds to whatever it finds).
LivePage ==
    \A w \in Worker :
        pc[w] \in {"cleared", "ready", "loop", "running"} /\ Exists(job[w])
          /\ job[w] \notin struck =>
            /\ rows[job[w]].pass \subseteq run[w].passed
            /\ rows[job[w]].fail \subseteq Failed(run[w])
            /\ score[job[w]] = Cardinality(rows[job[w]].pass)

\* A stored result is of one piece: verdict, tests, score and earned_percent
\* come from the same run, however many transactions wrote to the row before.
CoherentResult ==
    \A s \in Sub \ struck :
        /\ verdict[s] = AC =>
             /\ rows[s] = [pass |-> Test, fail |-> {}]
             /\ earned[s] = Percent[Test]
        /\ verdict[s] = WA =>
             /\ rows[s].fail # {}
             /\ earned[s] = Percent[rows[s].pass]
             /\ Partial => rows[s].pass \cup rows[s].fail = Test
        /\ verdict[s] \in {CE, IE} => rows[s] = NoTests /\ earned[s] = 0
        /\ verdict[s] \in Final \ {AB} => score[s] = Cardinality(rows[s].pass)

\* A graded submission was graded against test data no older than what was in
\* place when it was last enqueued: a rejudge after a fix takes effect.
FreshVerdict ==
    \A s \in Sub \ struck : verdict[s] \in {AC, WA} => basis[s] >= want[s]

\* A submission ends as cancelled only if somebody asked for that since it was
\* last enqueued.
NoPhantomCancel ==
    \A s \in Sub \ disturbed : verdict[s] = AB => s \in asked

\* Once a cancellation was requested no further test of the submission starts.
NoTestAfterCancel ==
    [][\A w \in Worker :
         pc[w] = "loop" /\ pc'[w] = "running" /\ job[w] \notin disturbed
           => job[w] \notin asked]_vars

\* This step leaves a final result of s alone, or it is a rejudge, which
\* changes no more than the verdict.
ResultStands(s) ==
    verdict[s] \in Final /\ s \notin struck' /\ verdict'[s] # NoRow =>
        /\ UNCHANGED <<score[s], earned[s], rows[s]>>
        /\ verdict'[s] # verdict[s] => rejudges' # rejudges

\* A result stands: once final, only a rejudge (or deletion) changes the
\* verdict, and nothing else of the result changes before the next run.
ResultsStand ==
    [][\A s \in Sub : ResultStands(s)]_vars

\* Every submission that waits is judged or cancelled in the end, through
\* crashes, faults and rejudges, except one orphaned by a double fault.
EventuallyJudged ==
    \A s \in Sub :
        verdict[s] = PENDING ~>
            (verdict[s] \in Final \cup {NoRow} \/ s \in orphaned)

-----------------------------------------------------------------------------
(***************************************************************************)
(* What JudgeService promises, seen in this module's state.                *)
(***************************************************************************)

PhaseOf(s) ==
    CASE verdict[s] = NoRow -> IF s <= created THEN "gone" ELSE "absent"
      [] verdict[s] = PENDING -> "queued"
      [] verdict[s] = JUDGING -> IF Holders(s) = {} THEN "abandoned" ELSE "running"
      [] OTHER -> "done"

RunningOf(w) == IF pc[w] \in Judging /\ Exists(job[w]) THEN job[w] ELSE NoSub

ServicePhase == [s \in Sub |-> PhaseOf(s)]
ServiceRunning == [w \in Worker |-> RunningOf(w)]

Service == INSTANCE JudgeService WITH phase <- ServicePhase, running <- ServiceRunning

\* While nobody rejudges what is being judged, the queue implements the service.
ImplementsService == Service!Spec

-----------------------------------------------------------------------------
(***************************************************************************)
(* What the code's comments say of every behaviour, and is not so.         *)
(***************************************************************************)

\* routes_admin.py:1186, "Send submissions back through the judge, e.g. after
\* fixing test data": no final verdict stays from before the fix.
RejudgeTakesEffect ==
    \A s \in Sub : verdict[s] \in {AC, WA} => basis[s] >= want[s]

\* routes_submissions.py:313, "either the UPDATE wins and no worker ever starts
\* it, or the worker started and picks up the request": a request is left in
\* the registry of a submission only while somebody will deal with it.
RequestIsPickedUp ==
    \A s \in Sub :
        Exists(s) /\ registry[s] # NoEvent =>
            \/ verdict[s] \in InFlight
            \/ \E w \in Worker : job[w] = s
            \/ \E h \in Handler : target[h] = s

\* worker.py:200, "a cancelled run was never allowed to finish, so [it does
\* not earn] anything", and runner.py:407.
CancelledEarnsNothing ==
    \A s \in Sub : verdict[s] = AB => earned[s] = 0
=============================================================================
