# stroj: a verification project

stroj is an online judge: a web application (FastAPI over SQLite) that takes
programs, runs them in a sandbox against test data and shows the verdict, with
contests, ratings, accounts, and the scripts that deploy it. This directory
holds TLA+ models of its logic, the TLC configurations that check them, and
proofs checked by TLAPS. Paths below are relative to the repository.

1. [Inventory](#1-inventory) 2. [What is modelled](#2-what-is-modelled)
3. [The runs](#3-the-runs) 4. [Fairness](#4-fairness) 5. [The proofs](#5-the-proofs)
6. [Findings](#6-findings) 7. [Not modelled](#7-not-modelled) 8. [Plan](#8-plan)

## 1. Inventory

| Component | State | Operations | Interacts with |
|---|---|---|---|
| Judge queue, `stroj/judge/worker.py` | the `submissions` and `submission_tests` tables; threads | claim, judge, publish, store, requeue_stuck, drain, start/stop | runner, cancellation, ratings |
| Cancellation, `stroj/judge/cancel.py` | `_requests`: submission id to `threading.Event`, in memory | register, request, is_requested, release, reset | workers, abort route |
| Runner, `stroj/judge/runner.py` | locals of one run | compile, warm up, run each test, grade | sandbox, checkers |
| Sandbox, `stroj/judge/sandbox.py`, `measure.c` | one child process, watcher threads, cgroup-like limits | run with time, memory, output limits and abort | runner |
| Submission routes, `stroj/api/routes_submissions.py` | - | submit with its limits, list, abort | queue, cancellation, rate limiter |
| Administration, `stroj/api/routes_admin.py` | problems, contests, roles | rejudge, delete, replace tests, bulk submit, express create, limits, set_role | queue, test data |
| Test data, `stroj/testdata.py` | files and `testcases` rows | parse, resolve percentages, replace, delete | workers read it |
| Contests, `stroj/contest.py`, `scoring.py`, `rating.py` | contests, participants, `rating_history` | start, freeze, scoreboard, settle ratings | idle workers settle them |
| Accounts, `stroj/auth.py`, `api/deps.py`, `api/routes_auth.py` | users, sessions, e-mail tokens | register, log in, change and confirm the address, roles, contest lock-out | mail |
| Rate limiter, `stroj/ratelimit.py` | hits per key, in memory | check, hit, prune | submit, login |
| Mail, `stroj/mailer.py`, `scripts/send-outbox.sh` | spool directory | spool, drain, retry | accounts |
| Deployment, `scripts/auto-update.sh`, `deploy-hook.py`, `deploy/home/` | lock, state file, releases | webhook, poll, deploy, roll back | restarts the judge |
| Command line, `stroj/__main__.py` | - | rejudge (and `--now`: drain in a process of its own), verify, backup | database |
| Frontend, import and calibration, checkers, languages | see section 7 | | |

What is hard: threads of the web process interleave between SQLite
transactions; cancellations are in memory only and race with the claim and with
the end of a run; a rejudge ignores what a worker is doing; the container may
be stopped at any moment, and is, on every deployment; database calls fail and
are caught at several levels. `PROJECT.json` lists the hazards by source line
with the properties that cover them.

What makes each component correct: the queue judges every submission, once at
a time, and its results stand, agree with themselves and with the test data
asked for; a cancellation stops the run it was meant for and no other; ratings
settle only contests that are over and judged; an account's confirmed address
is one whose owner confirmed it, and an administrator remains; a mail is sent;
the newest commit goes live, and a rollback stays until the next commit.

## 2. What is modelled

### `JudgeQueue` - the queue, the workers, cancellation and the routes that use them

The submission's row is `verdict`, `score`, `earned` (earned_percent) and `rows`
(submission_tests: which tests are recorded as passed and as failed). `problem`
and `data` are the problem's row and the version of its test data. A worker has
`pc`, `job` (submission_id), `handle` (the Event it watches) and `run` (the
JudgeOutcome it builds). `registry` is `cancel._requests`; `signalled` are the
Events that are set. A thread that serves the abort route has `hpc` and
`target`. `up` says whether the web process runs.

| Code | Actions |
|---|---|
| `submit`, `bulk_submit`, `express_create`: INSERT | `Submit` |
| `rejudge`, `stroj rejudge` | `RejudgeOne`, `RejudgeProblem` |
| `replace_tests`, `upload_tests`; `delete_problem` | `FixTests`; `DeleteProblem` |
| `claim_next` | `Claim` |
| `judge_submission` | `Reset` or `Vanished`, `Load`, then `judge`, `Store`, `Release` |
| `judge` | `Refuse`, `Compiled`, `BeginTest`, `EndTest` (with `publish_test`), `Cancelled`, `Breaks` |
| `run`'s exception path | `Fault`, `Release`, `RecordCrash` |
| `abort_submission` | `AbortRead`, `AbortRequest`, `AbortSettle`, `AbortRelease`, `AbortFault` |
| the process stops; `start_pool` with `requeue_stuck` | `Crash`, `Restart` |

Each SQLite transaction and each critical section of `cancel._lock` is one step.
Three reads of a starting run (problem row, register, test data) are one step,
`Load`: what other threads do in between commutes with one of them (a problem
deleted between them gives IE either way; a request before or after register
sets the same Event).

Abstractions. All submissions belong to one problem. `WA` stands for every
verdict a failed test gives. A test is worth one point; what a set of passed
tests earns is the constant function `Percent` (for the runs, percentages with
a sample test that pays nothing). Times, memory, messages and source are left
out. Test data has a version only, and replacing it is one step. Ids of Events
are reused once nobody refers to them, lowest first: a thread cannot tell.

History variables are read by properties only: `struck` (rejudged while a worker
judged it), `disturbed` (rejudged while a worker, an abort or a registry entry
of an earlier enqueueing was left), `asked` (a cancellation was requested since
it was last enqueued), `want` and `basis` (data version at the last enqueueing,
and behind the stored result), `orphaned` (its worker's database failed while
storing and again while recording the failure). Most properties exempt `struck`
or `disturbed` submissions, because the code really breaks them there; section 6
has the runs that show it.

### `JudgeService` - what the queue promises

Phases of a submission (absent, queued, running, abandoned, done, gone) and what
each worker judges; oldest first, one worker at a time, back to the queue only
by a rejudge of something that is not running or by recovery after a stop.
`JudgeQueue` instantiates it with `ServicePhase` and `ServiceRunning` computed
from the table and the threads.

### `MCJudgeQueue`

Worker and handler sets, symmetry, the percentages and the Event ids for TLC.

### `Ratings` - how rated contests are settled

`contest` (the rows), `problems`, `ratedAt` (rated_at set), `sub` (submissions,
from the checks of `submit` to a verdict), `changes` (rating_changes: the places a
contest was rated with) and `numbers` (the contests the users' ratings are played
from, in order) are the database. A worker either judges or settles; an
administrator's thread patches, then settles; `seen`, `ready` (rows, as they were read),
`contests` and `edit` are their local variables. The order of a replay is counted: the place
of a row is how many rows do not come after it (`Place`).

| Code | Actions |
|---|---|
| `submit`: checks and created_at; INSERT | `Admit`; `Insert` |
| the worker's loop | `Claim`, `Store`, `Poll` |
| `awaiting_rating`, row by row | `Poll`, `Check` |
| `recompute_ratings`: `rated_contests()`; the transaction | `RatedContests`; `Replay` |
| `create_contest`, `set_contest_problems`, `delete_contest` | `CreateContest`, `SetProblems`, `DeleteContest` |
| `update_contest`: read, UPDATE, recompute | `PatchRead`, `PatchWrite`, then as above |
| the recompute route; `rejudge` | `AskRecompute`; `Rejudge` |
| a database call raises; the process restarts | `Fault`, `Restart` |

The judge is reduced to claim and store (section `JudgeQueue` has the rest).
A board is the places of those who submitted: whoever succeeded before whoever
did not, ties otherwise (penalties and scores are in `Access`).
Instead of Elo numbers, `numbers` is what they are computed from. Access codes are
left out: whether a member has entered is open to chance. Administrators'
submissions outside the window are accepted and do not count. Each contest has
one problem. One bound, `MaxTroubles`, is shared by rejudges, edits,
recomputations by hand, failing calls and restarts.

### `Sandbox` - one run of a program

`runner.judge` makes a submission's runs one after another (`Stages`: compile, warm
up, test); each is one call of `sandbox.run`. `pc` is where the worker is in it,
`proc` its child, `late` how long the run has taken so far, until the threads around it are
stopped (within the limit, over it, over the wall clock), `away` the runs of which a process
has left the child's group, `timer`, `watcher` and `mon` the threads around it, `flags` the Events
by which they say why they killed. `fd` is the process's table of descriptors; the kernel
hands out the lowest number that is free. `rlimit` and `wrapper` are what the system
offers: whether RLIMIT_AS holds the language, whether `measure.c` was built.

| Code | Actions |
|---|---|
| `judge`, `_warm_up`: look at the abort | `Cancelled` |
| `run`: pipes, fork and threads; `os.pipe` raises, `os.fork` raises | `Pipes`, `Fork`; `PipeRefused`, `ForkFails` |
| what `judge` and `_warm_up` make of a run | `Outcome`, `Conclude` |
| `run`: wait4, finally, `_killpg`, the report | `Reap`, `Stop`, `Sweep`, `Report` |
| the child; `measure.c`; a process that calls setsid | `Exec`, `Ends`; `Leaves`, `Departs` |
| `_watchdog`; `_abort_watch` | `TimerFires`, `TimerKills`; `WatcherSees`, `WatcherKills` |
| `_MemoryMonitor` | `MonReads`, `MonGets`, `MonSamples`, `MonKills` |
| `cancel.request` | `Ask` |

A program is one of nine kinds: right, wrong, crashing, a memory hog, flooding its output
beyond RLIMIT_FSIZE, writing more than `OUTPUT_READ_CAP` and less than that, spinning,
sleeping, missing. It may leave processes behind in its group. A flood may end by SIGXFSZ, by
an exit of 1 or by one of 0: Python ignores that signal and what it starts inherits this, so
the write fails with an error that the program may die of or disregard
(`tests/test_sandbox.py:94` takes both of the first two). A process may also leave the group; no kill reaches
it, and since `measure.c` keeps its descriptor open in the program, it holds the report's
write end for as long as it likes. Assumed: the kernel does not give out the child's number
again before the sweep, threads can be started, `watcher.join(1.0)` does not time out.

### `Access` - who is shown what

The state is what the pages are computed from: the clock, confirmed accounts, published
problems, the contests' problem sets, entries and submissions. Each page is an operator of
the state and a viewer; a viewer is nobody, a member, an administrator, or an administrator
under the view-as cookie.

| Code | Operators and actions |
|---|---|
| `session_user`, `current_user`, `is_admin` | `CurrentUser` |
| `locked_out`, `problem_visible_to`, `metadata_sealed` | `LockedOut`, `VisibleTo`, `MetadataSealed` |
| `may_read_submission`, `list_submissions`, `problem_ranking`, `submission_activity` | `MayRead`, `Lists`, `Ranks`, `Counts` |
| `scoring.py` | `Best`, `Earned`, `Worth`, `Weight`, `Score`, `Leaders` |
| `contest.scoreboard` | `FrozenFrom`, `Entries`, `Cell`, `IoiCell`, `IcpcCell`, `Key`, `Row`, `InOrder`, `Ranked` |
| scoreboard and contest routes; list and page of problems | `Board`, `BoardProblems`, `DetailProblems`; `ListedProblems`, `ProblemPage` |
| `submit`; `store_outcome`; `rejudge`; `enter_contest` | `Submit`; `Judge`; `Rejudge`; `Enter` |
| `confirm_email_token`; `update_problem`; `set_contest_problems` | `Confirm`; `Publish`; `SetProblems` |

A judge is one step here. Minutes are ticks of the clock. DECAY is a fraction n/d (19/20 in the
code, 1/2 in the run), and a score is a whole number of units, d^(1-p) points each for p
problems. Scores are counted and rows are sorted as in `Authoring` (module `Counting`: `Total`
counts points one by one, `Sorted` puts an element at the place that is the number of elements
not after it), so that the proofs need no induction. `Name` gives a name's place in the
alphabet, which breaks ties in the code's sorts only, never in a rank.
Filters, paging and the rows of submissions from before `earned_percent` are left out.

### `Accounts` - addresses, links, roles, sessions and limits

`users`, `links` (email_tokens) and `sessions` are the tables, `hits` the limiters, `flight` an
account's submissions that wait and are judged (those that `submit` let in, and the others:
queued in bulk, or graded once and sent back), `graded` those with a verdict. A request takes a thread, and `at` says
which query its handler is at and what it holds from the earlier ones.

| Code | Actions |
|---|---|
| `register`; `adduser`; `ensure_admin` | `Register`, `CreateSession`, `IssueLink`; `AddUser`; `Init` |
| `set_email`; `resend_verification` | `SetEmail`, `Counts`, `AskTaken`, `WriteAddress`, `IssueLink`; `Resend`, `Counts`, `IssueLink` |
| `verify` with `confirm_email_token` | `Verify`, `CheckLink`, `Confirm`, (`CreateSession`) |
| `stroj verify` | `Vouch`, (`AskTaken`, `WriteAddress`,) `VouchTaken`, `VouchWrites`, `Sweep` |
| `set_role` | `SetRole`, `CountAdmins`, `WriteRole` |
| `login`; `logout`; `stroj passwd` | `Login`, `CreateSession`; `Logout`; `Passwd`, `RevokeSessions` |
| `submit`'s limits; the judge | `Submit`, `CountInFlight`, `Insert`, `Counts`; `Claimed`, `Graded` |
| `bulk_submit`, `express_create`; `rejudge`, `stroj rejudge` | `BulkSubmit`, `QueueSource`; `Rejudge`, `RejudgeAll` |
| `RateLimiter._prune` | `Slides` |

Confirmed by hand counts as proven (`proven`). `crossed` records what the properties
exempt because the code breaks it there (section 6): accounts whose address was written while a
confirmation was past its check (`addresses`), demotions under way at
once (`demotions`), a password changed while a request had let the account in and not yet
created its session (`passwords`): a sign-in after its comparison, a registration after its
INSERT, a link after its confirmation. Links and sessions do not expire here, the limiter of sign-ins is
left out, and a session keeps its account's number, not its token. `ensure_admin` runs when a
server starts on an empty database, before any request: its administrator, who may be confirmed
without an address, is among the rows found at first. One problem stands for all: a rejudge of a
problem is one of everything. A restart, which forgets the limiters' hits, and the deletion of
problems only take from what is counted, and are left out here.

### `Authoring` - the test data of a problem

`slug` is the problem that has the slug, `tests` and `shares` are its rows in testcases and
problem_subtasks, `dir` the directory of the slug: what each pair of files holds. `at` is a
handler, `run` the judging in progress. An `async` handler keeps the event loop except
while it waits for its upload; the others run in threads.

| Code | Actions |
|---|---|
| `create_problem`; `delete_problem`, `delete_testdata` | `CreateProblem`; `Delete`, `DeleteProblem` or `DeleteFails`, `DeleteFiles` or `FilesStay` |
| `replace_tests`; `upload_tests` | `ReplaceTests`; `UploadTests`, `Resume` |
| `replace_testcases` | `ClearDirectory` or `ClearFails`, `WriteFiles` or `WriteFails`, `CommitTests` |
| `bulk_submit`, `_queue_sources` | `BulkSubmit`, `ResumeBulk`, `QueueSource` or `QueueFails`, `Queued` |
| `express_create` | `ExpressCreate`, the steps of `replace_testcases`, `Lookup`, those of `_queue_sources`; `Undo` or `UndoFails`, `DeleteFiles` or `FilesStay` |
| `judge_submission`, `judge` | `LoadTests`, `LoadShares`, `ReadInput`, `ReadAnswer` or `TestBreaks`; `Returns` (CE, AB), `Raises` (IE); `Store` |
| the process stops; `requeue_stuck` | `Stop` |

`parse_zip`, `_resolve_percentages` and `earned_percent` are operators (`Parses`,
`ParsedTests`, `Resolved`, `EarnedPercent`). A sum of percentages is the number of their points
(`Points`, `Total`), and the place of a file is how many files do not sort after it (`Place`):
counted, not added up or sorted, so that they can be proved about (module `Counting`). A set's name
(`SetName`) is what it comes from and how many of its first tests the upload made samples
(`routes_admin.py:466`); its files do not tell the second. Against the
answer of another test, or none, an output may be right or wrong. One test's pair of files is one
step, and so is the removal of a directory, which may also fail at any file (`Leftovers`): with an
exception (`ClearFails`) or, under `ignore_errors`, without (`FilesStay`).

Verdicts are AC, IE, CE, AB and "failed" for every other one. A cancelled run keeps the tests it
has finished, and one that an exception ended keeps none; `Earns` has the guard of
`worker.py:202`. Not here: where the abort comes from (`JudgeQueue`, `Sandbox`), an abort of a
submission that still waits, rejudges, names in archives, types, limits, the staging of
a package that is inspected first, and `update_problem`; an express package has
passed `parse_package`.

History: `origin` (the set the rows were written for), `torn` (two changes of the directory
overlapped, or one stopped half-way or left files; it ends with the next change that nothing
disturbed), `quiet` (no change of the set and no broken sandbox met this judging), and the problems
that were made from a package (`packaged`), whose request succeeded (`accepted`), or which a failing
DELETE or a stop of the process left (`stranded`).

## 3. The runs

| Run | Instance | Shows |
|---|---|---|
| `judge_safety` | 1 submission, 2 tests, partial, 2 workers, 2 aborts at a time, 1 rejudge, 1 new version of the data, 1 fault, 1 crash | the invariants and action properties below |
| `judge_service` | 2 submissions, 1 test, 2 workers, 1 abort at a time, 1 rejudge, 1 fault, 1 crash | `ImplementsService` |
| `judge_liveness` | 1 submission, 1 test, 2 workers, 1 abort at a time, 1 rejudge, 2 faults, 1 crash | `EventuallyJudged` |
| `ratings_settle` | 1 contest, 2 competitors (one an administrator), 2 workers, 1 administrator's thread, 1 trouble, 3 times | `SettledRight`, `ProfileAgrees`, `EventuallySettled`, `QuietAtLast` |
| `ratings_late` | 2 contests, 2 competitors, 2 workers, no trouble | section 6 |
| `sandbox_runs` | 1 worker, 3 runs one after another, 9 kinds of program, 5 descriptors, 1 refused pipe or fork | `HonestVerdict`, `NobodySurvives`, `DescriptorsReturned`, `EveryRunEnds` |
| `access` | 2 users (an administrator, a member not yet confirmed), 2 problems (1 hidden), 2 contests, 5 times, 2 submissions, 1 edit | `ListAgreesWithById`, `FreezeHolds`, `SealHolds`, `BoardAgreesWithProfile`, `RanksStandard`, `ScoreNeverFalls` |
| `accounts` | 3 users (the administrator without an address), 2 addresses, 2 threads, 3 requests, 4 links, archives of 1 or 2 sources | `OneOwnerPerAddress`, `OneLiveLink`, `AddressProven`, `AdminRemains`, `OldPasswordGone`, `AdmissionBounded` |
| `authoring` | 5 archives, 1 set sent as JSON, 3 packages, at most 1 extra sample, 2 kinds of solution, 2 threads, 3 requests, 1 fault, 2 problems, 1 submission | `InPlace`, `SharesCover`, `FairScore`, `PackageWhole` |
| `rejudge_lost`, `request_left`, `cancelled_earns` | 1 submission, 2 workers, 1 rejudge, no faults | section 6 |

Safety. `ExclusiveJudging`: no submission is judged by two workers.
`NoZombieRow`: JUDGING means some worker has it. `LivePage`: during a run the
page shows tests of this run only, with the right score. `CoherentResult`: a
stored verdict, its tests, score and percentage are of one run. `FreshVerdict`:
a grade comes from test data at least as new as the last enqueueing.
`NoPhantomCancel`: AB only if somebody asked since the last enqueueing.
`NoTestAfterCancel`: no test starts after a request. `ResultsStand`: a final
result is changed by nothing but a rejudge.

Ratings. `SettledRight`: a settled contest with nothing in flight was rated by its
final board, unless it is `excused`: rejudged, edited or inserted into after the
end, or rated while busy by a replay that had not found it ready as it is now (somebody
else's, or a worker's that looked before an edit); a later replay takes the excuse away. `ProfileAgrees`: ratings and rating_changes tell the same
contests, each once. `EventuallySettled`: what is over and judged is settled.
`QuietAtLast`: the workers do not replay for ever (a contest nobody entered is
marked as well).

Sandbox. `HonestVerdict`: whoever of three threads killed the program, the verdict says what
happened: the judge's own kill is never a runtime error, and AB is for who asked.
`NobodySurvives`: no process of the group outlives `run`. `DescriptorsReturned`: nothing stays
open but what a refused pipe or fork leaves. `EveryRunEnds`: every submission gets a verdict,
whatever its program does, unless a process that left the group with the report's write end
lives for ever. That exception is the code's: the read at `sandbox.py:709` waits for the last
writer, no kill finds it, and nothing bounds the wait; without the exception TLC shows the
worker that waits.

Pages. `ListAgreesWithById`: the three copies of the rule who may read a submission agree.
`FreezeHolds`: a frozen board is the board of the moment it froze, and no page shows others
what came later. `SealHolds`: a problem whose page does not open is on no other page, and
while the contest runs no page of a hidden problem but its ranking tells its points.
`BoardAgreesWithProfile`: the board pays no less than the profile for what both count, and more
only by an attempt that earned 0 percent, which the board pays by its tests (`contest._earned`).
`RanksStandard`: ranks are standard competition ranks. `ScoreNeverFalls`: the promise of
`scoring.py`, one more result never costs points.

Accounts. `OneOwnerPerAddress`: no address is confirmed twice; the index decides, not the question
before. `OneLiveLink`: only the link issued last confirms. `AddressProven`: a confirmed
address was proven. `AdminRemains`: an administrator is left. `OldPasswordGone`: no session
outlives the password it was opened with, but for one that a request creates after the change
which had let the account in before it. `AdmissionBounded`: threads that check at once pass
the limits by no more than their number. It bounds what `submit` lets in: `bulk_submit` is
"deliberately exempt" (`routes_admin.py:507`), and a rejudge of graded rows has no limit either;
both are counted against the next submission, which the mutant that counts less shows.

Test data. `InPlace`: rows and files are of one set, and a new problem inherits no files.
`SharesCover`: percentages make exactly 100 and miss no hidden test. `FairScore`: a run that is
cancelled or does not compile earns nothing, whatever had passed by then; one that came to its
end, and met no change of the set and no broken sandbox, is accepted exactly if it solves every
test and pays what the archive promised. The promise is read off the archive and is not computed
like the percentage: a sum over the subtasks solved, or a share of the tests that is right to half a
percent (`Nearest`), whatever `round()` does. `PackageWhole`: once nobody is at work on it, a
problem made from a package is there only if its request succeeded, and then it has tests and a
submission. The two ways out of that are named, because nothing in the code can repair them: the
DELETE of the `except` fails, or the process stops.

Bounds of the four. One worker makes the runs of `sandbox_runs`: a submission's
consecutive runs already share the table of descriptors with the monitors of the
runs before, which is where a late one reads another run's pipe. Five numbers are one more
than a run needs: a refused fork leaves two or four open, so that the numbers run out and a
pipe is refused for want of them as well as by the kernel's choice. In `access` a viewer of each
kind looks at two submissions, each accepted, worth 40 percent at 45 of the tests' points, or
worth 0 at 60 of them, which is what the tie, the freeze (one before, one after) and the best of two need; the clock passes
before, at the start, at the freeze and after the end of both contests. In `accounts` three
requests are a race of two and what led up to it; with two addresses an account has one and asks
for one that is free or taken; a limit of 1 in flight and of 1 or 2 in a window
is passed and met. In `authoring` the archives have an uneven split, declared
percentages with two tests in one subtask and a sample, no subtasks, and two faults that
`parse_zip` refuses; three requests create, change and disturb; a second id is a problem
created again under the slug. The set sent as JSON has three tests of which a source may solve two,
so that 66.67 percent are rounded; the packages are one that can succeed, one whose second source finds no
room (or a failing query), and one without a source. One fault strikes at every step in turn.

Bounds of `ratings_settle`. Two competitors are the smallest field that is rated,
two workers are needed for one to settle while the other judges, and the clock has
a time before, at and after the end (an edit can move the end to the last one).
One contest is enough for the passing properties, which are about one contest
each; what one contest's replay does to another is what `ratings_late` is for.

Bounds. `judge_safety` has one submission because every property but order is
about one submission and those who touch it: two workers (one too many for
one row), two concurrent aborts (the second finds what the first left), a
rejudge (the second enqueueing), two tests (an order, a first and a last),
one new data version. A crash and a fault each occur at every step. Order and
a worker's way from one submission to the next are `judge_service`'s (the double
failure, which needs two faults, is in `judge_liveness` and in the proof). There the stored result and the
history are left out of the state TLC compares (`ControlView`): no guard and
no part of the refinement reads them. The proofs (section 5) have no bounds.

Deadlock is not checked: when the bounds are used up and everything is judged
the model stops, as the judge does when nobody submits.

Every property has a mutant in `PROJECT.json`: a definition of the model
changed as a plausible bug would change the code (no `ORDER BY`, a row not
marked, a cached test set, an UPDATE without its `AND verdict = PENDING`, a
registry entry replaced, a start without `requeue_stuck`...), under which the
property fails.

## 4. Fairness

`FairSpec` assumes weak fairness of every worker's own steps and of `Restart`. A
worker is a thread that polls every second whether or not it is woken up
(`_wakeup.wait(poll_interval)`), and each test ends because the sandbox has a
wall clock; so an enabled step happens. The container has a restart policy.
Nothing is assumed of users, administrators or aborts, and a failing database
call (`Fault`) is never owed. `EventuallyJudged` exempts a submission that a
double fault left behind: it does wait for the next restart.

In `Ratings`, besides the workers, time passes, and requests that were admitted or
have written their UPDATE go on (weak fairness of `Insert` and of an
administrator's steps); nobody owes a submission, an edit or a rejudge.

In `Sandbox` the worker's steps, the child's `Exec`, the passing of time and the timer's and
the watcher's steps are fair: they are threads, a process and a clock. That the program ends
by itself, that the monitor ever runs or that a process outside the group ever ends is not
assumed, and `EveryRunEnds` holds without. The other
modules have no liveness properties: `Access` is about what pages show, and a request of
`Accounts` or `Authoring` that stops between two steps is one of the cases.

## 5. The proofs

**The queue.** For every number of workers, web threads, submissions and tests and for all
bounds, from the assumptions in `JudgeQueue` (the bounds are naturals, `Percent`
maps sets of tests to naturals and nothing to 0, Event ids are positive):

- `TypeCorrect` (`JudgeSafetyProofs`): `TypeOK`, which also says that a busy
  thread has a submission and that a test that starts is one of the problem's;
  without these two conjuncts it is not inductive.
- `Exclusive`: `ExclusiveJudging`. It is not inductive: a
  claim looks at the verdict, not at the other workers. `ClaimInv` adds what
  makes that enough: while a worker holds a submission that was not struck, its
  row says JUDGING (or is gone); jobs and rows have ids that were created, so a
  new row has no worker yet; when the process is down all threads are gone, so
  requeueing takes nothing from anybody.
- `ResultsKept`: `ResultsStand`. By `ClaimInv` a worker that still writes has a
  row that is not final.
- `NoRowLeft`: `NoZombieRow`, inductive with `TypeOK`.
- `Fresh`: `FreshVerdict`. `FreshInv` adds that a run that may still end in a
  grade was loaded from data at least as new as its submission asks for.
- `Implements`: `CarefulSpec => ImplementsService`, the
  queue without rejudges of running submissions does what `JudgeService`
  promises. The invariant is `TypeOK`, `ClaimInv` and "nothing is struck"; the
  mapping is `PhaseOf` (the phase from the row's verdict and the workers) and
  `RunningOf` (a worker's submission). A claim, a store, a rejudge, a deletion,
  a crash and a restart are steps of the service; everything else stutters.
- `PageIsLive` (`JudgeResultProofs`): `LivePage`. `RunInv` says that a run's verdict fits its
  tests at every point of `judge`; `PageInv` adds the row between the reset and the first test,
  which has to be empty for the sums to start right. With `ClaimInv` nobody else writes it.
- `ResultIsCoherent`: `CoherentResult`, inductive with `RunInv` and `ClaimInv`: a row becomes
  final by the one transaction that writes all of it.
- `OnlyAskedCancels`: `NoPhantomCancel`. An Event is set long before the row says AB, and in
  another table, so the invariant follows a request on its way: `EventInv` (no two submissions
  share an Event, and one that is set is in use), `PlaceInv` and `WonInv` (of a submission
  nobody rejudged too early one worker at most is busy, none once the abort route settled it) and
  `AskedInv` (what is on its way at the route, in the registry, at the worker or in the run about
  to be stored was asked for since the row was enqueued).
- `CancellationHeard`: `NoTestAfterCancel`, an action property. `HeardInv`: a request that was
  made is set in the registry until the run it is for is over, and the worker watches that same
  Event; `DownInv`: a stopped process has forgotten the requests that were not met.

**Accounts.** For every number of accounts, addresses and threads and for all limits and
bounds, from the assumptions in `Accounts` (the rows found at first are rows, one of them a
confirmed administrator's and no two confirmed with the same address, unless they have none; accounts and threads are
finite; limits are positive). All seven properties of the run are proved:

- `TypeCorrect` (`AccountsProofs`): `TypeOK`. What a handler holds between two of its queries
  differs from step to step, so `HandlersOK` types it by the step (`Simple`, `Mailing`, ...) and
  says that whom it is about is registered; `Numbered` says that links are numbered as they are
  issued, to registered accounts. `TypeInv` is the conjunction, and every other proof uses it.
- `OneOwner`: `OneOwnerPerAddress`, inductive with `TypeInv`. By
  `AddressWrites` a step writes the address or the confirmation of one account at most, which is
  then unconfirmed or has asked the index.
- `OnlyTheLastLinkLives`: `OneLiveLink`, inductive with `Numbered`.
- `ConfirmedAddressProven`: `AddressProven`. `AddressHeld` adds that a handler that is about to
  confirm holds the address the account has, or the account's change is on record.
- `SomebodyAdministers`: `AdminRemains`. `AdminInv` adds that, as long as no two demotions were
  under way at once, one thread at most is between its count and its write, and whoever is about
  to write has somebody else left as administrator.
- `OldSessionsRevoked`: `OldPasswordGone`. `PasswordHeld` adds that a handler that is about to
  create a session holds the password that counts, or the change is on record.
- `AdmissionHasBound`: `AdmissionBounded`. `AdmissionInv` bounds what is
  counted together with the threads that were let in and have not been counted yet: whoever is
  let in saw less than the limit, and no more threads than there are can be on their way. What is
  queued in bulk or sent back never adds to the submissions that were let in (`QueuedNoMore`).

**The sandbox.** For every number of workers, descriptors and refusals, every list of
stages and every choice of programs, from the assumptions in `Sandbox`. A worker's step leaves
the runs of the others alone, except for the table of descriptors; each invariant is proved of
the worker that acts (all in `SandboxProofs`):

- `SandboxTyped`: `TypeOK`. `ProcInv` adds the child's whole record and that a monitor
  that starts was given a number.
- `NothingOutlivesARun`: `NobodySurvives`. `PhaseInv` says what is left of a run at each place
  of its worker: nothing before the fork; a live child or a zombie while it waits; nothing that
  was left behind from the sweep on.
- `VerdictIsHonest`: `HonestVerdict`. `FlagInv`: each Event is set for the reason it names, and
  before the kill it explains; `VerdictInv`: what a dead child died of fits its program, its time
  or a flag. A verdict looks at the flags after the child is reaped, which is why the order of
  flag and kill matters.
- `DescriptorsComeBack`: `DescriptorsReturned`. `FdInv`: an open number belongs to a run
  that was refused its exec pipe or its fork, or is still needed by the current run of its worker, which differs by end: the write
  ends until the fork, the monitor's until it is stopped, the report's until it is read.

**Ratings.** For every number of contests, submissions, workers, administrators and times (all
in `RatingsProofs`):

- `RatingsTyped`: `TypeOK`. The replay hands out places among rows that were read earlier; that
  they are a sequence without gaps rests on the lemmas about `InOrder`, and on a list naming no
  contest twice.
- `ProfilesAgree`: `ProfileAgrees`, inductive with `FreshInv` (nobody has heard of a contest
  before it is created).
- `SettledByFinalBoard`: `SettledRight`. `ListInv` says that what the threads hold was rated and
  over when they read it; `ReadyInv`, that what a worker found ready stays judged while its
  row is what it was, or is excused; `BoardInv`, that what counts as settled is rated, over,
  judged and rated by its board. The proof showed that comparing ids was not enough: a worker can
  find a contest ready, an edit reopen it, a submission come in, another edit close it, and the
  worker's replay then rate it while it is busy. `Premature` therefore compares rows.

**Test data.** For every collection of archives, inline sets, packages and solutions, every number
of threads and all bounds (all in `AuthoringProofs`). Assumed (`Authoring`): an archive's
files are finitely many, keyed by directory and name, and its percentages are of the
subtasks it has; names of archives and of inline sets differ; a package names an archive.

- `AuthoringTyped`: `TypeOK`. It needs that `parse_zip`'s order places every file of every archive
  exactly once (`ArchiveTests`), for which finite strict orders are counted out once (`Orders`).
- `PercentagesCover`: `SharesCover`. The even split makes 100 for any number of subtasks
  (`EvenSplitWhole`), and whatever `_resolve_percentages` accepts makes 100 and misses no
  hidden test. The sum is a cardinality, so facts on finite sets take the place of induction.
- `FilesInPlace`: `InPlace`. `AloneInv`: a handler that met no other one is the only one at the
  test set, and the directory is as far as the handler is; `TornInv`: unless `torn`, every handler
  is such a one; `WholeInv`: unless `torn`, the directory is whole while nobody has begun to
  change it.
- `PackagesWhole`: `PackageWhole`. `ExpressOK` says what a package about to be accepted has already
  put there, so long as the problem is still its own, and that one that removes files has removed
  its problem; `HeldInv`, that a problem made from a package is accepted, stranded or still in the
  hands of its request. A request lets go of its problem by being accepted, by a DELETE that
  succeeded before, or by the two steps that strand it.
- `ScoresAreFair`: `FairScore`. `QuietInv` is the invariant of a judging that no change met: it
  works on the rows that are there, with the input of the test it is at, and has passed just those
  tests so far that the source solves, or none if an exception ended it. Then `EarnedPercent` is
  compared with the promise, subtask by subtask, or by the arithmetic of `round()` (`FairEarned`,
  `RoundNearest`).

**What is shown.** For every number of users, problems, contests, submissions and edits,
every terms of contests and every result (all in `AccessProofs`). Assumed (`Access`): finitely many
users and problems, whose names have different places in the alphabet; points and terms are
naturals, earned percentages are from 0 to 100, and DECAY is positive. The only
invariant that is needed is `TypeOK`: what is sent is a function of the state.

- `AccessTyped`: `TypeOK`.
- `RoutesAgree`: `ListAgreesWithById`, in every state whatever.
- `SealIsKept`: `SealHolds`, by the cases of a contest that is ahead, runs or is over (`SealKept`).
- `BoardAndProfileAgree`: `BoardAgreesWithProfile`. Each is the best of a set of results
  (`Most` of what the board pays, `Top` of the percentages), and a result that reaches one best is
  compared with the other.
- `ScoresNeverFall`: `ScoreNeverFalls`. One result moves every rank after its own, so the scores
  are compared rank by rank: with more problems, each worth no less, the k-th best is worth no
  less (`KthMonotone`, by counting what is above it), and rounding keeps the order.
- `RanksAreStandard`: `RanksStandard`. The rows of a board, and those of the leaderboard, are
  strictly ordered (`RowsOrdered`); what comes no later than the first row with a key is that
  row and the better ones, and there are as many as its place says (`RankIs`).
- `FreezeIsKept`: `FreezeHolds`. A cell depends on the attempts that count and on nothing else
  (`ResultSame`, `CellSame`), and those are the ones from before (`EarlierJudgings`). Whoever
  came on the board since is behind all the others or level with them: a row whose first key is 0
  has a second of 0 too (`KeyZero`), which is where an empty row could have passed one with a
  penalty.

`CountingProofs` has the facts on counted sums and orders that this and `Authoring` use
(`SortedWhole`, `SortedInOrder`, `PointsFinite`, `MaxOf`...).

Only model-checked: `EventuallyJudged`, `EveryRunEnds`, `EventuallySettled` and `QuietAtLast`,
because liveness under fairness is out of the prover's reach.

Every inductive invariant above was checked by TLC on the run's instance before it was proved.

## 6. Findings

Four comments say more than the code does; each has a run with a
counterexample.

- `rejudge_lost`: "Send submissions back through the judge, e.g. after fixing
  test data" (`routes_admin.py:1186`). A rejudge of a submission that is being
  judged is overwritten by the running worker's verdict from the old data.
- `request_left`: "either the UPDATE wins and no worker ever starts it, or the
  worker started and picks up the request" (`routes_submissions.py:313`). When
  the run ends first, the Event stays and the next rejudge is cancelled at once.
- `cancelled_earns`: a cancelled run earns nothing (`worker.py:200`). One that is
  cancelled while it waits for a rejudge keeps the percentage of its first run.
- `ratings_late`: replaying "removes the failure modes [...] a contest rated before a
  late submission finished judging" (`contest.py:363`). A contest is marked as
  settled while one of its submissions is being judged (inserted after the look at
  the queue, or rated along with another contest), and nobody looks again.

Seen while modelling, without a run of their own. The first seven contradict a comment;
TLC shows them when the property named is stated without its exception, or of the page left out.

- `auth.py:210`: "The address may have been changed since the link was sent, in which case this link
  confirms nothing." The check and the UPDATE are apart, and the UPDATE confirms the account,
  whatever its address is by then (`AddressProven` without `crossed.addresses`).
- `routes_admin.py:1220`: "Demoting the last admin is unrecoverable" and is refused, but two demotions
  at once each find the other's administrator (`AdminRemains` without `crossed.demotions`).
- `deps.py:176`: a viewer who "must not be told the problem's points" is told them by the problem's
  ranking (`routes_submissions.py:286`), which is why `SealHolds` leaves it out.
- `contest.py:46`: what "hands out what the frozen scoreboard is withholding" is also the leaderboard
  and the profile, for published problems (`scoring.py:110`), which is why `FreezeHolds` leaves
  them out.
- `testdata.py:183`: "make them the problem's complete test set." Two requests at once leave the rows of
  one and files of the other, or rows without files (`InPlace` without `torn`).
- `contest.py:178`: the share of the tests' points is "only used for submissions judged before
  `earned_percent` existed", and line 188 "must agree with the leaderboard". `_earned` (195) takes
  it for every row with 0 percent: a run that completes no subtask is paid by its tests on an IOI board
  and nothing on the profile, which is the case that `BoardAgreesWithProfile` leaves.
- `routes_admin.py:651`: "every failure has to take it back out again rather than leave a testless
  half-problem in the list." When the DELETE of the `except` fails in its turn, or the process stops in
  between, the half-problem stays, and nothing looks for it at the next start
  (`PackageWhole` without `stranded`).
- The list and the calendar show an administrator's submission to a contest that has not
  started; `scoreboard`'s comment (`contest.py:336`) supposes there are none.
- The ranking of a hidden problem shows, while a contest has it open, practice submissions that
  the page by number refuses; the list leaves out one's own practice on a hidden problem, which
  the page by number shows.
- A submission that is sent back by a rejudge keeps its percentage until it is judged again
  (`routes_admin.py:1189`): the profile and the leaderboard count it, the board marks it as
  pending (`BoardAgreesWithProfile` says "judged").
- Without partial scores a run stops at its first failure (`runner.py:511`), so a subtask that
  comes later earns nothing although the program solves it. With partial scores and no
  subtasks `round()` gives 100 from 99.5 percent on, without AC.
- `set_role` counts administrators who are not confirmed, and whom `require_admin` refuses.
- A `set_email` or a resend that was admitted before its account was confirmed goes on after: the
  first takes the confirmation away again, the second replaces a newer link by one to the old
  address.
- When `os.fork` raises, the pipes stay open (`sandbox.py:588`), and when the second `os.pipe` raises,
  the first pipe (`sandbox.py:586`). A monitor that starts late reads a
  number that belongs to another run by then (`sandbox.py:442`); on one worker this only delays
  that monitor.
- A program that starts a process outside its group (setsid) keeps the report open and its worker
  waiting at `sandbox.py:709` for as long as that process lives; `tests/test_sandbox.py` tries
  processes that stay in the group ("cannot outlive its own timeout by forking").
- A deletion's `delete_testdata`, and the one of a package that is taken back, go by the slug and
  remove the files of a problem created under it meanwhile. What it cannot remove stays
  (`ignore_errors`), and a problem created under the slug later inherits it until its first tests.

## 7. Not modelled

- Deployment and mail (`deploy/`, `scripts/`, `mailer.py`): shell and PowerShell around git,
  containers and a spool. The judge keeps nothing of them; what it sees is `Crash` and `Restart`.
  Their hazards are listed in `PROJECT.json` without a property.
- `stroj rejudge --now`: a second process with a queue of its own would double the threads of
  `JudgeQueue`.
- The sign-in's limiter, expiry of links and sessions, access codes as text (entering is
  modelled), Elo numbers (what they are computed from is), limits by language, types,
  posts, biographies, the pages of sample data.
- The parsing of packages (`express.py`), one-off scripts (`calibrate.py`, `seed.py`), the
  checkers' comparison of outputs, the table of languages, the frontend (`stroj/web`): data and
  rendering, with no state that several actors share.
- The isolation of programs (namespaces, profiles, dropped privileges): set up once per run, and
  seen from outside only by what the program can do.
- Migrations, connections and busy timeouts of the database; `cancel.reset` and
  `RateLimiter.clear`, which only tests call.

## 8. Plan

Every safety invariant that a run checks, `ResultsStand` and the refinement are theorems. What a
run checks and no theorem states is liveness. Left: a model of `stroj rejudge --now`, whose second
process has a registry and threads of its own.
