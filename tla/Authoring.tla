---------------------------- MODULE Authoring ----------------------------
(***************************************************************************)
(* The test data of a problem: how an archive becomes a test set, how the  *)
(* set is put in place of the old one, how a problem is created from one   *)
(* package and deleted again, and what a judging makes of the set that it  *)
(* finds.  A test set is in two places: its rows are in the database,      *)
(* changed by transactions, and its files are in a directory that is named *)
(* by the problem's slug and is changed one file after another.  The       *)
(* handlers of the administrator run in a pool of threads, the `async'     *)
(* ones on the event loop, and the judge reads rows and files meanwhile.   *)
(* A step is one query, one transaction or one test's pair of files.       *)
(***************************************************************************)
EXTENDS Integers, Sequences, FiniteSets, FiniteSetsExt, Counting

CONSTANTS Archive,      \* test archive -> its files, and the shares that it declares
          Inline,       \* test set sent as JSON -> its tests, in the order sent
          Package,      \* express packages: an archive, and solutions
          Solution,     \* the sets of cases that a source may solve
          Thread,       \* threads that serve requests
          MaxBulk,      \* MAX_BULK_FILES
          MaxSamples,   \* bound: `samples' of an upload
          MaxIds,       \* bound: problems created
          MaxSubs,      \* bound: submissions
          MaxRequests,  \* bound: requests
          MaxFaults     \* bound: failures, of a query, a file operation, a run or the process

NoShare == 0 - 1   \* a subtask directory that names no percentage
NoId == 0
NoDir == <<>>
NoSet == <<"none", 0>>
Missing == [set |-> "none", case |-> 0]

\* A file of an archive: the case, whether its name says `sample', its subtask directory
\* (0 for none), and whether the answer is there.  parse_zip keys files by directory and name.
File == [case : Nat, sample : BOOLEAN, subtask : Nat, answer : BOOLEAN]
ASSUME ArchiveAssumption ==
    \A a \in DOMAIN Archive :
        /\ Archive[a].files \subseteq File /\ IsFiniteSet(Archive[a].files)
        /\ \A f, g \in Archive[a].files : f.subtask = g.subtask /\ f.case = g.case => f = g
        /\ Archive[a].percent \in
               [{f.subtask : f \in Archive[a].files} \ {0} -> Nat \cup {NoShare}]
ASSUME InlineAssumption ==
    \A k \in DOMAIN Inline : Inline[k] \in Seq([case : Nat, sample : BOOLEAN, subtask : Nat])
ASSUME NamesAssumption == DOMAIN Archive \cap DOMAIN Inline = {} /\ "none" \notin DOMAIN Archive \cup DOMAIN Inline
ASSUME PackageAssumption ==
    \A p \in Package : p.set \in DOMAIN Archive /\ p.sources \in Seq(SUBSET Nat)
ASSUME SolutionAssumption == \A solves \in Solution : solves \subseteq Nat
ASSUME BoundsAssumption == {MaxBulk, MaxSamples, MaxIds, MaxSubs, MaxRequests, MaxFaults} \subseteq Nat

VARIABLES slug,      \* the id of the problem that has the slug, or NoId
          lastId,    \* AUTOINCREMENT of problems
          partial,   \* problems.partial
          tests,     \* testcases of the problem, by idx
          shares,    \* problem_subtasks: subtask -> percent
          dir,       \* the directory of the slug: idx -> what the pair of files holds
          subs,      \* submissions, by id
          at,        \* thread -> the step of its handler, and what it holds
          run,       \* the judging in progress
          requests, faults,
          origin,    \* history: the set that the rows were written for
          torn,      \* history: the last changes of the directory overlapped or stopped half-way
          packaged,  \* history: problems made from a package
          accepted,  \* history: those whose request was answered with success
          stranded   \* history: those that a stop of the process left, or a failing DELETE

database == <<slug, lastId, partial, tests, shares, subs, origin>>
bounds == <<requests, faults>>
outcomes == <<packaged, accepted, stranded>>
vars == <<database, dir, at, run, bounds, torn, outcomes>>

----------------------------------------------------------------------------
(* From an archive to a test set. *)

\* Mutant: the remainder of the division is on no subtask.
EvenSplitNoRemainder(G) == [g \in G |-> 100 \div Cardinality(G)]

\* The percentages of subtasks that name none: even, with the remainder on the last one.
EvenSplit(G) ==
    LET share == 100 \div Cardinality(G)
    IN  [g \in G |-> IF g = Max(G) THEN share + (100 - share * Cardinality(G)) ELSE share]

\* _resolve_percentages: all of them or none; and all of them make 100.
Resolvable(percent) ==
    \/ \A g \in DOMAIN percent : percent[g] = NoShare
    \/ (\A g \in DOMAIN percent : percent[g] # NoShare) /\ Total(percent) = 100
Resolved(percent) ==
    IF \E g \in DOMAIN percent : percent[g] = NoShare THEN EvenSplit(DOMAIN percent) ELSE percent

\* parse_zip: what it refuses, and the order it puts the tests in.
Parses(a) ==
    LET F == Archive[a].files IN
    /\ F # {}
    /\ \A f \in F : f.answer
    /\ DOMAIN Archive[a].percent # {} => \A f \in F : f.subtask # 0 \/ f.sample
    /\ Resolvable(Archive[a].percent)

\* Samples first, then subtask by subtask, then by name.
Sooner(f, g) ==
    \/ f.sample /\ ~g.sample
    \/ f.sample = g.sample /\ f.subtask < g.subtask
    \/ f.sample = g.sample /\ f.subtask = g.subtask /\ f.case < g.case
Place(F, f) == Cardinality({g \in F : ~Sooner(f, g)})
ParsedTests(a) ==
    LET F == Archive[a].files
    IN  [i \in 1..Cardinality(F) |-> CHOOSE f \in F : Place(F, f) = i]

\* A set's name: what it comes from, and how many of its first tests the upload made samples.
SetName == ((DOMAIN Archive) \X (0..MaxSamples)) \cup ((DOMAIN Inline) \X {0})
TestsOf == [k \in SetName |->
    LET T == IF k[1] \in DOMAIN Archive THEN ParsedTests(k[1]) ELSE Inline[k[1]]
    IN  [i \in DOMAIN T |-> [case |-> T[i].case, sample |-> T[i].sample \/ i <= k[2],
                             subtask |-> T[i].subtask]]]
SharesOf == [k \in SetName |->
    IF k[1] \in DOMAIN Archive /\ Parses(k[1]) THEN Resolved(Archive[k[1]].percent) ELSE <<>>]

----------------------------------------------------------------------------
(* What a run earns. *)

Half(a, b) == 2 * (a % b) > b \/ (2 * (a % b) = b /\ (a \div b) % 2 = 1)
Round(a, b) == a \div b + IF Half(a, b) THEN 1 ELSE 0

Hidden(T) == {i \in DOMAIN T : ~T[i].sample}
ScoredOf(T) == IF Hidden(T) # {} THEN Hidden(T) ELSE DOMAIN T
Group(T, g) == {i \in DOMAIN T : T[i].subtask = g}

Pays(T, g, passed) == Group(T, g) # {} /\ Group(T, g) \subseteq passed
PaidOf(T, S, passed) == [g \in {h \in DOMAIN S : Pays(T, h, passed)} |-> S[g]]

\* earned_percent, of the tests that passed.
EarnedPercent(T, S, some, passed) ==
    IF T = <<>> THEN 0
    ELSE IF S # <<>>
    THEN IF Total(PaidOf(T, S, passed)) > 100 THEN 100 ELSE Total(PaidOf(T, S, passed))
    ELSE IF some
    THEN Round(100 * Cardinality(ScoredOf(T) \cap passed), Cardinality(ScoredOf(T)))
    ELSE IF ScoredOf(T) \subseteq passed THEN 100 ELSE 0

----------------------------------------------------------------------------
Idx == UNION {DOMAIN TestsOf[k] : k \in SetName}
NoFiles == [i \in Idx |-> Missing]
NoSub == [problem |-> NoId, state |-> "none", solves |-> {}, earned |-> 0, of |-> NoSet,
          some |-> FALSE]
NoRun == [step |-> "idle", sub |-> 0, tests |-> <<>>, shares |-> <<>>, solves |-> {},
          some |-> FALSE, next |-> 1, input |-> Missing, passed |-> {}, exit |-> "none",
          quiet |-> FALSE, of |-> NoSet]
\* What a handler holds: its problem, the set, the next test to write, the sources that are
\* left and how many were queued, the problem that it made, and whether it met no other one.
Idle == [op |-> "none", step |-> "idle", problem |-> NoId, set |-> NoSet, next |-> 1,
         left |-> <<>>, queued |-> 0, made |-> NoId, alone |-> FALSE]
Handler(op, step, id, k, sources, made) ==
    [op |-> op, step |-> step, problem |-> id, set |-> k, next |-> 1,
     left |-> sources, queued |-> 0, made |-> made, alone |-> FALSE]

Init ==
    /\ slug = NoId /\ lastId = 0 /\ partial = FALSE
    /\ tests = <<>> /\ shares = <<>> /\ dir = NoDir
    /\ subs = <<>>
    /\ at = [t \in Thread |-> Idle] /\ run = NoRun
    /\ requests = 0 /\ faults = 0
    /\ origin = NoSet /\ torn = FALSE /\ packaged = {} /\ accepted = {} /\ stranded = {}

At(t, step) == at[t].step = step
Goes(t, step) == at' = [at EXCEPT ![t].step = step]
Ends(t) == at' = [at EXCEPT ![t] = Idle]

\* Handlers that change the test set; of them, those in progress.
Writing(t) == at[t].step # "idle" /\ at[t].op # "bulk"
Writers == {t \in Thread : Writing(t)}

\* A coroutine holds the event loop except while it waits for its upload.
OnLoop(t) == at[t].step \notin {"idle", "await"} /\ at[t].op \in {"express", "upload", "bulk"}
LoopFree == \A t \in Thread : ~OnLoop(t)

Takes(t) ==
    /\ At(t, "idle") /\ requests < MaxRequests
    /\ requests' = requests + 1

\* History: a handler that meets another one at the test set, and a judging that meets one.
Begins(t, handler) ==
    /\ at' = [u \in Thread |->
                 IF u = t THEN [handler EXCEPT !.alone = (Writers = {})]
                 ELSE IF Writing(u) THEN [at[u] EXCEPT !.alone = FALSE] ELSE at[u]]
    /\ torn' = (torn \/ Writers # {})
    /\ run' = IF run.step = "idle" THEN run ELSE [run EXCEPT !.quiet = FALSE]

\* A change of the directory came to its end: undisturbed, it left the directory whole.
Heals(t) == torn' = (torn /\ ~at[t].alone)

\* Mutant: foreign keys are not enforced, and the submissions stay.
DeleteRowAlone(id) ==
    /\ IF slug = id
       THEN slug' = NoId /\ tests' = <<>> /\ shares' = <<>> /\ origin' = NoSet
       ELSE UNCHANGED <<slug, tests, shares, origin>>
    /\ UNCHANGED <<lastId, partial, subs>>

(* The problem's row goes, and by ON DELETE CASCADE its tests, subtasks and submissions. *)
DeleteRow(id) ==
    /\ subs' = [s \in DOMAIN subs |-> IF subs[s].problem = id THEN NoSub ELSE subs[s]]
    /\ IF slug = id
       THEN slug' = NoId /\ tests' = <<>> /\ shares' = <<>> /\ origin' = NoSet
       ELSE UNCHANGED <<slug, tests, shares, origin>>
    /\ UNCHANGED <<lastId, partial>>

InsertRow(p) ==
    /\ slug = NoId /\ lastId < MaxIds
    /\ lastId' = lastId + 1 /\ slug' = lastId + 1 /\ partial' = p
    /\ UNCHANGED <<tests, shares, subs, origin>>

----------------------------------------------------------------------------
(* Requests. *)

\* create_problem.
CreateProblem(t, p) ==
    /\ Takes(t) /\ InsertRow(p)
    /\ UNCHANGED <<dir, at, run, faults, torn, outcomes>>

\* delete_problem, _problem_or_404.
Delete(t) ==
    /\ Takes(t) /\ slug # NoId
    /\ Begins(t, Handler("delete", "row", slug, NoSet, <<>>, NoId))
    /\ UNCHANGED <<database, dir, faults, outcomes>>

\* replace_tests: the tests come with the request.
ReplaceTests(t, j) ==
    /\ Takes(t) /\ slug # NoId /\ Inline[j] # <<>>
    /\ Begins(t, Handler("replace", "clear", slug, <<j, 0>>, <<>>, NoId))
    /\ UNCHANGED <<database, dir, faults, outcomes>>

\* upload_tests finds its problem, and waits for the archive.
UploadTests(t) ==
    /\ Takes(t) /\ LoopFree /\ slug # NoId
    /\ Begins(t, Handler("upload", "await", slug, NoSet, <<>>, NoId))
    /\ UNCHANGED <<database, dir, faults, outcomes>>

\* bulk_submit likewise.
BulkSubmit(t) ==
    /\ Takes(t) /\ LoopFree /\ slug # NoId
    /\ at' = [at EXCEPT ![t] = Handler("bulk", "await", slug, NoSet, <<>>, NoId)]
    /\ UNCHANGED <<database, dir, run, faults, torn, outcomes>>

\* The upload is complete, and the coroutine goes on: with the sources of a bulk upload, ...
ResumeBulk(t, sources) ==
    /\ At(t, "await") /\ at[t].op = "bulk" /\ LoopFree
    /\ at' = [at EXCEPT ![t].step = "queue", ![t].left = sources]
    /\ UNCHANGED <<database, dir, run, bounds, torn, outcomes>>

\* ... or with a test archive, whose first n tests become samples; one that does not parse
\* ends the request.
Resume(t, a, n) ==
    /\ At(t, "await") /\ at[t].op = "upload" /\ LoopFree
    /\ IF Parses(a) THEN at' = [at EXCEPT ![t].step = "clear", ![t].set = <<a, n>>] ELSE Ends(t)
    /\ UNCHANGED <<database, dir, run, bounds, torn, outcomes>>

\* express_create: the package is checked as a whole before the INSERT.
ExpressCreate(t, p, some) ==
    /\ Takes(t) /\ LoopFree /\ Parses(p.set)
    /\ InsertRow(some)
    /\ Begins(t, Handler("express", "clear", lastId + 1, <<p.set, 0>>, p.sources, lastId + 1))
    /\ packaged' = packaged \cup {lastId + 1}
    /\ UNCHANGED <<dir, faults, accepted, stranded>>

----------------------------------------------------------------------------
(* replace_testcases, one pair of files at a time. *)

Trouble == faults < MaxFaults /\ faults' = faults + 1

\* Mutant: an exception ends express_create as it ends the other requests.
FailsAlike(t, leaves) == Ends(t) /\ torn' = (torn \/ leaves)

\* The except of express_create takes the problem back; other requests just fail.
Fails(t, leaves) ==
    IF at[t].op = "express" THEN Goes(t, "undo") /\ UNCHANGED torn
    ELSE Ends(t) /\ torn' = (torn \/ leaves)

\* Mutant: the new files are written over the old ones.
KeepsOld == IF dir = NoDir THEN NoFiles ELSE dir

\* The old directory is removed and a new one made.
Cleared == NoFiles

ClearDirectory(t) ==
    /\ At(t, "clear")
    /\ dir' = Cleared
    /\ Goes(t, "write")
    /\ UNCHANGED <<database, run, bounds, torn, outcomes>>

\* What a removal of the directory that stops half-way may leave.
Leftovers ==
    IF dir = NoDir THEN {NoDir}
    ELSE {NoDir} \cup {[i \in Idx |-> IF i \in kept THEN dir[i] ELSE Missing] : kept \in SUBSET Idx}

\* rmtree or mkdir raises, or, before them, the query that sets a package's types.
ClearFails(t) ==
    /\ At(t, "clear") /\ Trouble
    /\ dir' \in Leftovers
    /\ Fails(t, TRUE)
    /\ UNCHANGED <<database, run, requests, outcomes>>

Contents(k, i) == [set |-> k[1], case |-> TestsOf[k][i].case]

\* write_text of the input and of the answer; the directory may be gone meanwhile.
WriteFiles(t) ==
    /\ At(t, "write") /\ at[t].next <= Len(TestsOf[at[t].set])
    /\ IF dir = NoDir
       THEN Fails(t, TRUE) /\ UNCHANGED dir
       ELSE /\ dir' = [dir EXCEPT ![at[t].next] = Contents(at[t].set, at[t].next)]
            /\ at' = [at EXCEPT ![t].next = @ + 1]
            /\ UNCHANGED torn
    /\ UNCHANGED <<database, run, bounds, outcomes>>

\* The disk is full, a file cannot be written, or the transaction fails.
WriteFails(t) ==
    /\ At(t, "write") /\ Trouble
    /\ Fails(t, TRUE)
    /\ UNCHANGED <<database, dir, run, requests, outcomes>>

\* The transaction: old rows out, new rows in.  An INSERT for a problem that is gone breaks
\* the foreign key.
CommitTests(t) ==
    /\ At(t, "write") /\ at[t].next > Len(TestsOf[at[t].set])
    /\ IF slug # at[t].problem
       THEN Fails(t, TRUE) /\ UNCHANGED <<tests, shares, origin>>
       ELSE /\ tests' = TestsOf[at[t].set]
            /\ shares' = SharesOf[at[t].set]
            /\ origin' = at[t].set
            /\ IF at[t].op = "express" THEN Goes(t, "lookup") /\ UNCHANGED torn
               ELSE Ends(t) /\ Heals(t)
    /\ UNCHANGED <<slug, lastId, partial, subs, dir, run, bounds, outcomes>>

----------------------------------------------------------------------------
(* _queue_sources, and how express_create ends. *)

\* _problem_or_404 once more, by the slug.
Lookup(t) ==
    /\ At(t, "lookup")
    /\ IF slug = NoId THEN Fails(t, FALSE)
       ELSE at' = [at EXCEPT ![t].step = "queue", ![t].problem = slug] /\ UNCHANGED torn
    /\ UNCHANGED <<database, dir, run, bounds, outcomes>>

More(t) == at[t].left # <<>> /\ at[t].queued < MaxBulk

\* One INSERT for each source.
QueueSource(t) ==
    /\ At(t, "queue") /\ More(t)
    /\ IF slug # at[t].problem
       THEN Fails(t, FALSE) /\ UNCHANGED subs
       ELSE /\ Len(subs) < MaxSubs
            /\ subs' = Append(subs, [problem |-> slug, state |-> "PENDING",
                                     solves |-> Head(at[t].left), earned |-> 0, of |-> NoSet,
                                     some |-> partial])
            /\ at' = [at EXCEPT ![t].left = Tail(@), ![t].queued = @ + 1]
            /\ UNCHANGED torn
    /\ UNCHANGED <<slug, lastId, partial, tests, shares, origin, dir, run, bounds, outcomes>>

\* Either query fails.
QueueFails(t) ==
    /\ At(t, "lookup") \/ (At(t, "queue") /\ More(t))
    /\ Trouble
    /\ Fails(t, FALSE)
    /\ UNCHANGED <<database, dir, run, requests, outcomes>>

\* A package none of whose sources was queued is refused.
Worthless(t) == at[t].op = "express" /\ at[t].queued = 0

Queued(t) ==
    /\ At(t, "queue") /\ ~More(t)
    /\ IF Worthless(t)
       THEN Goes(t, "undo") /\ UNCHANGED <<torn, accepted>>
       ELSE /\ Ends(t)
            /\ IF at[t].op = "express"
               THEN Heals(t) /\ accepted' = accepted \cup {at[t].made}
               ELSE UNCHANGED <<torn, accepted>>
    /\ UNCHANGED <<database, dir, run, bounds, packaged, stranded>>

\* The package is taken back: the row, and then the files.
Undo(t) ==
    /\ At(t, "undo")
    /\ DeleteRow(at[t].made)
    /\ Goes(t, "files")
    /\ UNCHANGED <<dir, run, bounds, torn, outcomes>>

\* The DELETE raises in its turn: the problem and the files stay as they are.
UndoFails(t) ==
    /\ At(t, "undo") /\ Trouble
    /\ Ends(t) /\ torn' = TRUE
    /\ stranded' = stranded \cup {at[t].made}
    /\ UNCHANGED <<database, dir, run, requests, packaged, accepted>>

\* delete_problem: the row, and then the files.
DeleteProblem(t) ==
    /\ At(t, "row")
    /\ DeleteRow(at[t].problem)
    /\ Goes(t, "files")
    /\ UNCHANGED <<dir, run, bounds, torn, outcomes>>

DeleteFails(t) ==
    /\ At(t, "row") /\ Trouble
    /\ Ends(t)
    /\ UNCHANGED <<database, dir, run, requests, torn, outcomes>>

\* delete_testdata: the directory of the slug, whoever has it.
DeleteFiles(t) ==
    /\ At(t, "files")
    /\ dir' = NoDir
    /\ Ends(t) /\ Heals(t)
    /\ UNCHANGED <<database, run, bounds, outcomes>>

\* What cannot be removed stays, and nobody is told (ignore_errors).
FilesStay(t) ==
    /\ At(t, "files") /\ Trouble
    /\ dir' \in Leftovers
    /\ Ends(t) /\ torn' = TRUE
    /\ UNCHANGED <<database, run, requests, outcomes>>

\* The process stops, and starts again: a package in progress stays half done, and what was
\* being judged is queued again (requeue_stuck).
Stop ==
    /\ Trouble
    /\ at' = [t \in Thread |-> Idle] /\ run' = NoRun
    /\ subs' = [s \in DOMAIN subs |->
                   IF subs[s].state = "JUDGING"
                   THEN [subs[s] EXCEPT !.state = "PENDING", !.earned = 0] ELSE subs[s]]
    /\ torn' = (torn \/ Writers # {})
    /\ stranded' = stranded \cup ({at[t].made : t \in Thread} \ {NoId})
    /\ UNCHANGED <<slug, lastId, partial, tests, shares, origin, dir, requests, packaged, accepted>>

----------------------------------------------------------------------------
(* The judging of a submission: judge_submission, and judge in the runner. *)

Live(s) == s \in DOMAIN subs /\ subs[s].problem # NoId
Passes(x) == x.passed = DOMAIN x.tests

\* The tests are read by one query ...
LoadTests(s) ==
    /\ run.step = "idle"
    /\ Live(s) /\ subs[s].state = "PENDING"
    /\ subs' = [subs EXCEPT ![s].state = "JUDGING"]
    /\ run' = [step |-> IF tests = <<>> THEN "store" ELSE "shares", sub |-> s,
               tests |-> tests, shares |-> <<>>, solves |-> subs[s].solves,
               some |-> partial, next |-> 1, input |-> Missing, passed |-> {},
               exit |-> IF tests = <<>> THEN "IE" ELSE "none", quiet |-> ~torn /\ Writers = {}, of |-> origin]
    /\ UNCHANGED <<slug, lastId, partial, tests, shares, origin, dir, at, bounds, torn, outcomes>>

\* ... and the subtasks by another.
LoadShares ==
    /\ run.step = "shares"
    /\ run' = [run EXCEPT !.step = "input", !.shares =
                  IF Live(run.sub) THEN shares ELSE <<>>]
    /\ UNCHANGED <<database, dir, at, bounds, torn, outcomes>>

FileAt(i) == IF dir = NoDir THEN Missing ELSE dir[i]

\* The program gets the input file of the test ...
ReadInput ==
    /\ run.step = "input"
    /\ run' = [run EXCEPT !.step = "answer", !.input = FileAt(run.next)]
    /\ UNCHANGED <<database, dir, at, bounds, torn, outcomes>>

\* Without its input the program does not start; against another test's answer, or
\* none, its output may be right or wrong.
MayPass ==
    IF run.input = Missing THEN {FALSE}
    ELSE IF FileAt(run.next) = run.input THEN {run.input.case \in run.solves}
    ELSE BOOLEAN

Stops(ok) == run.next = Len(run.tests) \/ (~ok /\ ~run.some)

\* ... and when it has ended its output is compared with the answer file.
ReadAnswer(ok) ==
    /\ run.step = "answer"
    /\ ok \in MayPass
    /\ run' = [run EXCEPT !.passed = IF ok THEN @ \cup {run.next} ELSE @,
                          !.step = IF Stops(ok) THEN "store" ELSE "input",
                          !.next = @ + 1, !.input = Missing]
    /\ UNCHANGED <<database, dir, at, bounds, torn, outcomes>>

\* The sandbox breaks on the test: a test with the verdict IE, which is the run's if no test
\* failed before.
TestBreaks ==
    /\ run.step = "answer" /\ Trouble
    /\ run' = [run EXCEPT !.exit = IF @ = "none" /\ run.passed = 1..(run.next - 1) THEN "IE" ELSE @,
                          !.step = IF Stops(FALSE) THEN "store" ELSE "input",
                          !.next = @ + 1, !.input = Missing, !.quiet = FALSE]
    /\ UNCHANGED <<database, dir, at, requests, torn, outcomes>>

\* The early returns: an abort that somebody asked for is seen before a test or during one, and
\* keeps the tests that are finished; before the first, the source may be refused or not compile.
Returns(verdict) ==
    /\ \/ verdict = "AB" /\ run.step \in {"input", "answer"}
       \/ verdict = "CE" /\ run.step = "input" /\ run.next = 1
    /\ run' = [run EXCEPT !.exit = verdict, !.step = "store"]
    /\ UNCHANGED <<database, dir, at, bounds, torn, outcomes>>

\* An exception in judge or before it: an outcome without tests.
Raises ==
    /\ run.step \in {"shares", "input", "answer"} /\ Trouble
    /\ run' = [run EXCEPT !.exit = "IE", !.step = "store", !.passed = {}]
    /\ UNCHANGED <<database, dir, at, requests, torn, outcomes>>

\* Mutant: what a cancelled run has finished is paid.
UnpaidCE == {"CE"}

Unpaid == {"CE", "AB"}

\* The verdict of a run; every one of a test but AC and IE is "failed" here.
VerdictOf(x) == IF x.exit # "none" THEN x.exit ELSE IF Passes(x) THEN "AC" ELSE "failed"
Earns(x) ==
    IF VerdictOf(x) \in Unpaid THEN 0 ELSE EarnedPercent(x.tests, x.shares, x.some, x.passed)

\* store_outcome.
Store ==
    /\ run.step = "store"
    /\ subs' = IF ~Live(run.sub) THEN subs
               ELSE [subs EXCEPT ![run.sub].state = VerdictOf(run),
                                 ![run.sub].earned = Earns(run),
                                 ![run.sub].of = IF run.quiet THEN run.of ELSE NoSet]
    /\ run' = NoRun
    /\ UNCHANGED <<slug, lastId, partial, tests, shares, origin, dir, at, bounds, torn, outcomes>>

----------------------------------------------------------------------------
RequestStep(t) ==
    \/ \E some \in BOOLEAN : CreateProblem(t, some)
    \/ Delete(t)
    \/ \E k \in DOMAIN Inline : ReplaceTests(t, k)
    \/ UploadTests(t) \/ BulkSubmit(t)
    \/ \E a \in DOMAIN Archive, n \in 0..MaxSamples : Resume(t, a, n)
    \/ \E solves \in Solution : ResumeBulk(t, <<solves>>)
    \/ \E p \in Package, some \in BOOLEAN : ExpressCreate(t, p, some)
    \/ ClearDirectory(t) \/ ClearFails(t) \/ WriteFiles(t) \/ WriteFails(t) \/ CommitTests(t)
    \/ Lookup(t) \/ QueueSource(t) \/ QueueFails(t) \/ Queued(t)
    \/ Undo(t) \/ UndoFails(t) \/ DeleteProblem(t) \/ DeleteFails(t)
    \/ DeleteFiles(t) \/ FilesStay(t)

JudgeStep ==
    \/ \E s \in DOMAIN subs : LoadTests(s)
    \/ LoadShares \/ ReadInput \/ TestBreaks \/ Raises \/ Store
    \/ \E ok \in BOOLEAN : ReadAnswer(ok)
    \/ \E verdict \in {"CE", "AB"} : Returns(verdict)

Next == (\E t \in Thread : RequestStep(t)) \/ JudgeStep \/ Stop

Spec == Init /\ [][Next]_vars

----------------------------------------------------------------------------
(* Properties *)

Set == SetName \cup {NoSet}
Rows == {<<>>} \cup {TestsOf[k] : k \in SetName}
Stored == {Missing} \cup UNION {{Contents(k, j) : j \in DOMAIN TestsOf[k]} : k \in SetName}

\* Every variable keeps its type, and a submission that is there belongs to the problem that
\* has the slug: deleting a problem takes its submissions along (ON DELETE CASCADE).
TypeOK ==
    /\ slug \in 0..lastId /\ lastId \in 0..MaxIds /\ partial \in BOOLEAN
    /\ tests \in Rows
    /\ \A g \in DOMAIN shares : shares[g] \in 0..100
    /\ dir = NoDir \/ \A i \in Idx : dir[i] \in Stored
    /\ \A s \in DOMAIN subs : subs[s] = NoSub \/
           /\ subs[s].problem = slug /\ slug # NoId
           /\ subs[s].state \in {"PENDING", "JUDGING", "AC", "failed", "CE", "AB", "IE"}
           /\ subs[s].earned \in 0..100 /\ subs[s].of \in Set
    /\ \A t \in Thread : at[t].step \in
           {"idle", "await", "row", "files", "clear", "write", "lookup", "queue", "undo"}
    /\ run.step \in {"idle", "shares", "input", "answer", "store"}
    /\ requests \in 0..MaxRequests /\ faults \in 0..MaxFaults
    /\ origin \in Set /\ torn \in BOOLEAN
    /\ packaged \cup accepted \cup stranded \subseteq 1..lastId

\* When nobody is changing the test set, each row names the files of the very test it was
\* written for, and a slug without tests has no files: a problem that is created under the
\* slug of a deleted one does not inherit them.  Two changes that overlapped, and one that
\* stopped half-way or left files that it could not remove, are the exceptions, until the next
\* change that does not (testdata.py:187-233, routes_admin.py:312-314).
InPlace ==
    ~torn /\ Writers = {} =>
        IF tests = <<>> THEN dir = NoDir
        ELSE /\ dir # NoDir
             /\ \A i \in Idx : dir[i] = IF i \in DOMAIN tests THEN Contents(origin, i) ELSE Missing

\* Whatever the archive declared, and whatever set it replaced: where subtasks are scored
\* their percentages make exactly 100, each of them has a test, and no hidden test is
\* outside of them and so worth nothing (testdata.py:56-80, 140-151, 210-226).
SharesCover ==
    shares # <<>> =>
        /\ Total(shares) = 100
        /\ \A g \in DOMAIN shares : \E i \in DOMAIN tests : tests[i].subtask = g
        /\ \A i \in DOMAIN tests : tests[i].sample \/ tests[i].subtask \in DOMAIN shares

\* The cases of a set that a source solves.
Solves(k, sub) == {i \in DOMAIN TestsOf[k] : TestsOf[k][i].case \in sub.solves}

\* What a set with subtasks promises for them, read off the archive itself.
Promise(k, sub) ==
    LET whole == {g \in DOMAIN SharesOf[k] : Group(TestsOf[k], g) \subseteq Solves(k, sub)}
    IN  Total([g \in whole |-> SharesOf[k][g]])

\* Without subtasks, the share of m of n tests in percent, to the nearest whole.
Nearest(earned, m, n) ==
    2 * (earned * n - 100 * m) \in (0 - n)..n

\* The submission has what the set promises, or less if the run stopped at its first failure.
Fairly(k, sub) ==
    LET scored == ScoredOf(TestsOf[k])
        solved == scored \cap Solves(k, sub)
    IN  IF SharesOf[k] # <<>>
        THEN sub.earned <= Promise(k, sub) /\ (sub.some => sub.earned = Promise(k, sub))
        ELSE IF sub.some THEN Nearest(sub.earned, Cardinality(solved), Cardinality(scored))
        ELSE sub.earned = 0 \/ (sub.earned = 100 /\ solved = scored)

\* A run that did not compile or was cancelled earns nothing, whatever tests had passed by
\* then.  And a judging that no change of the set and no broken sandbox disturbed is fair: if
\* it came to its end, the submission is accepted exactly if it solves every test of the
\* archive, an accepted one has earned 100 percent, and a problem with partial scores pays
\* what the archive promised, to the nearest percent.  Without partial scores the run stops
\* at the first failure and may earn less, never more; one that an exception ended earns
\* nothing (worker.py:190-207, runner.py:142-175, 480-515).
FairScore ==
    \A s \in DOMAIN subs : Live(s) =>
        LET sub == subs[s]
        IN  /\ sub.state \in {"CE", "AB"} => sub.earned = 0
            /\ sub.of # NoSet =>
                  /\ sub.state \in {"AC", "failed"} =>
                        /\ sub.state = "AC" <=> Solves(sub.of, sub) = DOMAIN TestsOf[sub.of]
                        /\ sub.state = "AC" => sub.earned = 100
                        /\ Fairly(sub.of, sub)
                  /\ sub.state = "IE" => sub.earned = 0

\* A package goes in as a whole or not at all: once nobody is at work on it, a problem that
\* was made from one is there only if its request succeeded, and then it has its tests and a
\* submission, whatever else happened meanwhile.  Left are the two that the except cannot
\* take back: its own DELETE failed, or the process stopped (routes_admin.py:651-675).
PackageWhole ==
    /\ slug \in packaged =>
           slug \in accepted \cup stranded \/ \E t \in Thread : at[t].made = slug
    /\ slug \in accepted =>
           tests # <<>> /\ \E s \in DOMAIN subs : subs[s].problem = slug
=============================================================================
