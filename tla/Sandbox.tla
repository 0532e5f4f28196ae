------------------------------ MODULE Sandbox ------------------------------
(***************************************************************************)
(* One program run by the judge: sandbox.run and the parts of runner.judge *)
(* around it (compile, warm up, one test).  A run is one forked child and  *)
(* four things that act on it at once: the worker in wait4, the wall-clock *)
(* timer, the abort watcher and the memory monitor.  The threads share one *)
(* table of descriptor numbers, which the kernel hands out lowest first.   *)
(* A process may leave the child's group (setsid) and live on where no     *)
(* kill reaches it.  Process numbers used again between wait4 and the      *)
(* sweep, and threads that cannot be started, are not modelled.            *)
(***************************************************************************)
EXTENDS Naturals, Sequences, FiniteSets, Functions

CONSTANTS Worker,        \* worker threads, each judging one submission
          Stages,        \* the runs of one submission, in order
          Programs,      \* what the program of a compilation, a warm-up, a test may do
          MaxFd,         \* descriptor numbers
          MaxRefused     \* bound: runs the kernel refuses a pipe or a fork

ASSUME StagesAssumption == Stages \in Seq({"compile", "warm", "test"}) /\ Len(Stages) > 0
ASSUME ProgramsAssumption ==
    Programs \in [{"compile", "warm", "test"} -> SUBSET
        {"right", "wrong", "crash", "hog", "flood", "large", "spin", "sleep", "missing"}]
ASSUME BoundAssumption == MaxFd \in Nat /\ MaxRefused \in Nat

VARIABLES rlimit,    \* the language is held by RLIMIT_AS
          wrapper,   \* and measure_helper() has a wrapper for its tests
          pc,        \* where each worker is in run
          stage,     \* which of Stages each worker is at
          fd,        \* the process's descriptors: number -> pipe end
          exec_r,    \* run -> the number its monitor reads
          report_r,  \* worker -> the number it reads the report from, 0: None
          proc,      \* worker -> its child
          away,      \* the runs with a process that left its group and has the report's end
          late,      \* 0: within the limit, 1: over it, 2: over wall_limit_s
          flags,     \* the Events timed_out, aborted, exceeded
          timer, watcher,   \* worker -> "off", "on", "mid" (flag set), "ended"
          mon,       \* run -> the monitor thread
          pipe,      \* worker -> its report pipe: "empty", "written", "stolen"
          asked,     \* worker -> abort.is_set()
          verdict,   \* worker -> the outcome, "" while judging
          refused    \* the runs that the kernel refused a pipe or a fork

workerVars == <<pc, stage, report_r, verdict>>
envVars == <<rlimit, wrapper>>
guardVars == <<flags, timer, watcher>>
vars == <<envVars, workerVars, fd, exec_r, proc, away, late, guardVars, mon, pipe, asked,
          refused>>

Run == Worker \X DOMAIN Stages
Number == 1..MaxFd
None == <<>>
End == Run \X {"report_r", "report_w", "exec_r", "exec_w"}
WriteEnds == {e \in End : e[2] \in {"report_w", "exec_w"}}

Current(w) == <<w, stage[w]>>
Kind(w) == Stages[stage[w]]
\* The wrapper goes in front only of a test, and only where RLIMIT_AS enforces.
Helper(w) == Kind(w) = "test" /\ wrapper

(***************************************************************************)
(* Descriptors                                                             *)
(***************************************************************************)
\* os.pipe: each end gets the lowest number that is free.
Free == {n \in Number : fd[n] = None}
Rank(n) == Cardinality({m \in Free : m <= n})
Opened(ends) ==
    [n \in Number |-> IF n \in Free /\ Rank(n) <= Len(ends) THEN ends[Rank(n)] ELSE fd[n]]
Nth(k) == CHOOSE n \in Free : Rank(n) = k
Without(ends) == [n \in Number |-> IF fd[n] \in ends THEN None ELSE fd[n]]

\* Whether somebody can still write to the pipe: the judge before it closes its copy, a
\* child that has not exec'd yet, and for a report the wrapper, which closes it to none of
\* the processes it starts, and all of those.
HasWriter(e) ==
    \/ e \in Range(fd)
    \/ \E v \in Worker : proc[v].st = "forked" /\ e \in proc[v].copies
    \/ e[2] = "report_w" /\ e[1] \in away
    \/ /\ e[2] = "report_w" /\ e[1] = Current(e[1][1])
       /\ proc[e[1][1]].st = "running" \/ proc[e[1][1]].left

WriterOf(e) == <<e[1], IF e[2] = "exec_r" THEN "exec_w" ELSE "report_w">>

(***************************************************************************)
(* Processes                                                               *)
(***************************************************************************)
NoProc == [st |-> "none", prog |-> "none", how |-> "none", left |-> FALSE, copies |-> {}]
Alive(w) == proc[w].st \in {"forked", "running"}

\* _killpg: the whole group dies, and nobody who left it; a group without members is an
\* error that is ignored.
Killed(w) ==
    [proc EXCEPT ![w].left = FALSE,
                 ![w].st = IF Alive(w) THEN "dead" ELSE @,
                 ![w].how = IF Alive(w) THEN "SIGKILL" ELSE @]

\* How a program of this kind ends by itself, if it does.  Python ignores SIGXFSZ and so
\* does what it starts, unless it asks for the signal: a write beyond RLIMIT_FSIZE is an
\* error that the program may die of or disregard.
EndsBy(w) ==
    CASE proc[w].prog \in {"right", "wrong"} -> {"exit 0"}
      [] proc[w].prog = "crash" -> {"exit 1", "SIGSEGV"}
      [] proc[w].prog = "hog" -> IF rlimit THEN {"exit 1"} ELSE {"exit 0"}
      [] proc[w].prog = "flood" -> {"SIGXFSZ", "exit 1", "exit 0"}
      [] proc[w].prog = "large" -> {"exit 0"}
      [] proc[w].prog = "spin" -> IF late[w] > 0 THEN {"SIGXCPU"} ELSE {}
      [] proc[w].prog = "missing" -> {"exit 127"}
      [] OTHER -> {}

(***************************************************************************)
(* What a run reports and what the runner makes of it                      *)
(***************************************************************************)
\* resolve_rss against the limit: where only sampling and rusage measure, or the report
\* is intact, what the program used is seen.
SeenOver(w) == proc[w].prog = "hog" /\ ~rlimit

\* The first that applies, as in run.
Status(w) ==
    LET how == proc[w].how
    IN  IF "aborted" \in flags[w] THEN "ABORTED"
        ELSE IF "exceeded" \in flags[w] THEN "MEMORY"
        ELSE IF "timed_out" \in flags[w] \/ how = "SIGXCPU" THEN "TIMEOUT"
        ELSE IF how = "SIGXFSZ" THEN "OUTPUT"
        ELSE IF SeenOver(w) THEN "MEMORY"
        ELSE IF how \in {"SIGKILL", "SIGSEGV"} THEN "RUNTIME"
        ELSE IF how \in {"exit 127", "no fork"} THEN "INTERNAL"
        ELSE IF how = "exit 1" THEN "RUNTIME"
        ELSE "OK"

\* What _run_one_test says: the time is compared with the real limit, not with the rope
\* the program was given, stderr tells running out of memory from other failures, and
\* output beyond OUTPUT_READ_CAP (less than RLIMIT_FSIZE allows) is not looked at.
Verdict(w) ==
    LET prog == proc[w].prog
    IN  IF Status(w) = "ABORTED" THEN "AB"
        ELSE IF Status(w) = "INTERNAL" THEN "IE"
        ELSE IF Status(w) = "TIMEOUT" \/ late[w] > 0 THEN "TLE"
        ELSE IF Status(w) = "OUTPUT" THEN "OLE"
        ELSE IF Status(w) = "MEMORY" THEN "MLE"
        ELSE IF Status(w) = "RUNTIME" THEN IF prog = "hog" THEN "MLE" ELSE "RE"
        ELSE IF prog \in {"flood", "large"} THEN "OLE"
        ELSE IF prog = "wrong" THEN "WA"
        ELSE "AC"

\* Mutant: a failed compilation is reported as the sandbox puts it.
StatusAsOutcome(w) ==
    CASE Kind(w) = "test" -> Verdict(w)
      [] Kind(w) = "compile" /\ Status(w) # "OK" -> Status(w)
      [] OTHER -> ""

\* What judge does with the run: a failed compilation ends the submission, a warm-up is
\* thrown away, a test gives the verdict.
Outcome(w) ==
    CASE Kind(w) = "test" -> Verdict(w)
      [] Kind(w) = "compile" /\ Status(w) = "ABORTED" -> "AB"
      [] Kind(w) = "compile" /\ Status(w) \notin {"ABORTED", "OK"} -> "CE"
      [] OTHER -> ""

(***************************************************************************)
(* The worker: judge, _compile, _warm_up, _run_one_test and run            *)
(***************************************************************************)
Init ==
    /\ rlimit \in BOOLEAN
    /\ wrapper \in IF rlimit THEN BOOLEAN ELSE {FALSE}
    /\ pc = [w \in Worker |-> "idle"]
    /\ stage = [w \in Worker |-> 1]
    /\ fd = [n \in Number |-> None]
    /\ exec_r = [r \in Run |-> 0]
    /\ report_r = [w \in Worker |-> 0]
    /\ proc = [w \in Worker |-> NoProc]
    /\ away = {}
    /\ late = [w \in Worker |-> 0]
    /\ flags = [w \in Worker |-> {}]
    /\ timer = [w \in Worker |-> "off"]
    /\ watcher = [w \in Worker |-> "off"]
    /\ mon = [r \in Run |-> [st |-> "off", on |-> None]]
    /\ pipe = [w \in Worker |-> "empty"]
    /\ asked = [w \in Worker |-> FALSE]
    /\ verdict = [w \in Worker |-> ""]
    /\ refused = {}

\* The next run of the submission, with nothing left of the one before but its monitor.
NextStage(w) ==
    /\ stage' = [stage EXCEPT ![w] = @ + 1]
    /\ pc' = [pc EXCEPT ![w] = "idle"]
    /\ proc' = [proc EXCEPT ![w] = NoProc]
    /\ late' = [late EXCEPT ![w] = 0]
    /\ flags' = [flags EXCEPT ![w] = {}]
    /\ timer' = [timer EXCEPT ![w] = "off"]
    /\ watcher' = [watcher EXCEPT ![w] = "off"]
    /\ pipe' = [pipe EXCEPT ![w] = "empty"]

\* What judge makes of a run without an outcome: the next run, or the end.
Conclude(w, outcome) ==
    IF outcome = "" /\ stage[w] < Len(Stages)
    THEN NextStage(w) /\ UNCHANGED verdict
    ELSE /\ verdict' = [verdict EXCEPT ![w] = outcome]
         /\ pc' = [pc EXCEPT ![w] = "over"]
         /\ UNCHANGED <<stage, proc, late, guardVars, pipe>>

\* judge and _warm_up look at the abort request before each run.
Cancelled(w) ==
    /\ pc[w] = "idle" /\ asked[w]
    /\ IF Kind(w) = "warm" /\ stage[w] < Len(Stages)
       THEN NextStage(w) /\ UNCHANGED verdict
       ELSE /\ verdict' = [verdict EXCEPT ![w] = "AB"]
            /\ pc' = [pc EXCEPT ![w] = "over"]
            /\ UNCHANGED <<stage, proc, late, guardVars, pipe>>
    /\ UNCHANGED <<envVars, fd, exec_r, report_r, away, mon, asked, refused>>

ReportPipe(w) ==
    IF Helper(w) THEN <<<<Current(w), "report_r">>, <<Current(w), "report_w">>>> ELSE <<>>

\* run up to the fork: the report pipe, then the exec pipe.
Pipes(w) ==
    LET r == Current(w)
        ends == ReportPipe(w) \o <<<<r, "exec_r">>, <<r, "exec_w">>>>
    IN  /\ pc[w] = "idle" /\ ~asked[w]
        /\ Cardinality(Free) >= Len(ends)
        /\ fd' = Opened(ends)
        /\ report_r' = [report_r EXCEPT ![w] = IF Helper(w) THEN Nth(1) ELSE 0]
        /\ exec_r' = [exec_r EXCEPT ![r] = Nth(Len(ends) - 1)]
        /\ pc' = [pc EXCEPT ![w] = "piped"]
        /\ UNCHANGED <<envVars, stage, verdict, proc, away, late, guardVars, mon, pipe, asked,
                       refused>>

\* os.pipe raises, always when the numbers run out.  run is left by the exception: a
\* report pipe that was open already stays open, _warm_up passes over it, judge says IE.
PipeRefused(w) ==
    /\ pc[w] = "idle" /\ ~asked[w]
    /\ \/ Cardinality(Free) < Len(ReportPipe(w)) + 2
       \/ Cardinality(refused) < MaxRefused
    /\ \/ UNCHANGED fd
       \/ Cardinality(Free) >= Len(ReportPipe(w)) /\ fd' = Opened(ReportPipe(w))
    /\ refused' = refused \cup {Current(w)}
    /\ Conclude(w, IF Kind(w) = "warm" THEN "" ELSE "IE")
    /\ UNCHANGED <<envVars, report_r, exec_r, away, mon, asked>>

\* Mutant: the parent keeps its copy of the report's write end.
ReportKeptOpen(r) == {<<r, "exec_w">>}

\* The ends the parent closes once the child has its copies.
ClosedAfterFork(r) == {<<r, "exec_w">>, <<r, "report_w">>}

\* The child inherits every descriptor that is open; the timer, the watcher and the
\* monitor start.
Fork(w) ==
    LET r == Current(w)
    IN  /\ pc[w] = "piped"
        /\ \E prog \in Programs[Kind(w)] :
              proc' = [proc EXCEPT ![w] = [NoProc EXCEPT
                          !.st = "forked", !.prog = prog,
                          !.copies = Range(fd) \cap WriteEnds]]
        /\ fd' = Without(ClosedAfterFork(r))
        /\ pc' = [pc EXCEPT ![w] = "waiting"]
        /\ timer' = [timer EXCEPT ![w] = "on"]
        /\ watcher' = [watcher EXCEPT ![w] = "on"]
        /\ mon' = [mon EXCEPT ![r].st = "start"]
        /\ UNCHANGED <<envVars, stage, report_r, verdict, exec_r, away, late, flags, pipe, asked,
                       refused>>

\* os.fork raises: run returns INTERNAL and closes nothing.
ForkFails(w) ==
    /\ pc[w] = "piped"
    /\ Cardinality(refused) < MaxRefused
    /\ refused' = refused \cup {Current(w)}
    /\ report_r' = [report_r EXCEPT ![w] = 0]
    /\ proc' = [proc EXCEPT ![w].st = "reaped", ![w].how = "no fork"]
    /\ pc' = [pc EXCEPT ![w] = "swept"]
    /\ UNCHANGED <<envVars, stage, verdict, fd, exec_r, away, late, guardVars, mon, pipe, asked>>

\* wait4 returns.
Reap(w) ==
    /\ pc[w] = "waiting" /\ proc[w].st = "dead"
    /\ proc' = [proc EXCEPT ![w].st = "reaped"]
    /\ pc' = [pc EXCEPT ![w] = "reaped"]
    /\ UNCHANGED <<envVars, stage, report_r, verdict, fd, exec_r, away, late, guardVars, mon, pipe,
                   asked, refused>>

\* The finally clause: cancel the timer, tell the monitor to stop, close exec_r, join the
\* watcher.
Stop(w) ==
    /\ pc[w] = "reaped" /\ watcher[w] # "mid"
    /\ timer' = [timer EXCEPT ![w] = IF @ = "on" THEN "ended" ELSE @]
    /\ watcher' = [watcher EXCEPT ![w] = "ended"]
    /\ fd' = Without({<<Current(w), "exec_r">>})
    /\ pc' = [pc EXCEPT ![w] = "stopped"]
    /\ UNCHANGED <<envVars, stage, report_r, verdict, exec_r, proc, away, late, flags, mon, pipe,
                   asked, refused>>

\* Mutant: nothing is swept up after the child.
SweepNothing(w) ==
    /\ pc[w] = "stopped"
    /\ pc' = [pc EXCEPT ![w] = "swept"]
    /\ UNCHANGED <<envVars, stage, report_r, verdict, fd, exec_r, proc, away, late, guardVars, mon,
                   pipe, asked, refused>>

\* _killpg(pid) after the child: whatever it left behind in its group.
Sweep(w) ==
    /\ pc[w] = "stopped"
    /\ proc' = Killed(w)
    /\ pc' = [pc EXCEPT ![w] = "swept"]
    /\ UNCHANGED <<envVars, stage, report_r, verdict, fd, exec_r, away, late, guardVars, mon, pipe,
                   asked, refused>>

\* The report is read, which waits for data or for the last writer; its descriptor is
\* closed; the run is judged.
Report(w) ==
    /\ pc[w] = "swept"
    /\ report_r[w] # 0 => pipe[w] # "empty" \/ ~HasWriter(<<Current(w), "report_w">>)
    /\ fd' = [n \in Number |-> IF n = report_r[w] THEN None ELSE fd[n]]
    /\ report_r' = [report_r EXCEPT ![w] = 0]
    /\ Conclude(w, Outcome(w))
    /\ UNCHANGED <<envVars, exec_r, away, mon, asked, refused>>

(***************************************************************************)
(* The child                                                               *)
(***************************************************************************)
threadUnchanged == UNCHANGED <<envVars, workerVars, fd, exec_r, refused>>
workerUnchanged == threadUnchanged /\ UNCHANGED away

\* execve closes everything the child inherited but the report's end.
Exec(w) ==
    /\ proc[w].st = "forked"
    /\ proc' = [proc EXCEPT ![w].st = "running", ![w].copies = {}]
    /\ workerUnchanged /\ UNCHANGED <<late, guardVars, mon, pipe, asked>>

\* The program ends, perhaps leaving processes behind; the wrapper reports its memory.
Ends(w) ==
    /\ proc[w].st = "running"
    /\ \E how \in EndsBy(w), left \in BOOLEAN :
          proc' = [proc EXCEPT ![w].st = "dead", ![w].how = how, ![w].left = left]
    /\ pipe' = [pipe EXCEPT ![w] = IF Helper(w) THEN "written" ELSE @]
    /\ workerUnchanged /\ UNCHANGED <<late, guardVars, mon, asked>>

\* A process of the program leaves the group, with the report's end if there is one, and
\* ends at any later time or never.
Leaves(w) ==
    /\ proc[w].st = "running" /\ Helper(w)
    /\ away' = away \cup {Current(w)}
    /\ threadUnchanged /\ UNCHANGED <<proc, late, guardVars, mon, pipe, asked>>

Departs(r) ==
    /\ r \in away
    /\ away' = away \ {r}
    /\ threadUnchanged /\ UNCHANGED <<proc, late, guardVars, mon, pipe, asked>>

\* The time that counts ends when the worker has stopped the threads, not with the child.
TimePasses(w) ==
    /\ pc[w] \in {"waiting", "reaped"} /\ late[w] < 2
    /\ late' = [late EXCEPT ![w] = @ + 1]
    /\ workerUnchanged /\ UNCHANGED <<proc, guardVars, mon, pipe, asked>>

(***************************************************************************)
(* The threads around it.  Each sets its Event and then kills the group.   *)
(***************************************************************************)
\* _watchdog
TimerFires(w) ==
    /\ timer[w] = "on" /\ late[w] = 2
    /\ flags' = [flags EXCEPT ![w] = @ \cup {"timed_out"}]
    /\ timer' = [timer EXCEPT ![w] = "mid"]
    /\ workerUnchanged /\ UNCHANGED <<proc, late, watcher, mon, pipe, asked>>

\* Mutant: the timer only notes that the time is up.
TimerOnlyNotes(w) ==
    /\ timer[w] = "mid"
    /\ timer' = [timer EXCEPT ![w] = "ended"]
    /\ workerUnchanged /\ UNCHANGED <<proc, late, flags, watcher, mon, pipe, asked>>

TimerKills(w) ==
    /\ timer[w] = "mid"
    /\ timer' = [timer EXCEPT ![w] = "ended"]
    /\ proc' = Killed(w)
    /\ workerUnchanged /\ UNCHANGED <<late, flags, watcher, mon, pipe, asked>>

\* Mutant: the watcher kills and does not set its Event.
WatcherSaysNothing(w) ==
    /\ watcher[w] = "on" /\ asked[w]
    /\ watcher' = [watcher EXCEPT ![w] = "mid"]
    /\ workerUnchanged /\ UNCHANGED <<proc, late, flags, timer, mon, pipe, asked>>

\* _abort_watch
WatcherSees(w) ==
    /\ watcher[w] = "on" /\ asked[w]
    /\ flags' = [flags EXCEPT ![w] = @ \cup {"aborted"}]
    /\ watcher' = [watcher EXCEPT ![w] = "mid"]
    /\ workerUnchanged /\ UNCHANGED <<proc, late, timer, mon, pipe, asked>>

WatcherKills(w) ==
    /\ watcher[w] = "mid"
    /\ watcher' = [watcher EXCEPT ![w] = "ended"]
    /\ proc' = Killed(w)
    /\ workerUnchanged /\ UNCHANGED <<late, flags, timer, mon, pipe, asked>>

\* monitor._done: its run has got past the finally clause.
Done(r) == r[2] < stage[r[1]] \/ pc[r[1]] \in {"stopped", "swept", "over"}

\* The loop asks _done before it samples, so a monitor that comes late ends at once.
Sampling(r) == [st |-> IF Done(r) THEN "ended" ELSE "sampling", on |-> None]

MonUnchanged == workerUnchanged /\ UNCHANGED <<late, timer, watcher, asked>>

\* _await_exec: os.read on the number it was given, whatever that number is by now.  A
\* number that is closed, or open for writing, raises, and that is ignored.
MonReads(r) ==
    LET end == IF mon[r].st = "start" THEN fd[exec_r[r]] ELSE None
    IN  /\ mon[r].st = "start"
        /\ mon' = [mon EXCEPT ![r] = IF end = None \/ end \in WriteEnds
                                     THEN Sampling(r)
                                     ELSE [st |-> "reading", on |-> end]]
        /\ MonUnchanged /\ UNCHANGED <<proc, flags, pipe>>

\* The read returns: data, and it reads on, or the end of the file.
MonGets(r) ==
    LET end == mon[r].on
        owner == IF end = None THEN r ELSE end[1]
        data == end # None /\ end[2] = "report_r" /\ owner = Current(owner[1])
                  /\ pipe[owner[1]] = "written"
    IN  /\ mon[r].st = "reading"
        /\ IF data
           THEN pipe' = [pipe EXCEPT ![owner[1]] = "stolen"] /\ UNCHANGED mon
           ELSE /\ ~HasWriter(WriterOf(end))
                /\ mon' = [mon EXCEPT ![r] = Sampling(r)]
                /\ UNCHANGED pipe
        /\ MonUnchanged /\ UNCHANGED <<proc, flags>>

\* One turn of the sampling loop.
MonSamples(r) ==
    LET w == r[1]
        over == proc[w].st = "running" /\ SeenOver(w)
    IN  /\ mon[r].st = "sampling"
        /\ Done(r) \/ over
        /\ mon' = [mon EXCEPT ![r].st = IF Done(r) THEN "ended" ELSE "mid"]
        /\ flags' = [flags EXCEPT ![w] = IF Done(r) THEN @ ELSE @ \cup {"exceeded"}]
        /\ MonUnchanged /\ UNCHANGED <<proc, pipe>>

\* A monitor of an earlier run kills a process that is gone.
MonKills(r) ==
    /\ mon[r].st = "mid"
    /\ mon' = [mon EXCEPT ![r].st = "ended"]
    /\ proc' = IF r = Current(r[1]) THEN Killed(r[1]) ELSE proc
    /\ MonUnchanged /\ UNCHANGED <<flags, pipe>>

\* Somebody asks for the submission to be cancelled.
Ask(w) ==
    /\ pc[w] # "over" /\ ~asked[w]
    /\ asked' = [asked EXCEPT ![w] = TRUE]
    /\ workerUnchanged /\ UNCHANGED <<proc, late, guardVars, mon, pipe>>

WorkerStep(w) ==
    \/ Cancelled(w) \/ Pipes(w) \/ PipeRefused(w) \/ Fork(w)
    \/ Reap(w) \/ Stop(w) \/ Sweep(w) \/ Report(w)
ChildStep(w) == Exec(w) \/ Ends(w)
GuardStep(w) == TimerFires(w) \/ TimerKills(w) \/ WatcherSees(w) \/ WatcherKills(w)
MonStep(r) == MonReads(r) \/ MonGets(r) \/ MonSamples(r) \/ MonKills(r)

Next ==
    \/ \E w \in Worker : WorkerStep(w) \/ ChildStep(w) \/ GuardStep(w) \/ TimePasses(w)
                           \/ ForkFails(w) \/ Ask(w) \/ Leaves(w)
    \/ \E r \in Run : MonStep(r) \/ Departs(r)

Spec == Init /\ [][Next]_vars

\* The scheduler runs every thread, the kernel starts every child and time goes on; that a
\* program ends by itself, or that a monitor gets to run, is not assumed.
FairSpec ==
    /\ Spec
    /\ \A w \in Worker :
         /\ WF_vars(WorkerStep(w))
         /\ WF_vars(Exec(w))
         /\ WF_vars(TimePasses(w))
         /\ WF_vars(GuardStep(w))

(***************************************************************************)
(* Properties                                                              *)
(***************************************************************************)
\* Every variable keeps its type; a verdict is one the runner knows (Outcome).
TypeOK ==
    /\ rlimit \in BOOLEAN /\ wrapper \in BOOLEAN
    /\ pc \in [Worker -> {"idle", "piped", "waiting", "reaped", "stopped", "swept", "over"}]
    /\ stage \in [Worker -> DOMAIN Stages]
    /\ fd \in [Number -> End \cup {None}]
    /\ exec_r \in [Run -> Number \cup {0}]
    /\ report_r \in [Worker -> Number \cup {0}]
    /\ away \subseteq Run
    /\ late \in [Worker -> 0..2]
    /\ flags \in [Worker -> SUBSET {"timed_out", "aborted", "exceeded"}]
    /\ timer \in [Worker -> {"off", "on", "mid", "ended"}]
    /\ watcher \in [Worker -> {"off", "on", "mid", "ended"}]
    /\ mon \in [Run -> [st : {"off", "start", "reading", "sampling", "mid", "ended"},
                        on : End \cup {None}]]
    /\ \A w \in Worker : /\ proc[w].st \in {"none", "forked", "running", "dead", "reaped"}
                          /\ proc[w].copies \subseteq WriteEnds
    /\ pipe \in [Worker -> {"empty", "written", "stolen"}]
    /\ asked \in [Worker -> BOOLEAN]
    /\ verdict \in [Worker -> {"", "AC", "WA", "TLE", "MLE", "RE", "OLE", "IE", "CE", "AB"}]
    /\ refused \subseteq Run

\* Three threads and the kernel may kill the program, all with the same signal.  The
\* verdict still says what happened: the judge's own kill is never a runtime error, a
\* program is out of time only if the time was over before the run was collected, out of
\* memory only if it was, and cancelled only if asked.
HonestVerdict ==
    \A w \in Worker :
        LET prog == proc[w].prog
            refusal == Current(w) \in refused
        IN  CASE verdict[w] = "AC" -> prog = "right" /\ late[w] = 0
              [] verdict[w] = "WA" -> prog = "wrong"
              [] verdict[w] = "RE" -> prog \in {"crash", "flood"} /\ late[w] = 0
              [] verdict[w] = "TLE" -> late[w] > 0
              [] verdict[w] = "MLE" -> prog = "hog"
              [] verdict[w] = "OLE" -> prog \in {"flood", "large"}
              [] verdict[w] = "IE" -> prog = "missing" \/ refusal
              [] verdict[w] = "CE" -> prog \notin {"right", "wrong"} \/ late[w] = 2 \/ refusal
              [] verdict[w] = "AB" -> asked[w]
              [] OTHER -> TRUE

\* Once run returns, no process of the program's group is left to slow down the next test
\* or to hold its files.
NobodySurvives ==
    \A w \in Worker : pc[w] \in {"idle", "swept", "over"} => ~Alive(w) /\ ~proc[w].left

\* A worker judges for weeks in one process: every descriptor that is open belongs to a
\* run in progress, or was left by a run that the kernel refused its exec pipe or its fork.
DescriptorsReturned ==
    \A n \in Number : fd[n] # None =>
        LET r == fd[n][1]
        IN  r \in refused \/ (r = Current(r[1]) /\ pc[r[1]] \notin {"idle", "over"})

\* Every submission gets a verdict: the timer reaches a program that never ends, and
\* reading its report waits for nobody in its group.  The one thing that can hold a worker
\* up for good is a process that left the group with the wrapper's end of the report.
EveryRunEnds ==
    \A w \in Worker : <>(pc[w] = "over") \/ <>[](Current(w) \in away)
=============================================================================
