---------------------------- MODULE SandboxProofs ----------------------------
(***************************************************************************)
(* The safety of the sandbox: nobody survives a run (PhaseInv, what is     *)
(* left of a run at each place of its worker), the verdict says what       *)
(* happened (FlagInv, why a flag is set, and VerdictInv, how a dead child  *)
(* came to die), every descriptor is given back (FdInv, who still needs    *)
(* it).  A worker's step leaves the runs of the others alone: each         *)
(* invariant is proved of the one that acts, and stays for the rest.       *)
(***************************************************************************)
EXTENDS Sandbox, FiniteSetTheorems, SequenceTheorems, TLAPS

USE StagesAssumption, ProgramsAssumption, BoundAssumption

USE DEF vars, envVars, workerVars, guardVars, workerUnchanged, threadUnchanged, MonUnchanged,
        Conclude

(***************************************************************************)
(* Runs, and who acts.                                                     *)
(***************************************************************************)
Kinds == {"compile", "warm", "test"}
Progs == {"right", "wrong", "crash", "hog", "flood", "large", "spin", "sleep",
          "missing"}
Hows == {"none", "SIGKILL", "exit 0", "exit 1", "SIGSEGV", "SIGXFSZ", "SIGXCPU", "exit 127",
         "no fork"}
Process == [st : {"none", "forked", "running", "dead", "reaped"}, prog : Progs \cup {"none"},
            how : Hows, left : BOOLEAN, copies : SUBSET WriteEnds]
Monitor == [st : {"off", "start", "reading", "sampling", "mid", "ended"},
            on : End \cup {None}]

\* What TypeOK leaves open: the whole record of a child, and that a monitor that starts
\* was given a number.
ProcInv ==
    /\ proc \in [Worker -> Process]
    /\ \A w \in Worker : pc[w] = "piped" => exec_r[Current(w)] \in Number
    /\ \A r \in Run : mon[r].st = "start" => exec_r[r] \in Number

TypeInv == TypeOK /\ ProcInv

\* Everything that happens to the submission of one worker.
Acts(w) ==
    \/ WorkerStep(w) \/ ChildStep(w) \/ GuardStep(w)
    \/ TimePasses(w) \/ ForkFails(w) \/ Ask(w)
    \/ \E i \in DOMAIN Stages : MonStep(<<w, i>>)

\* Whatever is not in away.
restVars == <<envVars, workerVars, fd, exec_r, proc, late, guardVars, mon, pipe, asked, refused>>

\* A process leaves a group, or one that has left ends: nothing else is touched.
Roams ==
    /\ (\E w \in Worker : Leaves(w)) \/ (\E r \in Run : Departs(r))
    /\ UNCHANGED restVars

LEMMA SomebodyActs == ASSUME Next PROVE (\E w \in Worker : Acts(w)) \/ Roams
<1>1. CASE \E w \in Worker : WorkerStep(w) \/ ChildStep(w) \/ GuardStep(w) \/ TimePasses(w)
                               \/ ForkFails(w) \/ Ask(w)
  BY <1>1 DEF Acts
<1>4. CASE (\E w \in Worker : Leaves(w)) \/ (\E r \in Run : Departs(r))
  BY <1>4 DEF Roams, restVars, Leaves, Departs
<1>2. CASE \E r \in Run : MonStep(r)
  <2>1. PICK r \in Run : MonStep(r)
    BY <1>2
  <2>2. PICK w \in Worker, i \in DOMAIN Stages : r = <<w, i>>
    BY DEF Run
  <2>3. QED
    BY <2>1, <2>2 DEF Acts
<1>3. QED
  BY <1>1, <1>2, <1>4 DEF Next

LEMMA StagesType ==
    /\ Len(Stages) \in Nat \ {0}
    /\ DOMAIN Stages = 1..Len(Stages)
    /\ \A i \in DOMAIN Stages : Stages[i] \in Kinds
BY DEF Kinds

LEMMA CurrentType ==
    ASSUME stage \in [Worker -> DOMAIN Stages], NEW w \in Worker
    PROVE  /\ Current(w) \in Run /\ Current(w)[1] = w /\ Current(w)[2] = stage[w]
           /\ Kind(w) \in Kinds
BY StagesType DEF Current, Run, Kind

LEMMA StageNumber ==
    ASSUME stage \in [Worker -> DOMAIN Stages], NEW w \in Worker PROVE stage[w] \in Nat
<1>1. PICK k \in Nat : DOMAIN Stages = 1..k
  BY StagesType
<1>2. stage[w] \in 1..k
  BY <1>1
<1>3. QED
  BY <1>1, <1>2

LEMMA NextIsAStage ==
    ASSUME stage \in [Worker -> DOMAIN Stages], NEW w \in Worker, stage[w] < Len(Stages)
    PROVE  stage[w] \in Nat /\ stage[w] + 1 \in DOMAIN Stages
<1>1. PICK k \in Nat : k = Len(Stages) /\ DOMAIN Stages = 1..k
  BY StagesType
<1>2. stage[w] \in 1..k
  BY <1>1
<1>3. stage[w] \in Nat /\ stage[w] + 1 \in 1..k
  BY <1>1, <1>2
<1>4. QED
  BY <1>1, <1>3

\* What a kill does to the child of one worker.
LEMMA KillType ==
    ASSUME proc \in [Worker -> Process], NEW w \in Worker
    PROVE  /\ Killed(w) \in [Worker -> Process]
           /\ \A v \in Worker : v # w => Killed(w)[v] = proc[v]
           /\ ~Killed(w)[w].left
           /\ Killed(w)[w].prog = proc[w].prog
           /\ Alive(w) => Killed(w)[w].st = "dead" /\ Killed(w)[w].how = "SIGKILL"
           /\ ~Alive(w) => Killed(w)[w].st = proc[w].st /\ Killed(w)[w].how = proc[w].how
<1> DEFINE q == [proc[w] EXCEPT !.left = FALSE,
                                !.st = IF Alive(w) THEN "dead" ELSE @,
                                !.how = IF Alive(w) THEN "SIGKILL" ELSE @]
<1>1. Killed(w) = [proc EXCEPT ![w] = q]
  BY DEF Killed
<1>2. proc[w] \in Process
  OBVIOUS
<1>3. q \in Process
  BY <1>2 DEF Process, Hows
<1>4. /\ ~q.left /\ q.prog = proc[w].prog
      /\ Alive(w) => q.st = "dead" /\ q.how = "SIGKILL"
      /\ ~Alive(w) => q.st = proc[w].st /\ q.how = proc[w].how
  BY <1>2 DEF Process
<1> HIDE DEF q
<1>5. QED
  BY <1>1, <1>3, <1>4

(***************************************************************************)
(* Descriptor numbers.                                                     *)
(***************************************************************************)
LEMMA FreeFinite == Free \subseteq Number /\ IsFiniteSet(Free) /\ Cardinality(Free) \in Nat
<1>1. IsFiniteSet(Number)
  BY FS_Interval DEF Number
<1>2. Free \in SUBSET Number
  BY DEF Free
<1>3. IsFiniteSet(Free)
  BY <1>1, <1>2, FS_Subset
<1>4. Cardinality(Free) \in Nat
  BY <1>3, FS_CardinalityType
<1>5. QED
  BY <1>2, <1>3, <1>4

\* A free number's rank is its place among the free numbers.
LEMMA RankType == ASSUME NEW n \in Free PROVE Rank(n) \in 1..Cardinality(Free)
<1> DEFINE below == {m \in Free : m <= n}
<1>1. below \in SUBSET Free
  OBVIOUS
<1>2. IsFiniteSet(below) /\ Cardinality(below) <= Cardinality(Free)
  BY <1>1, FreeFinite, FS_Subset
<1>3. Cardinality(below) \in Nat
  BY <1>2, FS_CardinalityType
<1>4. n \in below
  BY FreeFinite DEF Number
<1>5. Cardinality(below) # 0
  BY <1>2, <1>4, FS_EmptySet
<1>6. Rank(n) = Cardinality(below)
  BY DEF Rank
<1> HIDE DEF below
<1>7. QED
  BY <1>2, <1>3, <1>5, <1>6, FreeFinite

LEMMA RankGrows ==
    ASSUME NEW m \in Free, NEW n \in Free, m < n PROVE Rank(m) < Rank(n)
<1> DEFINE upTo(k) == {i \in Free : i <= k}
<1>1. upTo(m) \in SUBSET upTo(n)
  <2>1. \A i \in Free : i <= m => i <= n
    BY FreeFinite DEF Number
  <2>2. QED
    BY <2>1
<1>2. n \in upTo(n) /\ n \notin upTo(m)
  BY FreeFinite DEF Number
<1>3. upTo(n) \in SUBSET Free
  OBVIOUS
<1>4. Rank(m) = Cardinality(upTo(m)) /\ Rank(n) = Cardinality(upTo(n))
  BY DEF Rank
<1> HIDE DEF upTo
<1>5. IsFiniteSet(upTo(n))
  BY <1>3, FreeFinite, FS_Subset
<1>6. Cardinality(upTo(m)) <= Cardinality(upTo(n)) /\ Cardinality(upTo(m)) # Cardinality(upTo(n))
  BY <1>1, <1>2, <1>5, FS_Subset
<1>7. Rank(m) \in Nat /\ Rank(n) \in Nat
  BY RankType
<1>8. QED
  BY <1>4, <1>6, <1>7

\* os.pipe finds the number it looks for, and only that one.
LEMMA NthIsFree ==
    ASSUME NEW k \in 1..Cardinality(Free)
    PROVE  /\ Nth(k) \in Free /\ Rank(Nth(k)) = k
           /\ \A n \in Free : Rank(n) = k => n = Nth(k)
<1> DEFINE rank == [n \in Free |-> Rank(n)]
           places == 1..Cardinality(Free)
<1>1. \A m, n \in Free : Rank(m) = Rank(n) => m = n
  <2> TAKE m \in Free, n \in Free
  <2>1. m \in Nat /\ n \in Nat /\ Rank(m) \in Nat /\ Rank(n) \in Nat
    BY FreeFinite, RankType DEF Number
  <2>2. m < n => Rank(m) < Rank(n)
    BY RankGrows
  <2>3. n < m => Rank(n) < Rank(m)
    BY RankGrows
  <2>4. QED
    BY <2>1, <2>2, <2>3
<1>2. rank \in Injection(Free, places)
  BY <1>1, RankType DEF Injection, IsInjective
<1>3. IsFiniteSet(places)
  BY FreeFinite, FS_Interval
<1>4. Cardinality(places) = Cardinality(Free)
  BY FreeFinite, FS_Interval
<1>5. rank \in Surjection(Free, places)
  <2> HIDE DEF rank, places
  <2>1. QED
    BY <1>2, <1>3, <1>4, FS_Injection
<1>6. \E n \in Free : Rank(n) = k
  BY <1>5 DEF Surjection
<1>7. Nth(k) \in Free /\ Rank(Nth(k)) = k
  BY <1>6 DEF Nth
<1>8. QED
  BY <1>1, <1>7

LEMMA TwoAndTwo ==
    ASSUME NEW a, NEW b, NEW c, NEW d
    PROVE  /\ <<a, b>> \o <<c, d>> = <<a, b, c, d>> /\ Len(<<a, b>> \o <<c, d>>) = 4
           /\ <<>> \o <<c, d>> = <<c, d>> /\ Len(<<>> \o <<c, d>>) = 2
<1> DEFINE all == {a, b, c, d}
<1>1. <<a, b>> \in Seq(all) /\ <<c, d>> \in Seq(all) /\ <<a, b, c, d>> \in Seq(all)
  OBVIOUS
<1>2. /\ <<a, b>> \o <<c, d>> \in Seq(all)
      /\ Len(<<a, b>> \o <<c, d>>) = Len(<<a, b>>) + Len(<<c, d>>)
      /\ \A i \in 1..(Len(<<a, b>>) + Len(<<c, d>>)) :
            (<<a, b>> \o <<c, d>>)[i] = IF i <= Len(<<a, b>>) THEN <<a, b>>[i]
                                       ELSE <<c, d>>[i - Len(<<a, b>>)]
  BY <1>1, ConcatProperties
<1>3. Len(<<a, b>>) = 2 /\ Len(<<c, d>>) = 2
  OBVIOUS
<1>4. \A i \in 1..4 : (<<a, b>> \o <<c, d>>)[i] = <<a, b, c, d>>[i]
  BY <1>2, <1>3
<1>5. <<a, b>> \o <<c, d>> = <<a, b, c, d>>
  <2> DEFINE s == <<a, b>> \o <<c, d>>
             t == <<a, b, c, d>>
  <2>1. s \in Seq(all) /\ t \in Seq(all) /\ Len(s) = 4 /\ Len(t) = 4
    BY <1>1, <1>2, <1>3
  <2>2. \A i \in 1..4 : s[i] = t[i]
    BY <1>4
  <2> HIDE DEF s, t, all
  <2>3. s = t
    BY <2>1, <2>2, SeqEqual
  <2>4. QED
    BY <2>3 DEF s, t
<1>6. <<>> \o <<c, d>> = <<c, d>>
  BY <1>1, ConcatEmptySeq
<1>7. QED
  BY <1>2, <1>3, <1>5, <1>6

\* The two pipes of a run, or the one, come out with the lowest numbers.
LEMMA PipesOpen ==
    ASSUME TypeInv, NEW w \in Worker, Pipes(w)
    PROVE  LET r == Current(w)
           IN  /\ Helper(w) =>
                    /\ Cardinality(Free) >= 4
                    /\ fd' = Opened(<<<<r, "report_r">>, <<r, "report_w">>,
                                      <<r, "exec_r">>, <<r, "exec_w">>>>)
                    /\ report_r' = [report_r EXCEPT ![w] = Nth(1)]
                    /\ exec_r' = [exec_r EXCEPT ![r] = Nth(3)]
               /\ ~Helper(w) =>
                    /\ Cardinality(Free) >= 2
                    /\ fd' = Opened(<<<<r, "exec_r">>, <<r, "exec_w">>>>)
                    /\ report_r' = [report_r EXCEPT ![w] = 0]
                    /\ exec_r' = [exec_r EXCEPT ![r] = Nth(1)]
<1> DEFINE r == Current(w)
           report == <<<<r, "report_r">>, <<r, "report_w">>>>
           exec == <<<<r, "exec_r">>, <<r, "exec_w">>>>
<1>1. CASE Helper(w)
  <2>1. /\ report \o exec = <<<<r, "report_r">>, <<r, "report_w">>,
                             <<r, "exec_r">>, <<r, "exec_w">>>>
        /\ Len(report \o exec) = 4
    BY TwoAndTwo
  <2>3. /\ Cardinality(Free) >= Len(report \o exec)
        /\ fd' = Opened(report \o exec)
        /\ report_r' = [report_r EXCEPT ![w] = Nth(1)]
        /\ exec_r' = [exec_r EXCEPT ![r] = Nth(Len(report \o exec) - 1)]
    BY <1>1 DEF Pipes, ReportPipe
  <2>4. /\ Cardinality(Free) >= 4
        /\ fd' = Opened(<<<<r, "report_r">>, <<r, "report_w">>,
                          <<r, "exec_r">>, <<r, "exec_w">>>>)
        /\ report_r' = [report_r EXCEPT ![w] = Nth(1)]
        /\ exec_r' = [exec_r EXCEPT ![r] = Nth(3)]
    <3> HIDE DEF report, exec
    <3>1. QED
      BY <2>1, <2>3
  <2>5. QED
    BY <1>1, <2>4
<1>2. CASE ~Helper(w)
  <2>1. <<>> \o exec = exec /\ Len(<<>> \o exec) = 2
    BY TwoAndTwo
  <2>3. /\ Cardinality(Free) >= Len(<<>> \o exec)
        /\ fd' = Opened(<<>> \o exec)
        /\ report_r' = [report_r EXCEPT ![w] = 0]
        /\ exec_r' = [exec_r EXCEPT ![r] = Nth(Len(<<>> \o exec) - 1)]
    BY <1>2 DEF Pipes, ReportPipe
  <2>4. /\ Cardinality(Free) >= 2
        /\ fd' = Opened(exec)
        /\ report_r' = [report_r EXCEPT ![w] = 0]
        /\ exec_r' = [exec_r EXCEPT ![r] = Nth(1)]
    <3> HIDE DEF exec
    <3>1. Len(<<>> \o exec) - 1 = 1
      BY <2>1
    <3>2. QED
      BY <2>1, <2>3, <3>1
  <2>5. QED
    BY <1>2, <2>4
<1>3. QED
  BY <1>1, <1>2

(***************************************************************************)
(* Types.                                                                  *)
(***************************************************************************)
\* The variables of the worker's own thread, and the others.
WorkerOK ==
    /\ rlimit \in BOOLEAN /\ wrapper \in BOOLEAN
    /\ pc \in [Worker -> {"idle", "piped", "waiting", "reaped", "stopped", "swept", "over"}]
    /\ stage \in [Worker -> DOMAIN Stages]
    /\ report_r \in [Worker -> Number \cup {0}]
    /\ verdict \in [Worker -> {"", "AC", "WA", "TLE", "MLE", "RE", "OLE", "IE", "CE", "AB"}]
    /\ refused \subseteq Run
FdOK ==
    /\ fd \in [Number -> End \cup {None}]
    /\ exec_r \in [Run -> Number \cup {0}]
AwayOK == away \subseteq Run
ChildOK ==
    /\ late \in [Worker -> 0..2]
    /\ flags \in [Worker -> SUBSET {"timed_out", "aborted", "exceeded"}]
    /\ timer \in [Worker -> {"off", "on", "mid", "ended"}]
    /\ watcher \in [Worker -> {"off", "on", "mid", "ended"}]
    /\ mon \in [Run -> Monitor]
    /\ proc \in [Worker -> Process]
    /\ pipe \in [Worker -> {"empty", "written", "stolen"}]
    /\ asked \in [Worker -> BOOLEAN]
NumberOK ==
    /\ \A w \in Worker : pc[w] = "piped" => exec_r[Current(w)] \in Number
    /\ \A r \in Run : mon[r].st = "start" => exec_r[r] \in Number

LEMMA TypeParts == TypeInv <=> WorkerOK /\ FdOK /\ ChildOK /\ NumberOK /\ AwayOK
BY DEF TypeInv, TypeOK, ProcInv, AwayOK, WorkerOK, FdOK, ChildOK, NumberOK, Monitor, Process

LEMMA TypePartsNext == TypeInv' <=> (WorkerOK /\ FdOK /\ ChildOK /\ NumberOK /\ AwayOK)'
BY TypeParts, PTL

LEMMA InitType == ASSUME Init PROVE TypeInv
<1>1. WorkerOK
  <2>1. 1 \in DOMAIN Stages
    BY StagesType
  <2>2. rlimit \in BOOLEAN /\ wrapper \in BOOLEAN
    BY DEF Init
  <2>3. /\ pc = [w \in Worker |-> "idle"] /\ stage = [w \in Worker |-> 1]
        /\ report_r = [w \in Worker |-> 0] /\ verdict = [w \in Worker |-> ""]
        /\ refused = {}
    BY DEF Init
  <2>4. QED
    BY <2>1, <2>2, <2>3 DEF WorkerOK
<1>2. FdOK
  BY DEF Init, FdOK
<1>3. NoProc \in Process /\ [st |-> "off", on |-> None] \in Monitor
  BY DEF NoProc, Process, Hows, Monitor
<1>4. ChildOK
  <2>1. /\ late = [w \in Worker |-> 0] /\ flags = [w \in Worker |-> {}]
        /\ timer = [w \in Worker |-> "off"] /\ watcher = [w \in Worker |-> "off"]
        /\ mon = [r \in Run |-> [st |-> "off", on |-> None]]
        /\ proc = [w \in Worker |-> NoProc]
        /\ pipe = [w \in Worker |-> "empty"] /\ asked = [w \in Worker |-> FALSE]
    BY DEF Init
  <2>2. QED
    BY <1>3, <2>1 DEF ChildOK
<1>5. NumberOK
  BY DEF Init, NumberOK
<1>6. AwayOK
  BY DEF Init, AwayOK
<1>7. QED
  BY <1>1, <1>2, <1>4, <1>5, <1>6, TypeParts

\* The worker's own thread, and everybody else.
Others(w) ==
    \/ ChildStep(w) \/ GuardStep(w) \/ TimePasses(w) \/ Ask(w)
    \/ \E i \in DOMAIN Stages : MonStep(<<w, i>>)

LEMMA ActsAre ==
    ASSUME NEW w \in Worker, Acts(w)
    PROVE  \/ Cancelled(w) \/ Pipes(w) \/ PipeRefused(w) \/ Fork(w) \/ ForkFails(w)
           \/ Reap(w) \/ Stop(w) \/ Sweep(w) \/ Report(w) \/ Others(w)
BY DEF Acts, WorkerStep, Others

LEMMA OthersLeaveTheWorker ==
    ASSUME NEW w \in Worker, Others(w) PROVE workerUnchanged
<1>1. CASE ChildStep(w)
  BY <1>1 DEF ChildStep, Exec, Ends
<1>2. CASE GuardStep(w)
  BY <1>2 DEF GuardStep, TimerFires, TimerKills, WatcherSees, WatcherKills
<1>3. CASE TimePasses(w) \/ Ask(w)
  BY <1>3 DEF TimePasses, Ask
<1>4. CASE \E i \in DOMAIN Stages : MonStep(<<w, i>>)
  BY <1>4 DEF MonStep, MonReads, MonGets, MonSamples, MonKills
<1>5. QED
  BY <1>1, <1>2, <1>3, <1>4 DEF Others

Verdicts == {"", "AC", "WA", "TLE", "MLE", "RE", "OLE", "IE", "CE", "AB"}

LEMMA OutcomeType == ASSUME NEW w PROVE Outcome(w) \in Verdicts
<1>1. Verdict(w) \in Verdicts
  BY DEF Verdict, Verdicts
<1>2. QED
  BY <1>1 DEF Outcome, Verdicts

LEMMA NthType ==
    ASSUME NEW k \in Nat \ {0}, k <= Cardinality(Free) PROVE Nth(k) \in Number
<1>1. k \in 1..Cardinality(Free)
  BY FreeFinite
<1>2. QED
  BY <1>1, NthIsFree, FreeFinite

\* The worker's step either goes on with the same run, or to the next, or is its last.
LEMMA WorkerType == ASSUME TypeInv, NEW w \in Worker, Acts(w) PROVE WorkerOK'
<1> USE DEF WorkerOK
<1>0. WorkerOK
  BY TypeParts
<1>1. CASE Cancelled(w)
  <2>1. CASE Kind(w) = "warm" /\ stage[w] < Len(Stages)
    <3>1. /\ stage' = [stage EXCEPT ![w] = @ + 1] /\ pc' = [pc EXCEPT ![w] = "idle"]
          /\ UNCHANGED <<rlimit, wrapper, report_r, verdict, refused>>
      BY <1>1, <2>1 DEF Cancelled, NextStage
    <3>2. stage[w] + 1 \in DOMAIN Stages
      BY <1>0, <2>1, NextIsAStage
    <3>3. QED
      BY <1>0, <3>1, <3>2
  <2>2. CASE ~(Kind(w) = "warm" /\ stage[w] < Len(Stages))
    BY <1>0, <1>1, <2>2 DEF Cancelled
  <2>3. QED
    BY <2>1, <2>2
<1>2. CASE Pipes(w)
  <2>1. /\ pc' = [pc EXCEPT ![w] = "piped"]
        /\ UNCHANGED <<rlimit, wrapper, stage, verdict, refused>>
    BY <1>2 DEF Pipes
  <2>2. report_r' \in [Worker -> Number \cup {0}]
    <3>1. CASE Helper(w)
      <4>1. Cardinality(Free) >= 4 /\ report_r' = [report_r EXCEPT ![w] = Nth(1)]
        BY <1>2, <3>1, PipesOpen
      <4>2. Nth(1) \in Number
        BY <4>1, NthType, FreeFinite
      <4>3. QED
        BY <1>0, <4>1, <4>2
    <3>2. CASE ~Helper(w)
      <4>1. report_r' = [report_r EXCEPT ![w] = 0]
        BY <1>2, <3>2, PipesOpen
      <4>2. QED
        BY <1>0, <4>1
    <3>3. QED
      BY <3>1, <3>2
  <2>3. QED
    BY <1>0, <2>1, <2>2
<1>3. CASE Fork(w)
  <2>1. /\ pc' = [pc EXCEPT ![w] = "waiting"]
        /\ UNCHANGED <<rlimit, wrapper, stage, report_r, verdict, refused>>
    BY <1>3 DEF Fork
  <2>2. QED
    BY <1>0, <2>1
<1>4. CASE ForkFails(w)
  <2>1. /\ pc' = [pc EXCEPT ![w] = "swept"] /\ report_r' = [report_r EXCEPT ![w] = 0]
        /\ refused' = refused \cup {Current(w)}
        /\ UNCHANGED <<rlimit, wrapper, stage, verdict>>
    BY <1>4 DEF ForkFails
  <2>2. Current(w) \in Run
    BY <1>0, CurrentType
  <2>3. QED
    BY <1>0, <2>1, <2>2
<1>5. CASE Reap(w) \/ Stop(w) \/ Sweep(w)
  <2>1. PICK place \in {"reaped", "stopped", "swept"} : pc' = [pc EXCEPT ![w] = place]
    BY <1>5 DEF Reap, Stop, Sweep
  <2>2. UNCHANGED <<rlimit, wrapper, stage, report_r, verdict, refused>>
    BY <1>5 DEF Reap, Stop, Sweep
  <2>3. QED
    BY <1>0, <2>1, <2>2
<1>6. CASE Report(w)
  <2>1. report_r' = [report_r EXCEPT ![w] = 0] /\ UNCHANGED <<rlimit, wrapper, refused>>
    BY <1>6 DEF Report
  <2>2. CASE Outcome(w) = "" /\ stage[w] < Len(Stages)
    <3>1. /\ stage' = [stage EXCEPT ![w] = @ + 1] /\ pc' = [pc EXCEPT ![w] = "idle"]
          /\ UNCHANGED verdict
      BY <1>6, <2>2 DEF Report, NextStage
    <3>2. stage[w] + 1 \in DOMAIN Stages
      BY <1>0, <2>2, NextIsAStage
    <3>3. QED
      BY <1>0, <2>1, <3>1, <3>2
  <2>3. CASE ~(Outcome(w) = "" /\ stage[w] < Len(Stages))
    <3>1. /\ verdict' = [verdict EXCEPT ![w] = Outcome(w)]
          /\ pc' = [pc EXCEPT ![w] = "over"] /\ UNCHANGED stage
      BY <1>6, <2>3 DEF Report
    <3>2. Outcome(w) \in Verdicts
      BY OutcomeType
    <3>3. QED
      BY <1>0, <2>1, <3>1, <3>2 DEF Verdicts
  <2>4. QED
    BY <2>2, <2>3
<1>7. CASE PipeRefused(w)
  <2>1. /\ refused' = refused \cup {Current(w)}
        /\ UNCHANGED <<rlimit, wrapper, report_r>>
    BY <1>7 DEF PipeRefused
  <2>2. Current(w) \in Run
    BY <1>0, CurrentType
  <2>3. CASE NextStage(w) /\ UNCHANGED verdict /\ stage[w] < Len(Stages)
    <3>1. stage' = [stage EXCEPT ![w] = @ + 1] /\ pc' = [pc EXCEPT ![w] = "idle"]
      BY <2>3 DEF NextStage
    <3>2. stage[w] + 1 \in DOMAIN Stages
      BY <1>0, <2>3, NextIsAStage
    <3>3. QED
      BY <1>0, <2>1, <2>2, <2>3, <3>1, <3>2
  <2>4. CASE ~(NextStage(w) /\ UNCHANGED verdict /\ stage[w] < Len(Stages))
    <3>1. /\ verdict' = [verdict EXCEPT ![w] = "IE"] \/ verdict' = [verdict EXCEPT ![w] = ""]
          /\ pc' = [pc EXCEPT ![w] = "over"] /\ UNCHANGED stage
      BY <1>7, <2>4 DEF PipeRefused
    <3>2. QED
      BY <1>0, <2>1, <2>2, <3>1
  <2>5. QED
    BY <2>3, <2>4
<1>8. CASE Others(w)
  BY <1>0, <1>8, OthersLeaveTheWorker
<1>9. QED
  BY <1>1, <1>2, <1>3, <1>4, <1>5, <1>6, <1>7, <1>8, ActsAre

LEMMA FdType == ASSUME TypeInv, NEW w \in Worker, Acts(w) PROVE FdOK'
<1>0. FdOK
  BY TypeParts
<1>1. CASE UNCHANGED <<fd, exec_r>>
  BY <1>0, <1>1 DEF FdOK
<1>2. CASE Pipes(w)
  <2> DEFINE r == Current(w)
             ends4 == <<<<r, "report_r">>, <<r, "report_w">>, <<r, "exec_r">>, <<r, "exec_w">>>>
             ends2 == <<<<r, "exec_r">>, <<r, "exec_w">>>>
  <2>1. r \in Run
    BY TypeParts, CurrentType DEF WorkerOK
  <2>2. /\ DOMAIN ends4 = 1..4 /\ Len(ends4) = 4 /\ \A k \in 1..4 : ends4[k] \in End
        /\ DOMAIN ends2 = 1..2 /\ Len(ends2) = 2 /\ \A k \in 1..2 : ends2[k] \in End
    BY <2>1 DEF End
  <2> HIDE DEF ends4, ends2
  <2>3. CASE Helper(w)
    <3>1. /\ Cardinality(Free) >= 4 /\ fd' = Opened(ends4)
          /\ exec_r' = [exec_r EXCEPT ![r] = Nth(3)]
      BY <1>2, <2>3, PipesOpen DEF ends4
    <3>2. Nth(3) \in Number
      BY <3>1, NthType, FreeFinite
    <3>3. \A n \in Free : Rank(n) <= 4 => ends4[Rank(n)] \in End
      BY <2>2, RankType, FreeFinite
    <3>4. fd' \in [Number -> End \cup {None}]
      BY <1>0, <2>2, <3>1, <3>3 DEF Opened, FdOK
    <3>5. QED
      BY <1>0, <2>1, <3>1, <3>2, <3>4 DEF FdOK
  <2>4. CASE ~Helper(w)
    <3>1. /\ Cardinality(Free) >= 2 /\ fd' = Opened(ends2)
          /\ exec_r' = [exec_r EXCEPT ![r] = Nth(1)]
      BY <1>2, <2>4, PipesOpen DEF ends2
    <3>2. Nth(1) \in Number
      BY <3>1, NthType, FreeFinite
    <3>3. \A n \in Free : Rank(n) <= 2 => ends2[Rank(n)] \in End
      BY <2>2, RankType, FreeFinite
    <3>4. fd' \in [Number -> End \cup {None}]
      BY <1>0, <2>2, <3>1, <3>3 DEF Opened, FdOK
    <3>5. QED
      BY <1>0, <2>1, <3>1, <3>2, <3>4 DEF FdOK
  <2>5. QED
    BY <2>3, <2>4
<1>3. CASE Fork(w) \/ Stop(w)
  <2>1. PICK ends : fd' = Without(ends) /\ UNCHANGED exec_r
    BY <1>3 DEF Fork, Stop
  <2>2. QED
    BY <1>0, <2>1 DEF FdOK, Without
<1>4. CASE Report(w)
  BY <1>0, <1>4 DEF Report, FdOK
<1>5. CASE Cancelled(w) \/ ForkFails(w) \/ Reap(w) \/ Sweep(w)
  <2>1. UNCHANGED <<fd, exec_r>>
    BY <1>5 DEF Cancelled, ForkFails, Reap, Sweep
  <2>2. QED
    BY <2>1, <1>1
<1>6. CASE PipeRefused(w)
  <2>1. UNCHANGED exec_r /\ (UNCHANGED fd \/ fd' = Opened(ReportPipe(w)))
    BY <1>6 DEF PipeRefused
  <2>2. \A k \in 1..Len(ReportPipe(w)) : ReportPipe(w)[k] \in End
    <3>1. Current(w) \in Run
      BY TypeParts, CurrentType DEF WorkerOK
    <3>2. QED
      BY <3>1 DEF ReportPipe, End
  <2>3. \A n \in Free : Rank(n) \in Nat \ {0}
    BY RankType, FreeFinite
  <2>4. Len(ReportPipe(w)) \in Nat
    BY DEF ReportPipe
  <2>5. CASE fd' = Opened(ReportPipe(w))
    <3> HIDE DEF ReportPipe
    <3>1. fd' \in [Number -> End \cup {None}]
      BY <1>0, <2>2, <2>3, <2>4, <2>5 DEF Opened, FdOK
    <3>2. QED
      BY <1>0, <2>1, <3>1 DEF FdOK
  <2>6. QED
    BY <1>1, <2>1, <2>5
<1>7. CASE Others(w)
  BY <1>1, <1>7, OthersLeaveTheWorker
<1>8. QED
  BY <1>2, <1>3, <1>4, <1>5, <1>6, <1>7, ActsAre

LEMMA NumberType == ASSUME TypeInv, NEW w \in Worker, Acts(w) PROVE NumberOK'
<1>0. WorkerOK /\ FdOK /\ ChildOK /\ NumberOK
  BY TypeParts
<1>1. ASSUME UNCHANGED exec_r,
             \A v \in Worker : pc'[v] = "piped" => pc[v] = "piped" /\ stage'[v] = stage[v],
             \A r \in Run : mon'[r].st = "start"
                => mon[r].st = "start" \/ \E v \in Worker : pc[v] = "piped" /\ r = Current(v)
      PROVE  NumberOK'
  BY <1>0, <1>1 DEF NumberOK, Current
<1>2. CASE Pipes(w)
  <2>1. PICK n \in Number : exec_r' = [exec_r EXCEPT ![Current(w)] = n]
    <3>1. CASE Helper(w)
      <4>1. Cardinality(Free) >= 4 /\ exec_r' = [exec_r EXCEPT ![Current(w)] = Nth(3)]
        BY <1>2, <3>1, PipesOpen
      <4>2. Nth(3) \in Number
        BY <4>1, NthType, FreeFinite
      <4>3. QED
        BY <4>1, <4>2
    <3>2. CASE ~Helper(w)
      <4>1. Cardinality(Free) >= 2 /\ exec_r' = [exec_r EXCEPT ![Current(w)] = Nth(1)]
        BY <1>2, <3>2, PipesOpen
      <4>2. Nth(1) \in Number
        BY <4>1, NthType, FreeFinite
      <4>3. QED
        BY <4>1, <4>2
    <3>3. QED
      BY <3>1, <3>2
  <2>2. /\ pc' = [pc EXCEPT ![w] = "piped"] /\ UNCHANGED <<stage, mon>>
    BY <1>2 DEF Pipes
  <2>3. \A v \in Worker : Current(v) \in Run
    BY <1>0, CurrentType DEF WorkerOK
  <2>4. QED
    BY <1>0, <2>1, <2>2, <2>3 DEF NumberOK, FdOK, WorkerOK, Current
<1>3. CASE Fork(w)
  <2>1. /\ pc[w] = "piped" /\ pc' = [pc EXCEPT ![w] = "waiting"]
        /\ mon' = [mon EXCEPT ![Current(w)].st = "start"] /\ UNCHANGED <<stage, exec_r>>
    BY <1>3 DEF Fork
  <2>2. Current(w) \in Run
    BY <1>0, CurrentType DEF WorkerOK
  <2>3. \A r \in Run : r # Current(w) => mon'[r] = mon[r]
    BY <1>0, <2>1 DEF ChildOK
  <2>4. QED
    BY <1>0, <1>1, <2>1, <2>3 DEF WorkerOK
<1>4. CASE Cancelled(w) \/ PipeRefused(w) \/ ForkFails(w) \/ Reap(w) \/ Stop(w) \/ Sweep(w)
             \/ Report(w)
  <2>1. UNCHANGED <<exec_r, mon>>
    BY <1>4 DEF Cancelled, PipeRefused, ForkFails, Reap, Stop, Sweep, Report
  <2>2. PICK place : pc' = [pc EXCEPT ![w] = place] /\ place # "piped"
    <3>1. CASE Cancelled(w) \/ PipeRefused(w) \/ Report(w)
      <4>1. pc' = [pc EXCEPT ![w] = "idle"] \/ pc' = [pc EXCEPT ![w] = "over"]
        BY <3>1 DEF Cancelled, PipeRefused, Report, NextStage
      <4>2. QED
        BY <4>1
    <3>2. CASE ForkFails(w) \/ Reap(w) \/ Stop(w) \/ Sweep(w)
      <4>1. \/ pc' = [pc EXCEPT ![w] = "swept"] \/ pc' = [pc EXCEPT ![w] = "reaped"]
            \/ pc' = [pc EXCEPT ![w] = "stopped"]
        BY <3>2 DEF ForkFails, Reap, Stop, Sweep
      <4>2. QED
        BY <4>1
    <3>3. QED
      BY <1>4, <3>1, <3>2
  <2>3. \A v \in Worker : v # w => stage'[v] = stage[v]
    BY <1>0, <1>4 DEF Cancelled, PipeRefused, ForkFails, Reap, Stop, Sweep, Report, NextStage,
                      WorkerOK
  <2>4. \A v \in Worker : pc'[v] = "piped" => v # w /\ pc[v] = "piped"
    BY <1>0, <2>2 DEF WorkerOK
  <2>5. QED
    BY <1>1, <2>1, <2>3, <2>4
<1>5. CASE Others(w)
  <2>1. workerUnchanged
    BY <1>5, OthersLeaveTheWorker
  <2>2. CASE UNCHANGED mon
    BY <1>1, <2>1, <2>2
  <2>3. CASE \E i \in DOMAIN Stages : MonStep(<<w, i>>)
    <3>1. PICK i \in DOMAIN Stages : MonStep(<<w, i>>)
      BY <2>3
    <3> DEFINE r == <<w, i>>
    <3>2. r \in Run
      BY DEF Run
    <3>3. \A q \in Run : q # r => mon'[q] = mon[q]
      BY <1>0, <3>1 DEF MonStep, MonReads, MonGets, MonSamples, MonKills, ChildOK
    <3>4. mon'[r] = mon[r] \/ mon'[r].st # "start"
      <4>1. mon[r] \in Monitor
        BY <1>0, <3>2 DEF ChildOK
      <4>2. QED
        BY <1>0, <3>1, <3>2, <4>1
        DEF MonStep, MonReads, MonGets, MonSamples, MonKills, ChildOK, Sampling, Monitor
    <3>5. QED
      BY <1>1, <2>1, <3>3, <3>4
  <2>4. CASE ~\E i \in DOMAIN Stages : MonStep(<<w, i>>)
    <3>1. UNCHANGED mon
      BY <1>5, <2>4 DEF Others, ChildStep, Exec, Ends, GuardStep, TimerFires, TimerKills,
                         WatcherSees, WatcherKills, TimePasses, Ask
    <3>2. QED
      BY <2>2, <3>1
  <2>5. QED
    BY <2>3, <2>4
<1>6. QED
  BY <1>2, <1>3, <1>4, <1>5, ActsAre

\* A program ends only as a program of its kind can.
LEMMA EndsByType == ASSUME NEW w PROVE EndsBy(w) \subseteq Hows
BY DEF EndsBy, Hows

\* What a step makes of the record of one child.
LEMMA ProcType == ASSUME TypeInv, NEW w \in Worker, Acts(w) PROVE proc' \in [Worker -> Process]
<1>0. proc \in [Worker -> Process] /\ proc[w] \in Process
  BY TypeParts DEF ChildOK
<1>1. \A p \in Process : [proc EXCEPT ![w] = p] \in [Worker -> Process]
  BY <1>0
<1>2. NoProc \in Process
  BY DEF NoProc, Process, Hows
<1>3. CASE Fork(w)
  <2>1. PICK prog \in Programs[Kind(w)] :
          proc' = [proc EXCEPT ![w] = [NoProc EXCEPT !.st = "forked", !.prog = prog,
                                                     !.copies = Range(fd) \cap WriteEnds]]
    BY <1>3 DEF Fork
  <2>2. Kind(w) \in Kinds
    BY TypeParts, CurrentType DEF WorkerOK
  <2>3. prog \in Progs
    BY <2>1, <2>2 DEF Kinds, Progs
  <2>4. [NoProc EXCEPT !.st = "forked", !.prog = prog,
                       !.copies = Range(fd) \cap WriteEnds] \in Process
    BY <1>2, <2>3 DEF Process
  <2>5. QED
    BY <1>1, <2>1, <2>4
<1>4. CASE ForkFails(w)
  <2>1. [proc[w] EXCEPT !.st = "reaped", !.how = "no fork"] \in Process
    BY <1>0 DEF Process, Hows
  <2>2. proc' = [proc EXCEPT ![w] = [proc[w] EXCEPT !.st = "reaped", !.how = "no fork"]]
    BY <1>4 DEF ForkFails
  <2>3. QED
    BY <1>1, <2>1, <2>2
<1>5. CASE Reap(w)
  <2>1. [proc[w] EXCEPT !.st = "reaped"] \in Process
    BY <1>0 DEF Process
  <2>2. proc' = [proc EXCEPT ![w] = [proc[w] EXCEPT !.st = "reaped"]]
    BY <1>5 DEF Reap
  <2>3. QED
    BY <1>1, <2>1, <2>2
<1>6. CASE Exec(w)
  <2>1. [proc[w] EXCEPT !.st = "running", !.copies = {}] \in Process
    BY <1>0 DEF Process
  <2>2. proc' = [proc EXCEPT ![w] = [proc[w] EXCEPT !.st = "running", !.copies = {}]]
    BY <1>6 DEF Exec
  <2>3. QED
    BY <1>1, <2>1, <2>2
<1>7. CASE Ends(w)
  <2>1. PICK how \in EndsBy(w), left \in BOOLEAN :
          proc' = [proc EXCEPT ![w].st = "dead", ![w].how = how, ![w].left = left]
    BY <1>7 DEF Ends
  <2>2. [proc[w] EXCEPT !.st = "dead", !.how = how, !.left = left] \in Process
    BY <1>0, EndsByType DEF Process
  <2>3. proc' = [proc EXCEPT ![w] =
                   [proc[w] EXCEPT !.st = "dead", !.how = how, !.left = left]]
    BY <2>1
  <2>4. QED
    BY <1>1, <2>2, <2>3
<1>8. CASE proc' = Killed(w) \/ UNCHANGED proc \/ proc' = [proc EXCEPT ![w] = NoProc]
  BY <1>0, <1>2, <1>8, KillType
<1>9. CASE Cancelled(w) \/ PipeRefused(w) \/ Report(w)
  BY <1>8, <1>9 DEF Cancelled, PipeRefused, Report, NextStage
<1>10. CASE Pipes(w) \/ Stop(w) \/ Sweep(w)
  BY <1>8, <1>10 DEF Pipes, Stop, Sweep
<1>11. CASE GuardStep(w) \/ TimePasses(w) \/ Ask(w)
  BY <1>8, <1>11 DEF GuardStep, TimerFires, TimerKills, WatcherSees, WatcherKills, TimePasses,
                     Ask
<1>12. CASE \E i \in DOMAIN Stages : MonStep(<<w, i>>)
  BY <1>8, <1>12 DEF MonStep, MonReads, MonGets, MonSamples, MonKills
<1>13. QED
  BY <1>3, <1>4, <1>5, <1>6, <1>7, <1>9, <1>10, <1>11, <1>12, ActsAre DEF Others, ChildStep

\* What a monitor's step makes of its own record.
LEMMA MonType == ASSUME TypeInv, NEW w \in Worker, Acts(w) PROVE mon' \in [Run -> Monitor]
<1>0. mon \in [Run -> Monitor] /\ fd \in [Number -> End \cup {None}]
      /\ \A r \in Run : mon[r].st = "start" => exec_r[r] \in Number
  BY TypeParts DEF ChildOK, FdOK, NumberOK
<1>1. \A r \in Run : \A m \in Monitor : [mon EXCEPT ![r] = m] \in [Run -> Monitor]
  BY <1>0
<1>2. \A r \in Run : Sampling(r) \in Monitor
  BY DEF Sampling, Monitor
<1>3. CASE Fork(w)
  <2>1. Current(w) \in Run
    BY TypeParts, CurrentType DEF WorkerOK
  <2>2. mon[Current(w)] \in Monitor
    BY <1>0, <2>1
  <2>3. [mon[Current(w)] EXCEPT !.st = "start"] \in Monitor
    BY <2>2 DEF Monitor
  <2>4. mon' = [mon EXCEPT ![Current(w)] = [mon[Current(w)] EXCEPT !.st = "start"]]
    BY <1>3 DEF Fork
  <2>5. QED
    BY <1>1, <2>1, <2>3, <2>4
<1>4. CASE \E i \in DOMAIN Stages : MonStep(<<w, i>>)
  <2>1. PICK i \in DOMAIN Stages : MonStep(<<w, i>>)
    BY <1>4
  <2>2. PICK r \in Run : r = <<w, i>>
    BY DEF Run
  <2>3. mon[r] \in Monitor
    BY <1>0
  <2>4. CASE MonReads(r)
    <3>1. mon[r].st = "start" /\ exec_r[r] \in Number
      BY <1>0, <2>4 DEF MonReads
    <3>2. fd[exec_r[r]] \in End \cup {None}
      BY <1>0, <3>1
    <3>3. \/ mon' = [mon EXCEPT ![r] = Sampling(r)]
          \/ /\ fd[exec_r[r]] # None
             /\ mon' = [mon EXCEPT ![r] = [st |-> "reading", on |-> fd[exec_r[r]]]]
      BY <2>4, <3>1 DEF MonReads
    <3>4. [st |-> "reading", on |-> fd[exec_r[r]]] \in Monitor
      BY <3>2 DEF Monitor
    <3>5. QED
      BY <1>1, <1>2, <3>3, <3>4
  <2>5. CASE MonGets(r)
    <3>1. mon' = mon \/ mon' = [mon EXCEPT ![r] = Sampling(r)]
      BY <2>5 DEF MonGets
    <3>2. QED
      BY <1>0, <1>1, <1>2, <3>1
  <2>6. CASE MonSamples(r) \/ MonKills(r)
    <3>1. PICK place \in {"ended", "mid"} :
            mon' = [mon EXCEPT ![r] = [mon[r] EXCEPT !.st = place]]
      BY <2>6 DEF MonSamples, MonKills
    <3>2. [mon[r] EXCEPT !.st = place] \in Monitor
      BY <2>3 DEF Monitor
    <3>3. QED
      BY <1>1, <3>1, <3>2
  <2>7. QED
    BY <2>1, <2>2, <2>4, <2>5, <2>6 DEF MonStep
<1>5. CASE Cancelled(w) \/ Pipes(w) \/ PipeRefused(w) \/ ForkFails(w) \/ Reap(w)
  BY <1>0, <1>5 DEF Cancelled, Pipes, PipeRefused, ForkFails, Reap
<1>6. CASE Stop(w) \/ Sweep(w) \/ Report(w)
  BY <1>0, <1>6 DEF Stop, Sweep, Report
<1>7. CASE ChildStep(w) \/ GuardStep(w) \/ TimePasses(w) \/ Ask(w)
  BY <1>0, <1>7 DEF ChildStep, Exec, Ends, GuardStep, TimerFires, TimerKills, WatcherSees,
                    WatcherKills, TimePasses, Ask
<1>8. QED
  BY <1>3, <1>4, <1>5, <1>6, <1>7, ActsAre DEF Others

\* The clock and the flags a run's threads set.
LEMMA FlagType ==
    ASSUME TypeInv, NEW w \in Worker, Acts(w)
    PROVE  /\ late' \in [Worker -> 0..2]
           /\ flags' \in [Worker -> SUBSET {"timed_out", "aborted", "exceeded"}]
           /\ timer' \in [Worker -> {"off", "on", "mid", "ended"}]
           /\ watcher' \in [Worker -> {"off", "on", "mid", "ended"}]
           /\ asked' \in [Worker -> BOOLEAN]
           /\ pipe' \in [Worker -> {"empty", "written", "stolen"}]
<1> DEFINE G == /\ late' \in [Worker -> 0..2]
                /\ flags' \in [Worker -> SUBSET {"timed_out", "aborted", "exceeded"}]
                /\ timer' \in [Worker -> {"off", "on", "mid", "ended"}]
                /\ watcher' \in [Worker -> {"off", "on", "mid", "ended"}]
                /\ asked' \in [Worker -> BOOLEAN]
                /\ pipe' \in [Worker -> {"empty", "written", "stolen"}]
<1>0. /\ late \in [Worker -> 0..2]
      /\ flags \in [Worker -> SUBSET {"timed_out", "aborted", "exceeded"}]
      /\ timer \in [Worker -> {"off", "on", "mid", "ended"}]
      /\ watcher \in [Worker -> {"off", "on", "mid", "ended"}]
      /\ asked \in [Worker -> BOOLEAN]
      /\ pipe \in [Worker -> {"empty", "written", "stolen"}]
  BY TypeParts DEF ChildOK
<1>1. CASE NextStage(w) /\ UNCHANGED asked
  BY <1>0, <1>1 DEF NextStage
<1>2. CASE UNCHANGED <<late, flags, timer, watcher, asked, pipe>>
  BY <1>0, <1>2
<1>3. CASE Cancelled(w)
  <2>1. NextStage(w) \/ UNCHANGED <<late, flags, timer, watcher, pipe>>
    BY <1>3 DEF Cancelled
  <2>2. UNCHANGED asked
    BY <1>3 DEF Cancelled
  <2>3. QED
    BY <1>1, <1>2, <2>1, <2>2
<1>4. CASE PipeRefused(w) \/ Report(w)
  <2>1. NextStage(w) \/ UNCHANGED <<late, flags, timer, watcher, pipe>>
    BY <1>4 DEF PipeRefused, Report
  <2>2. UNCHANGED asked
    BY <1>4 DEF PipeRefused, Report
  <2>3. QED
    BY <1>1, <1>2, <2>1, <2>2
<1>5. CASE Fork(w)
  <2>1. /\ timer' = [timer EXCEPT ![w] = "on"] /\ watcher' = [watcher EXCEPT ![w] = "on"]
        /\ UNCHANGED <<late, flags, asked, pipe>>
    BY <1>5 DEF Fork
  <2>2. QED
    BY <1>0, <2>1
<1>6. CASE Stop(w)
  <2>1. /\ timer' = [timer EXCEPT ![w] = IF @ = "on" THEN "ended" ELSE @]
        /\ watcher' = [watcher EXCEPT ![w] = "ended"]
        /\ UNCHANGED <<late, flags, asked, pipe>>
    BY <1>6 DEF Stop
  <2>2. QED
    BY <1>0, <2>1
<1>7. CASE Pipes(w) \/ ForkFails(w) \/ Reap(w) \/ Sweep(w)
  <2>1. UNCHANGED <<late, flags, timer, watcher, asked, pipe>>
    BY <1>7 DEF Pipes, ForkFails, Reap, Sweep
  <2>2. QED
    BY <1>2, <2>1
<1>8. CASE ChildStep(w)
  <2>1. /\ pipe' = pipe \/ pipe' = [pipe EXCEPT ![w] = IF Helper(w) THEN "written" ELSE @]
        /\ UNCHANGED <<late, flags, timer, watcher, asked>>
    BY <1>8 DEF ChildStep, Exec, Ends
  <2>2. QED
    BY <1>0, <2>1
<1>9. CASE GuardStep(w)
  <2>1. UNCHANGED <<late, asked, pipe>>
    BY <1>9 DEF GuardStep, TimerFires, TimerKills, WatcherSees, WatcherKills
  <2>2. flags' \in [Worker -> SUBSET {"timed_out", "aborted", "exceeded"}]
    <3>1. \/ flags' = flags \/ flags' = [flags EXCEPT ![w] = @ \cup {"timed_out"}]
          \/ flags' = [flags EXCEPT ![w] = @ \cup {"aborted"}]
      BY <1>9 DEF GuardStep, TimerFires, TimerKills, WatcherSees, WatcherKills
    <3>2. QED
      BY <1>0, <3>1
  <2>3. timer' \in [Worker -> {"off", "on", "mid", "ended"}]
    <3>1. \/ timer' = timer \/ timer' = [timer EXCEPT ![w] = "mid"]
          \/ timer' = [timer EXCEPT ![w] = "ended"]
      BY <1>9 DEF GuardStep, TimerFires, TimerKills, WatcherSees, WatcherKills
    <3>2. QED
      BY <1>0, <3>1
  <2>4. watcher' \in [Worker -> {"off", "on", "mid", "ended"}]
    <3>1. \/ watcher' = watcher \/ watcher' = [watcher EXCEPT ![w] = "mid"]
          \/ watcher' = [watcher EXCEPT ![w] = "ended"]
      BY <1>9 DEF GuardStep, TimerFires, TimerKills, WatcherSees, WatcherKills
    <3>2. QED
      BY <1>0, <3>1
  <2>5. QED
    BY <1>0, <2>1, <2>2, <2>3, <2>4
<1>10. CASE TimePasses(w)
  <2>1. /\ late[w] < 2 /\ late' = [late EXCEPT ![w] = @ + 1]
        /\ UNCHANGED <<flags, timer, watcher, asked, pipe>>
    BY <1>10 DEF TimePasses
  <2>2. late[w] + 1 \in 0..2
    BY <1>0, <2>1
  <2>3. QED
    BY <1>0, <2>1, <2>2
<1>11. CASE Ask(w)
  <2>1. /\ asked' = [asked EXCEPT ![w] = TRUE]
        /\ UNCHANGED <<late, flags, timer, watcher, pipe>>
    BY <1>11 DEF Ask
  <2>2. QED
    BY <1>0, <2>1
<1>12. CASE \E i \in DOMAIN Stages : MonStep(<<w, i>>)
  <2>1. UNCHANGED <<late, timer, watcher, asked>>
    BY <1>12 DEF MonStep, MonReads, MonGets, MonSamples, MonKills
  <2>2. flags' = flags \/ flags' = [flags EXCEPT ![w] = @ \cup {"exceeded"}]
    <3>1. PICK i \in DOMAIN Stages : MonStep(<<w, i>>)
      BY <1>12
    <3>2. CASE MonSamples(<<w, i>>)
      <4>1. flags' = [flags EXCEPT ![w] =
                        IF Done(<<w, i>>) THEN @ ELSE @ \cup {"exceeded"}]
        BY <3>2 DEF MonSamples
      <4>2. QED
        BY <1>0, <4>1
    <3>3. CASE ~MonSamples(<<w, i>>)
      BY <3>1, <3>3 DEF MonStep, MonReads, MonGets, MonKills
    <3>4. QED
      BY <3>2, <3>3
  <2>3. pipe' = pipe \/ \E x : pipe' = [pipe EXCEPT ![x] = "stolen"]
    BY <1>12 DEF MonStep, MonReads, MonGets, MonSamples, MonKills
  <2>4. QED
    BY <1>0, <2>1, <2>2, <2>3
<1>13. QED
  BY <1>3, <1>4, <1>5, <1>6, <1>7, <1>8, <1>9, <1>10, <1>11, <1>12, ActsAre DEF Others

LEMMA StepType == ASSUME TypeInv, NEW w \in Worker, Acts(w) PROVE TypeInv'
<1>1. ChildOK'
  BY ProcType, MonType, FlagType DEF ChildOK
<1>2. UNCHANGED away
  <2>1. CASE Others(w)
    BY <2>1, OthersLeaveTheWorker
  <2>2. CASE ~Others(w)
    BY <2>2, ActsAre DEF Cancelled, Pipes, PipeRefused, Fork, ForkFails, Reap, Stop, Sweep, Report
  <2>3. QED
    BY <2>1, <2>2
<1>3. AwayOK'
  BY <1>2, TypeParts DEF AwayOK, Run
<1>4. QED
  BY <1>1, <1>3, WorkerType, FdType, NumberType, TypePartsNext

LEMMA RoamType == ASSUME TypeInv, Roams PROVE TypeInv'
<1>1. AwayOK'
  <2>1. AwayOK /\ WorkerOK
    BY TypeParts
  <2>2. CASE \E r \in Run : Departs(r)
    BY <2>1, <2>2 DEF AwayOK, Departs, Run
  <2>3. CASE \E w \in Worker : Leaves(w)
    <3>1. PICK w \in Worker : Leaves(w)
      BY <2>3
    <3>2. Current(w) \in Run
      BY <2>1, CurrentType DEF WorkerOK
    <3>3. QED
      BY <2>1, <3>1, <3>2 DEF AwayOK, Leaves, Run
  <2>4. QED
    BY <2>2, <2>3 DEF Roams
<1>2. (WorkerOK /\ FdOK /\ ChildOK /\ NumberOK)'
  <2>1. WorkerOK /\ FdOK /\ ChildOK /\ NumberOK
    BY TypeParts
  <2>2. UNCHANGED restVars
    BY DEF Roams
  <2>3. QED
    BY <2>1, <2>2 DEF restVars, WorkerOK, FdOK, ChildOK, NumberOK, Current
<1>3. QED
  BY <1>1, <1>2, TypePartsNext

\* TypeOK holds of every behaviour, whatever the programs do and however many runs there
\* are; in particular a monitor never reads a number outside the table.
THEOREM SandboxTyped == Spec => []TypeOK
<1>1. Init => TypeInv
  BY InitType
<1>2. TypeInv /\ [Next]_vars => TypeInv'
  <2>1. CASE UNCHANGED vars
    BY <2>1 DEF TypeInv, TypeOK, ProcInv, Current
  <2>2. CASE Next
    BY <2>2, SomebodyActs, StepType, RoamType
  <2>3. QED
    BY <2>1, <2>2
<1>3. TypeInv => TypeOK
  BY DEF TypeInv
<1>4. QED
  BY <1>1, <1>2, <1>3, PTL DEF Spec

(***************************************************************************)
(* Workers do not touch each other's runs, but for the descriptors.        *)
(***************************************************************************)
LEMMA EachToItsOwn ==
    ASSUME TypeInv, NEW w \in Worker, Acts(w), NEW v \in Worker, v # w
    PROVE  /\ pc'[v] = pc[v] /\ stage'[v] = stage[v] /\ verdict'[v] = verdict[v]
           /\ report_r'[v] = report_r[v] /\ proc'[v] = proc[v] /\ late'[v] = late[v]
           /\ flags'[v] = flags[v] /\ timer'[v] = timer[v] /\ watcher'[v] = watcher[v]
           /\ asked'[v] = asked[v] /\ Current(v)' = Current(v)
           /\ \A i \in DOMAIN Stages : mon'[<<v, i>>] = mon[<<v, i>>]
<1>0. WorkerOK /\ ChildOK
  BY TypeParts
<1>1. /\ pc'[v] = pc[v] /\ stage'[v] = stage[v] /\ verdict'[v] = verdict[v]
      /\ report_r'[v] = report_r[v]
  <2>1. CASE Cancelled(w) \/ PipeRefused(w) \/ Report(w)
    BY <1>0, <2>1 DEF Cancelled, PipeRefused, Report, NextStage, WorkerOK
  <2>2. CASE Pipes(w) \/ Fork(w) \/ ForkFails(w)
    BY <1>0, <2>2 DEF Pipes, Fork, ForkFails, WorkerOK
  <2>3. CASE Reap(w) \/ Stop(w) \/ Sweep(w)
    BY <1>0, <2>3 DEF Reap, Stop, Sweep, WorkerOK
  <2>4. CASE Others(w)
    BY <2>4, OthersLeaveTheWorker
  <2>5. QED
    BY <2>1, <2>2, <2>3, <2>4, ActsAre
<1>2. proc'[v] = proc[v]
  <2>0. Killed(w)[v] = proc[v]
    BY <1>0, KillType DEF ChildOK
  <2>1. CASE Cancelled(w) \/ PipeRefused(w) \/ Report(w) \/ Pipes(w)
    BY <1>0, <2>1 DEF Cancelled, PipeRefused, Report, NextStage, Pipes, ChildOK
  <2>2. CASE Fork(w) \/ ForkFails(w) \/ Reap(w)
    BY <1>0, <2>2 DEF Fork, ForkFails, Reap, ChildOK
  <2>3. CASE Stop(w) \/ Sweep(w) \/ GuardStep(w) \/ TimePasses(w) \/ Ask(w)
    BY <2>0, <2>3 DEF Stop, Sweep, GuardStep, TimerFires, TimerKills, WatcherSees, WatcherKills,
                      TimePasses, Ask
  <2>4. CASE ChildStep(w)
    BY <1>0, <2>4 DEF ChildStep, Exec, Ends, ChildOK
  <2>5. CASE \E i \in DOMAIN Stages : MonStep(<<w, i>>)
    BY <2>0, <2>5 DEF MonStep, MonReads, MonGets, MonSamples, MonKills
  <2>6. QED
    BY <2>1, <2>2, <2>3, <2>4, <2>5, ActsAre DEF Others
<1>3. /\ late'[v] = late[v] /\ flags'[v] = flags[v] /\ timer'[v] = timer[v]
      /\ watcher'[v] = watcher[v] /\ asked'[v] = asked[v]
  <2>1. CASE Cancelled(w) \/ PipeRefused(w) \/ Report(w)
    BY <1>0, <2>1 DEF Cancelled, PipeRefused, Report, NextStage, ChildOK
  <2>2. CASE Pipes(w) \/ Fork(w) \/ ForkFails(w) \/ Reap(w)
    BY <1>0, <2>2 DEF Pipes, Fork, ForkFails, Reap, ChildOK
  <2>3. CASE Stop(w) \/ Sweep(w) \/ ChildStep(w)
    BY <1>0, <2>3 DEF Stop, Sweep, ChildStep, Exec, Ends, ChildOK
  <2>4. CASE GuardStep(w)
    BY <1>0, <2>4 DEF GuardStep, TimerFires, TimerKills, WatcherSees, WatcherKills, ChildOK
  <2>5. CASE TimePasses(w) \/ Ask(w)
    BY <1>0, <2>5 DEF TimePasses, Ask, ChildOK
  <2>6. CASE \E i \in DOMAIN Stages : MonStep(<<w, i>>)
    <3>1. PICK i \in DOMAIN Stages : MonStep(<<w, i>>)
      BY <2>6
    <3>2. UNCHANGED <<late, timer, watcher, asked>>
      BY <3>1 DEF MonStep, MonReads, MonGets, MonSamples, MonKills
    <3>3. flags'[v] = flags[v]
      BY <1>0, <3>1 DEF MonStep, MonReads, MonGets, MonSamples, MonKills, ChildOK
    <3>4. QED
      BY <3>2, <3>3
  <2>7. QED
    BY <2>1, <2>2, <2>3, <2>4, <2>5, <2>6, ActsAre DEF Others
<1>4. ASSUME NEW i \in DOMAIN Stages PROVE mon'[<<v, i>>] = mon[<<v, i>>]
  <2>0. <<v, i>> \in Run /\ Current(w) \in Run /\ Current(w)[1] = w
    BY <1>0, CurrentType DEF WorkerOK, Run
  <2>1. CASE UNCHANGED mon
    BY <2>1
  <2>2. CASE Fork(w)
    <3>1. mon' = [mon EXCEPT ![Current(w)].st = "start"]
      BY <2>2 DEF Fork
    <3>2. <<v, i>> # Current(w)
      BY <2>0
    <3>3. QED
      BY <1>0, <2>0, <3>1, <3>2 DEF ChildOK
  <2>3. CASE \E j \in DOMAIN Stages : MonStep(<<w, j>>)
    <3>1. PICK j \in DOMAIN Stages : MonStep(<<w, j>>)
      BY <2>3
    <3>2. <<v, i>> # <<w, j>>
      OBVIOUS
    <3>3. QED
      BY <1>0, <2>0, <3>1, <3>2 DEF MonStep, MonReads, MonGets, MonSamples, MonKills, ChildOK
  <2>4. CASE Cancelled(w) \/ Pipes(w) \/ ForkFails(w) \/ Reap(w) \/ Stop(w) \/ Sweep(w)
               \/ PipeRefused(w) \/ Report(w)
    BY <2>1, <2>4 DEF Cancelled, PipeRefused, Pipes, ForkFails, Reap, Stop, Sweep, Report
  <2>5. CASE ChildStep(w) \/ GuardStep(w) \/ TimePasses(w) \/ Ask(w)
    BY <2>1, <2>5 DEF ChildStep, Exec, Ends, GuardStep, TimerFires, TimerKills, WatcherSees,
                      WatcherKills, TimePasses, Ask
  <2>6. QED
    BY <2>2, <2>3, <2>4, <2>5, ActsAre DEF Others
<1>5. QED
  BY <1>1, <1>2, <1>3, <1>4 DEF Current

(***************************************************************************)
(* What is left of a run at each place of its worker.                      *)
(***************************************************************************)
Fresh(w) ==
    /\ proc[w].st = "none" /\ ~proc[w].left
    /\ flags[w] = {} /\ timer[w] = "off" /\ watcher[w] = "off"

\* Before the fork nothing of the run is there; while the worker waits the child lives or
\* is a zombie; after that it is gone, and from the sweep on so is whatever it left.  The
\* monitors of runs still to come have not started.
Phase(w) ==
    /\ pc[w] \in {"idle", "piped"} => Fresh(w) /\ mon[Current(w)].st = "off"
    /\ pc[w] = "waiting" => proc[w].st \in {"forked", "running", "dead"}
    /\ pc[w] \in {"reaped", "stopped", "swept"} => proc[w].st = "reaped"
    /\ pc[w] = "over" => proc[w].st \in {"none", "reaped"}
    /\ pc[w] \in {"swept", "over"} => ~proc[w].left
    /\ \A i \in DOMAIN Stages : i > stage[w] => mon[<<w, i>>].st = "off"

PhaseInv == \A w \in Worker : Phase(w)

LEMMA InitPhase == ASSUME Init PROVE PhaseInv
<1> SUFFICES ASSUME NEW w \in Worker PROVE Phase(w)
  BY DEF PhaseInv
<1>1. TypeInv
  BY InitType
<1>2. Current(w) \in Run
  BY <1>1, TypeParts, CurrentType DEF WorkerOK
<1>3. Fresh(w) /\ pc[w] = "idle"
  BY DEF Init, Fresh, NoProc
<1>4. mon[Current(w)].st = "off" /\ \A i \in DOMAIN Stages : mon[<<w, i>>].st = "off"
  BY <1>2 DEF Init, Run
<1>5. QED
  BY <1>3, <1>4 DEF Phase

LEMMA OthersPhase ==
    ASSUME TypeInv, PhaseInv, NEW w \in Worker, Acts(w), NEW v \in Worker, v # w
    PROVE  Phase(v)'
<1>1. Phase(v) /\ Current(v) = <<v, stage[v]>> /\ stage[v] \in DOMAIN Stages
  BY TypeParts DEF PhaseInv, WorkerOK, Current
<1>2. /\ pc'[v] = pc[v] /\ stage'[v] = stage[v] /\ proc'[v] = proc[v]
      /\ flags'[v] = flags[v] /\ timer'[v] = timer[v] /\ watcher'[v] = watcher[v]
      /\ Current(v)' = Current(v)
  BY EachToItsOwn
<1>3. \A i \in DOMAIN Stages : mon'[<<v, i>>] = mon[<<v, i>>]
  BY EachToItsOwn
<1>4. Fresh(v)' = Fresh(v) /\ mon'[Current(v)] = mon[Current(v)]
  BY <1>1, <1>2, <1>3 DEF Fresh
<1>5. QED
  BY <1>1, <1>2, <1>3, <1>4 DEF Phase

\* A run that is judged gives way to a fresh one.
LEMMA NextPhase ==
    ASSUME TypeInv, PhaseInv, NEW w \in Worker, NextStage(w), UNCHANGED mon,
           stage[w] < Len(Stages)
    PROVE  Phase(w)'
<1>0. WorkerOK /\ ChildOK /\ Phase(w)
  BY TypeParts DEF PhaseInv
<1>1. stage[w] \in Nat /\ stage[w] + 1 \in DOMAIN Stages /\ stage'[w] = stage[w] + 1
  BY <1>0, NextIsAStage DEF NextStage, WorkerOK
<1>2. pc'[w] = "idle" /\ proc'[w] = NoProc /\ flags'[w] = {} /\ timer'[w] = "off"
      /\ watcher'[w] = "off"
  BY <1>0 DEF NextStage, WorkerOK, ChildOK
<1>3. \A i \in DOMAIN Stages : i > stage[w] => mon'[<<w, i>>].st = "off"
  BY <1>0 DEF Phase
<1>4. \A i \in DOMAIN Stages : i > stage'[w] => i > stage[w]
  BY <1>1, StagesType
<1>5. stage'[w] > stage[w]
  BY <1>1
<1>6. QED
  BY <1>1, <1>2, <1>3, <1>4, <1>5 DEF Phase, Fresh, NoProc, Current

\* A step that changes at most the child, and that in a way its place allows.
LEMMA PhaseStays ==
    ASSUME TypeInv, PhaseInv, NEW w \in Worker, pc'[w] = pc[w], UNCHANGED <<stage, mon>>,
           \/ proc'[w].st = proc[w].st
           \/ pc[w] = "waiting" /\ proc'[w].st \in {"running", "dead"},
           proc'[w].left => proc[w].left \/ pc[w] = "waiting",
           UNCHANGED <<flags, timer, watcher>> \/ pc[w] \notin {"idle", "piped"}
    PROVE  Phase(w)'
BY DEF PhaseInv, Phase, Fresh, Current

\* The worker's own steps.
LEMMA WorkerPhase ==
    ASSUME TypeInv, PhaseInv, NEW w \in Worker,
           Pipes(w) \/ Fork(w) \/ ForkFails(w) \/ Reap(w) \/ Stop(w) \/ Sweep(w)
    PROVE  Phase(w)'
<1>0. WorkerOK /\ ChildOK /\ Phase(w) /\ Current(w) \in Run /\ Current(w) = <<w, stage[w]>>
  BY TypeParts, CurrentType DEF PhaseInv, WorkerOK, Current
<1>1. proc[w] \in Process /\ mon[Current(w)] \in Monitor
  BY <1>0 DEF ChildOK
<1>2. CASE Pipes(w)
  <2>1. pc[w] = "idle" /\ pc'[w] = "piped" /\ UNCHANGED <<stage, proc, flags, timer, watcher, mon>>
    BY <1>0, <1>2 DEF Pipes, WorkerOK
  <2>2. QED
    BY <1>0, <2>1 DEF Phase, Fresh, Current
<1>3. CASE Fork(w)
  <2>1. pc'[w] = "waiting" /\ UNCHANGED stage
    BY <1>0, <1>3 DEF Fork, WorkerOK
  <2>2. proc'[w].st = "forked"
    <3>1. PICK prog : proc' = [proc EXCEPT ![w] = [NoProc EXCEPT
                         !.st = "forked", !.prog = prog, !.copies = Range(fd) \cap WriteEnds]]
      BY <1>3 DEF Fork
    <3>2. QED
      BY <1>0, <3>1 DEF ChildOK, NoProc
  <2>3. \A i \in DOMAIN Stages : i > stage[w] => mon'[<<w, i>>].st = "off"
    <3>1. mon' = [mon EXCEPT ![Current(w)].st = "start"]
      BY <1>3 DEF Fork
    <3> SUFFICES ASSUME NEW i \in DOMAIN Stages, i > stage[w] PROVE mon'[<<w, i>>].st = "off"
      OBVIOUS
    <3>2. <<w, i>> # Current(w) /\ <<w, i>> \in Run
      <4>0. stage[w] \in Nat
        BY <1>0, StageNumber DEF WorkerOK
      <4>1. i # stage[w]
        BY <4>0
      <4>2. QED
        BY <1>0, <4>1 DEF Run
    <3>3. QED
      BY <1>0, <3>1, <3>2 DEF Phase, ChildOK
  <2>4. QED
    BY <2>1, <2>2, <2>3 DEF Phase
<1>4. CASE ForkFails(w)
  <2>1. /\ pc[w] = "piped" /\ pc'[w] = "swept" /\ UNCHANGED <<stage, mon>>
        /\ proc' = [proc EXCEPT ![w].st = "reaped", ![w].how = "no fork"]
    BY <1>0, <1>4 DEF ForkFails, WorkerOK
  <2>2. proc'[w].st = "reaped" /\ proc'[w].left = proc[w].left
    BY <1>0, <1>1, <2>1 DEF ChildOK, Process
  <2>3. QED
    BY <1>0, <2>1, <2>2 DEF Phase, Fresh
<1>5. CASE Reap(w)
  <2>1. /\ pc'[w] = "reaped" /\ UNCHANGED <<stage, mon>>
        /\ proc' = [proc EXCEPT ![w].st = "reaped"]
    BY <1>0, <1>5 DEF Reap, WorkerOK
  <2>2. proc'[w].st = "reaped"
    BY <1>0, <1>1, <2>1 DEF ChildOK, Process
  <2>3. QED
    BY <1>0, <2>1, <2>2 DEF Phase
<1>6. CASE Stop(w)
  <2>1. pc[w] = "reaped" /\ pc'[w] = "stopped" /\ UNCHANGED <<stage, proc, mon>>
    BY <1>0, <1>6 DEF Stop, WorkerOK
  <2>2. QED
    BY <1>0, <2>1 DEF Phase
<1>7. CASE Sweep(w)
  <2>1. pc[w] = "stopped" /\ pc'[w] = "swept" /\ UNCHANGED <<stage, mon>> /\ proc' = Killed(w)
    BY <1>0, <1>7 DEF Sweep, WorkerOK
  <2>2. ~Alive(w) /\ proc[w].st = "reaped"
    BY <1>0, <2>1 DEF Phase, Alive
  <2>3. proc'[w].st = "reaped" /\ ~proc'[w].left
    BY <1>0, <2>1, <2>2, KillType DEF ChildOK
  <2>4. QED
    BY <1>0, <2>1, <2>3 DEF Phase
<1>8. QED
  BY <1>2, <1>3, <1>4, <1>5, <1>6, <1>7

\* A run is given up or judged.
LEMMA JudgedPhase ==
    ASSUME TypeInv, PhaseInv, NEW w \in Worker,
           Cancelled(w) \/ PipeRefused(w) \/ Report(w)
    PROVE  Phase(w)'
<1>0. WorkerOK /\ ChildOK /\ Phase(w)
  BY TypeParts DEF PhaseInv
<1>1. CASE NextStage(w) /\ stage[w] < Len(Stages)
  <2>1. UNCHANGED mon
    BY DEF Cancelled, PipeRefused, Report
  <2>2. QED
    BY <1>1, <2>1, NextPhase
<1>2. CASE pc' = [pc EXCEPT ![w] = "over"] /\ UNCHANGED <<stage, proc, late, guardVars, pipe>>
  <2>1. UNCHANGED mon /\ pc[w] \in {"idle", "swept"}
    BY DEF Cancelled, PipeRefused, Report
  <2>2. pc'[w] = "over" /\ UNCHANGED <<stage, proc>>
    BY <1>0, <1>2 DEF WorkerOK
  <2>3. QED
    BY <1>0, <2>1, <2>2 DEF Phase, Fresh
<1>3. QED
  BY <1>1, <1>2 DEF Cancelled, PipeRefused, Report

\* The child, the clock, the threads around it and whoever asks.
LEMMA ChildPhase ==
    ASSUME TypeInv, PhaseInv, NEW w \in Worker, Others(w) PROVE Phase(w)'
<1>0. WorkerOK /\ ChildOK /\ Phase(w) /\ proc[w] \in Process
  BY TypeParts DEF PhaseInv, ChildOK
<1>1. UNCHANGED <<pc, stage>>
  BY OthersLeaveTheWorker
<1>2. CASE ChildStep(w)
  <2>1. UNCHANGED <<mon, flags, timer, watcher>>
    BY <1>2 DEF ChildStep, Exec, Ends
  <2>2. proc[w].st \in {"forked", "running"}
    BY <1>2 DEF ChildStep, Exec, Ends
  <2>3. pc[w] = "waiting"
    BY <1>0, <2>2 DEF Phase, Fresh, WorkerOK
  <2>4. proc'[w].st \in {"running", "dead"}
    <3>1. CASE Exec(w)
      <4>1. proc' = [proc EXCEPT ![w].st = "running", ![w].copies = {}]
        BY <3>1 DEF Exec
      <4>2. QED
        BY <1>0, <4>1 DEF ChildOK, Process
    <3>2. CASE Ends(w)
      <4>1. PICK how, left :
              proc' = [proc EXCEPT ![w].st = "dead", ![w].how = how, ![w].left = left]
        BY <3>2 DEF Ends
      <4>2. QED
        BY <1>0, <4>1 DEF ChildOK, Process
    <3>3. QED
      BY <1>2, <3>1, <3>2 DEF ChildStep
  <2>5. QED
    BY <1>1, <2>1, <2>3, <2>4, PhaseStays
<1>3. CASE proc' = Killed(w) /\ UNCHANGED mon
             /\ (UNCHANGED <<flags, timer, watcher>> \/ pc[w] \notin {"idle", "piped"})
  <2>1. ~proc'[w].left /\ (Alive(w) => proc'[w].st = "dead")
        /\ (~Alive(w) => proc'[w].st = proc[w].st)
    BY <1>0, <1>3, KillType DEF ChildOK
  <2>2. Alive(w) => pc[w] = "waiting"
    BY <1>0 DEF Phase, Fresh, WorkerOK, Alive
  <2>3. \/ proc'[w].st = proc[w].st
        \/ pc[w] = "waiting" /\ proc'[w].st \in {"running", "dead"}
    BY <2>1, <2>2
  <2>4. proc'[w].left => proc[w].left \/ pc[w] = "waiting"
    BY <2>1
  <2>5. pc'[w] = pc[w] /\ UNCHANGED <<stage, mon>>
    BY <1>1, <1>3
  <2>6. QED
    BY <1>3, <2>3, <2>4, <2>5, PhaseStays
<1>4. CASE UNCHANGED <<proc, mon>>
             /\ (UNCHANGED <<flags, timer, watcher>> \/ pc[w] \notin {"idle", "piped"})
  <2>1. pc'[w] = pc[w] /\ UNCHANGED <<stage, mon>> /\ proc'[w] = proc[w]
    BY <1>1, <1>4
  <2>2. proc'[w].st = proc[w].st /\ (proc'[w].left => proc[w].left)
    BY <2>1
  <2>3. QED
    BY <1>4, <2>1, <2>2, PhaseStays
<1>5. CASE GuardStep(w)
  <2>1. timer[w] # "off" \/ watcher[w] # "off"
    BY <1>5 DEF GuardStep, TimerFires, TimerKills, WatcherSees, WatcherKills
  <2>2. pc[w] \notin {"idle", "piped"}
    BY <1>0, <2>1 DEF Phase, Fresh
  <2>3. UNCHANGED mon /\ (UNCHANGED proc \/ proc' = Killed(w))
    BY <1>5 DEF GuardStep, TimerFires, TimerKills, WatcherSees, WatcherKills
  <2>4. QED
    BY <1>3, <1>4, <2>2, <2>3
<1>6. CASE TimePasses(w) \/ Ask(w)
  BY <1>4, <1>6 DEF TimePasses, Ask
<1>7. CASE \E i \in DOMAIN Stages : MonStep(<<w, i>>)
  <2>1. PICK i \in DOMAIN Stages : MonStep(<<w, i>>)
    BY <1>7
  <2>2. <<w, i>> \in Run /\ Current(w) = <<w, stage[w]>> /\ stage[w] \in DOMAIN Stages
    BY <1>0 DEF Run, Current, WorkerOK
  <2>3. mon[<<w, i>>].st # "off" /\ \A j \in DOMAIN Stages : j # i => mon'[<<w, j>>] = mon[<<w, j>>]
    <3>1. mon[<<w, i>>].st # "off"
      BY <2>1 DEF MonStep, MonReads, MonGets, MonSamples, MonKills
    <3>2. ASSUME NEW j \in DOMAIN Stages, j # i PROVE mon'[<<w, j>>] = mon[<<w, j>>]
      <4>1. <<w, j>> \in Run /\ <<w, j>> # <<w, i>>
        BY <3>2 DEF Run
      <4>2. QED
        BY <1>0, <2>1, <4>1 DEF MonStep, MonReads, MonGets, MonSamples, MonKills, ChildOK
    <3>3. QED
      BY <3>1, <3>2
  <2>4. ~(i > stage[w]) /\ (i = stage[w] => pc[w] \notin {"idle", "piped"})
    BY <1>0, <2>2, <2>3 DEF Phase
  <2>5. \A j \in DOMAIN Stages : j > stage[w] => mon'[<<w, j>>].st = "off"
    BY <1>0, <2>3, <2>4 DEF Phase
  <2>6. pc[w] \in {"idle", "piped"} => mon'[Current(w)].st = "off"
    BY <1>0, <2>2, <2>3, <2>4 DEF Phase
  <2>7. UNCHANGED <<timer, watcher>>
    BY <2>1 DEF MonStep, MonReads, MonGets, MonSamples, MonKills
  <2>8. pc[w] \in {"idle", "piped"} => proc'[w] = proc[w] /\ flags'[w] = flags[w]
    <3> SUFFICES ASSUME pc[w] \in {"idle", "piped"}
                 PROVE  proc'[w] = proc[w] /\ flags'[w] = flags[w]
      OBVIOUS
    <3>1. <<w, i>> # Current(w)
      BY <2>2, <2>4
    <3>2. proc' = proc
      BY <2>1, <3>1 DEF MonStep, MonReads, MonGets, MonSamples, MonKills
    <3>3. proc[w].st # "running"
      BY <1>0 DEF Phase, Fresh
    <3>4. flags'[w] = flags[w]
      <4>1. CASE MonSamples(<<w, i>>)
        BY <1>0, <3>3, <4>1 DEF MonSamples, ChildOK
      <4>2. CASE ~MonSamples(<<w, i>>)
        BY <2>1, <4>2 DEF MonStep, MonReads, MonGets, MonKills
      <4>3. QED
        BY <4>1, <4>2
    <3>5. QED
      BY <3>2, <3>4
  <2>9. CASE UNCHANGED proc
    BY <1>0, <1>1, <2>5, <2>6, <2>7, <2>8, <2>9 DEF Phase, Fresh, Current
  <2>10. CASE proc' = Killed(w)
    <3>1. ~proc'[w].left /\ (Alive(w) => proc'[w].st = "dead")
          /\ (~Alive(w) => proc'[w].st = proc[w].st)
      BY <1>0, <2>10, KillType DEF ChildOK
    <3>2. Alive(w) => pc[w] = "waiting"
      BY <1>0 DEF Phase, Fresh, WorkerOK, Alive
    <3>3. QED
      BY <1>0, <1>1, <2>5, <2>6, <2>7, <2>8, <3>1, <3>2 DEF Phase, Fresh, Current
  <2>11. QED
    BY <2>1, <2>9, <2>10 DEF MonStep, MonReads, MonGets, MonSamples, MonKills
<1>8. QED
  BY <1>2, <1>5, <1>6, <1>7 DEF Others

LEMMA StepPhase == ASSUME TypeInv, PhaseInv, NEW w \in Worker, Acts(w) PROVE PhaseInv'
<1>1. Phase(w)'
  BY WorkerPhase, JudgedPhase, ChildPhase, ActsAre
<1>2. QED
  BY <1>1, OthersPhase DEF PhaseInv

LEMMA StutterPhase == ASSUME PhaseInv, UNCHANGED restVars PROVE PhaseInv'
<1> USE DEF restVars
<1> QED
  BY DEF PhaseInv, Phase, Fresh, Current

LEMMA StutterType == ASSUME TypeInv, UNCHANGED vars PROVE TypeInv'
BY DEF TypeInv, TypeOK, ProcInv, Current

\* Once run returns, and before it starts, no process of the group is left, whichever of
\* wait4, the timer, the watcher, the monitor and the sweep came when.
THEOREM NothingOutlivesARun == Spec => []NobodySurvives
<1>1. Init => TypeInv /\ PhaseInv
  BY InitType, InitPhase
<1>2. TypeInv /\ PhaseInv /\ [Next]_vars => (TypeInv /\ PhaseInv)'
  <2>1. CASE UNCHANGED vars
    BY <2>1, StutterType, StutterPhase DEF restVars
  <2>2. CASE Roams
    BY <2>2, RoamType, StutterPhase DEF Roams
  <2>3. CASE \E w \in Worker : Acts(w)
    BY <2>3, StepType, StepPhase
  <2>4. QED
    BY <2>1, <2>2, <2>3, SomebodyActs
<1>3. PhaseInv => NobodySurvives
  BY DEF PhaseInv, Phase, Fresh, NobodySurvives, Alive
<1>4. QED
  BY <1>1, <1>2, <1>3, PTL DEF Spec

(***************************************************************************)
(* A flag is set for the reason it names, and before the group is killed   *)
(* for it.                                                                 *)
(***************************************************************************)
Flagged(w) ==
    /\ "aborted" \in flags[w] => asked[w]
    /\ "timed_out" \in flags[w] => late[w] = 2
    /\ "exceeded" \in flags[w] => SeenOver(w)
    /\ timer[w] = "mid" => "timed_out" \in flags[w]
    /\ watcher[w] = "mid" => "aborted" \in flags[w]
    /\ mon[Current(w)].st = "mid" => "exceeded" \in flags[w]

FlagInv == \A w \in Worker : Flagged(w)

LEMMA InitFlag == ASSUME Init PROVE FlagInv
<1> SUFFICES ASSUME NEW w \in Worker PROVE Flagged(w)
  BY DEF FlagInv
<1>1. flags[w] = {} /\ timer[w] = "off" /\ watcher[w] = "off"
  BY DEF Init
<1>2. mon[Current(w)].st = "off"
  BY InitPhase DEF PhaseInv, Phase, Init
<1>3. QED
  BY <1>1, <1>2 DEF Flagged

LEMMA SettingsStay ==
    ASSUME NEW w \in Worker, Acts(w)
    PROVE  /\ UNCHANGED envVars
           /\ refused \subseteq refused'
<1>1. CASE Cancelled(w) \/ Pipes(w) \/ Fork(w) \/ Reap(w) \/ Stop(w) \/ Sweep(w) \/ Report(w)
  BY <1>1 DEF Cancelled, Pipes, Fork, Reap, Stop, Sweep, Report
<1>2. CASE PipeRefused(w) \/ ForkFails(w)
  BY <1>2 DEF PipeRefused, ForkFails
<1>3. CASE Others(w)
  BY <1>3, OthersLeaveTheWorker
<1>4. QED
  BY <1>1, <1>2, <1>3, ActsAre

LEMMA OthersFlag ==
    ASSUME TypeInv, FlagInv, NEW w \in Worker, Acts(w), NEW v \in Worker, v # w
    PROVE  Flagged(v)'
<1>1. Flagged(v) /\ Current(v) = <<v, stage[v]>> /\ stage[v] \in DOMAIN Stages
  BY TypeParts DEF FlagInv, WorkerOK, Current
<1>2. UNCHANGED rlimit
  BY SettingsStay
<1>3. QED
  BY <1>1, <1>2, EachToItsOwn DEF Flagged, SeenOver

\* A step that goes on with the same run.
LEMMA FlagMoves ==
    ASSUME NEW w, Flagged(w), stage'[w] = stage[w], rlimit' = rlimit,
           proc'[w].prog = proc[w].prog,
           asked[w] => asked'[w],
           late[w] = 2 => late'[w] = 2,
           flags[w] \subseteq flags'[w],
           "aborted" \in flags'[w] => "aborted" \in flags[w] \/ asked[w],
           "timed_out" \in flags'[w] => "timed_out" \in flags[w] \/ late[w] = 2,
           "exceeded" \in flags'[w] => "exceeded" \in flags[w] \/ SeenOver(w),
           timer'[w] = "mid" => timer[w] = "mid" \/ "timed_out" \in flags'[w],
           watcher'[w] = "mid" => watcher[w] = "mid" \/ "aborted" \in flags'[w],
           mon'[Current(w)].st = "mid"
             => mon[Current(w)].st = "mid" \/ "exceeded" \in flags'[w]
    PROVE  Flagged(w)'
<1>1. Current(w)' = Current(w) /\ (SeenOver(w) => SeenOver(w)')
  BY DEF Current, SeenOver
<1>2. QED
  BY <1>1 DEF Flagged

LEMMA FlagStays ==
    ASSUME NEW w, Flagged(w), stage'[w] = stage[w], rlimit' = rlimit,
           proc'[w].prog = proc[w].prog, asked[w] => asked'[w],
           late[w] = 2 => late'[w] = 2, UNCHANGED <<flags, mon>>,
           timer'[w] = "mid" => timer[w] = "mid",
           watcher'[w] = "mid" => watcher[w] = "mid"
    PROVE  Flagged(w)'
BY FlagMoves

\* The program of a child is what it was forked with.
LEMMA ProgramStays ==
    ASSUME TypeInv, NEW w \in Worker, Acts(w)
    PROVE  proc'[w].prog = proc[w].prog \/ Fork(w) \/ NextStage(w)
<1>0. ChildOK /\ proc[w] \in Process
  BY TypeParts DEF ChildOK
<1>1. Killed(w)[w].prog = proc[w].prog
  BY <1>0, KillType DEF ChildOK
<1>2. CASE Cancelled(w) \/ PipeRefused(w) \/ Report(w) \/ Pipes(w) \/ Stop(w) \/ Sweep(w)
  BY <1>1, <1>2 DEF Cancelled, PipeRefused, Report, Pipes, Stop, Sweep
<1>3. CASE ForkFails(w)
  BY <1>0, <1>3 DEF ForkFails, ChildOK, Process
<1>4. CASE Reap(w)
  BY <1>0, <1>4 DEF Reap, ChildOK, Process
<1>5. CASE Exec(w)
  BY <1>0, <1>5 DEF Exec, ChildOK, Process
<1>6. CASE Ends(w)
  <2>1. PICK how, left :
          proc' = [proc EXCEPT ![w].st = "dead", ![w].how = how, ![w].left = left]
    BY <1>6 DEF Ends
  <2>2. QED
    BY <1>0, <2>1 DEF ChildOK, Process
<1>7. CASE GuardStep(w) \/ TimePasses(w) \/ Ask(w)
  BY <1>1, <1>7 DEF GuardStep, TimerFires, TimerKills, WatcherSees, WatcherKills, TimePasses, Ask
<1>8. CASE \E i \in DOMAIN Stages : MonStep(<<w, i>>)
  BY <1>1, <1>8 DEF MonStep, MonReads, MonGets, MonSamples, MonKills
<1>9. QED
  BY <1>2, <1>3, <1>4, <1>5, <1>6, <1>7, <1>8, ActsAre DEF Others, ChildStep

\* The next run of a submission, or the first steps of one.
LEMMA FreshFlag ==
    ASSUME TypeInv, PhaseInv, NEW w \in Worker, Acts(w), NextStage(w) \/ Fork(w)
    PROVE  Flagged(w)'
<1>0. WorkerOK /\ ChildOK /\ Phase(w) /\ Current(w) \in Run
  BY TypeParts, CurrentType DEF PhaseInv, WorkerOK
<1>1. CASE NextStage(w)
  <2>1. flags'[w] = {} /\ timer'[w] = "off" /\ watcher'[w] = "off" /\ pc'[w] = "idle"
    BY <1>0, <1>1 DEF NextStage, WorkerOK, ChildOK
  <2>2. mon'[Current(w)'].st = "off"
    BY <2>1, StepPhase DEF PhaseInv, Phase
  <2>3. QED
    BY <2>1, <2>2 DEF Flagged
<1>2. CASE Fork(w)
  <2>1. /\ pc[w] = "piped" /\ UNCHANGED <<stage, flags>>
        /\ timer' = [timer EXCEPT ![w] = "on"] /\ watcher' = [watcher EXCEPT ![w] = "on"]
        /\ mon' = [mon EXCEPT ![Current(w)].st = "start"]
    BY <1>2 DEF Fork
  <2>2. flags'[w] = {} /\ timer'[w] = "on" /\ watcher'[w] = "on"
    BY <1>0, <2>1 DEF Phase, Fresh, ChildOK
  <2>3. mon'[Current(w)].st = "start" /\ Current(w)' = Current(w)
    <3>1. mon[Current(w)] \in Monitor
      BY <1>0 DEF ChildOK
    <3>2. QED
      BY <1>0, <2>1, <3>1 DEF ChildOK, Monitor, Current
  <2>4. QED
    BY <2>2, <2>3 DEF Flagged
<1>3. QED
  BY <1>1, <1>2

LEMMA ActorFlag ==
    ASSUME TypeInv, PhaseInv, FlagInv, NEW w \in Worker, Acts(w), ~NextStage(w), ~Fork(w)
    PROVE  Flagged(w)'
<1>0. WorkerOK /\ ChildOK /\ Flagged(w) /\ rlimit' = rlimit
      /\ proc'[w].prog = proc[w].prog /\ Current(w) \in Run /\ Current(w) = <<w, stage[w]>>
  BY TypeParts, CurrentType, SettingsStay, ProgramStays DEF FlagInv, WorkerOK, Current
<1>1. CASE Cancelled(w) \/ PipeRefused(w) \/ Report(w)
  <2>1. UNCHANGED <<stage, late, flags, timer, watcher, mon, asked>>
    BY <1>1 DEF Cancelled, PipeRefused, Report
  <2>2. QED
    BY <1>0, <2>1, FlagStays
<1>2. CASE Pipes(w) \/ ForkFails(w) \/ Reap(w) \/ Sweep(w)
  <2>1. UNCHANGED <<stage, late, flags, timer, watcher, mon, asked>>
    BY <1>2 DEF Pipes, ForkFails, Reap, Sweep
  <2>2. QED
    BY <1>0, <2>1, FlagStays
<1>3. CASE Stop(w)
  <2>1. /\ UNCHANGED <<stage, late, flags, mon, asked>>
        /\ timer' = [timer EXCEPT ![w] = IF @ = "on" THEN "ended" ELSE @]
        /\ watcher' = [watcher EXCEPT ![w] = "ended"]
    BY <1>3 DEF Stop
  <2>2. (timer'[w] = "mid" => timer[w] = "mid") /\ watcher'[w] = "ended"
    BY <1>0, <2>1 DEF ChildOK
  <2>3. QED
    BY <1>0, <2>1, <2>2, FlagStays
<1>4. ASSUME Others(w) PROVE UNCHANGED stage
  BY <1>4, OthersLeaveTheWorker
<1>5. CASE ChildStep(w) \/ Ask(w)
  <2>1. UNCHANGED <<late, flags, timer, watcher, mon>>
    BY <1>5 DEF ChildStep, Exec, Ends, Ask
  <2>2. asked[w] => asked'[w]
    BY <1>0, <1>5 DEF ChildStep, Exec, Ends, Ask, ChildOK
  <2>3. UNCHANGED stage
    BY <1>4, <1>5 DEF Others
  <2>4. QED
    BY <1>0, <2>1, <2>2, <2>3, FlagStays
<1>6. CASE TimePasses(w)
  <2>1. /\ UNCHANGED <<flags, timer, watcher, mon, asked>> /\ late[w] < 2
        /\ UNCHANGED stage
    BY <1>4, <1>6 DEF TimePasses, Others
  <2>2. late[w] # 2
    BY <1>0, <2>1 DEF ChildOK
  <2>3. QED
    BY <1>0, <2>1, <2>2, FlagStays
<1>7. CASE TimerFires(w)
  <2>1. /\ late[w] = 2 /\ flags' = [flags EXCEPT ![w] = @ \cup {"timed_out"}]
        /\ UNCHANGED <<stage, late, watcher, mon, asked>>
    BY <1>4, <1>7 DEF TimerFires, Others, GuardStep
  <2>2. flags'[w] = flags[w] \cup {"timed_out"}
    BY <1>0, <2>1 DEF ChildOK
  <2>3. QED
    BY <1>0, <2>1, <2>2, FlagMoves
<1>8. CASE WatcherSees(w)
  <2>1. /\ asked[w] /\ flags' = [flags EXCEPT ![w] = @ \cup {"aborted"}]
        /\ UNCHANGED <<stage, late, timer, mon, asked>>
    BY <1>4, <1>8 DEF WatcherSees, Others, GuardStep
  <2>2. flags'[w] = flags[w] \cup {"aborted"}
    BY <1>0, <2>1 DEF ChildOK
  <2>3. QED
    BY <1>0, <2>1, <2>2, FlagMoves
<1>9. CASE TimerKills(w) \/ WatcherKills(w)
  <2>1. /\ UNCHANGED <<stage, late, flags, mon, asked>>
        /\ timer' = timer \/ timer' = [timer EXCEPT ![w] = "ended"]
        /\ watcher' = watcher \/ watcher' = [watcher EXCEPT ![w] = "ended"]
    BY <1>4, <1>9 DEF TimerKills, WatcherKills, Others, GuardStep
  <2>2. (timer'[w] = "mid" => timer[w] = "mid") /\ (watcher'[w] = "mid" => watcher[w] = "mid")
    BY <1>0, <2>1 DEF ChildOK
  <2>3. QED
    BY <1>0, <2>1, <2>2, FlagStays
<1>10. CASE \E i \in DOMAIN Stages : MonStep(<<w, i>>)
  <2>1. PICK i \in DOMAIN Stages : MonStep(<<w, i>>)
    BY <1>10
  <2>2. UNCHANGED <<stage, late, timer, watcher, asked>>
    BY <2>1 DEF MonStep, MonReads, MonGets, MonSamples, MonKills
  <2> DEFINE r == <<w, i>>
  <2>3. r \in Run /\ mon[r] \in Monitor /\ r[1] = w
    BY <1>0 DEF Run, ChildOK
  <2> HIDE DEF r
  <2>4. CASE MonSamples(r)
    <3>1. /\ Done(r) \/ (proc[w].st = "running" /\ SeenOver(w))
          /\ mon' = [mon EXCEPT ![r].st = IF Done(r) THEN "ended" ELSE "mid"]
          /\ flags' = [flags EXCEPT ![w] = IF Done(r) THEN @ ELSE @ \cup {"exceeded"}]
      BY <2>3, <2>4 DEF MonSamples
    <3>2. CASE Done(r)
      <4>1. flags'[w] = flags[w]
        BY <1>0, <3>1, <3>2 DEF ChildOK
      <4>2. mon'[Current(w)].st = "mid" => mon[Current(w)].st = "mid"
        BY <1>0, <2>3, <3>1, <3>2 DEF ChildOK, Monitor
      <4>3. QED
        BY <1>0, <2>2, <4>1, <4>2, FlagMoves
    <3>3. CASE ~Done(r)
      <4>1. flags'[w] = flags[w] \cup {"exceeded"}
        BY <1>0, <3>1, <3>3 DEF ChildOK
      <4>2. SeenOver(w)
        BY <3>1, <3>3
      <4>3. QED
        BY <1>0, <2>2, <4>1, <4>2, FlagMoves
    <3>4. QED
      BY <3>2, <3>3
  <2>5. CASE MonReads(r) \/ MonGets(r) \/ MonKills(r)
    <3>1. UNCHANGED flags
      BY <2>5 DEF MonReads, MonGets, MonKills
    <3>2. mon'[Current(w)].st = "mid" => mon[Current(w)].st = "mid"
      <4>1. \/ mon' = mon \/ mon' = [mon EXCEPT ![r] = Sampling(r)]
            \/ \E on : mon' = [mon EXCEPT ![r] = [st |-> "reading", on |-> on]]
            \/ mon' = [mon EXCEPT ![r] = [mon[r] EXCEPT !.st = "ended"]]
        BY <2>5 DEF MonReads, MonGets, MonKills
      <4>2. Sampling(r).st # "mid" /\ [mon[r] EXCEPT !.st = "ended"].st = "ended"
        BY <2>3 DEF Sampling, Monitor
      <4>3. mon' = mon \/ \E m : m.st # "mid" /\ mon' = [mon EXCEPT ![r] = m]
        <5>1. \A on : [st |-> "reading", on |-> on].st # "mid"
          OBVIOUS
        <5>2. QED
          BY <4>1, <4>2, <5>1
      <4>4. QED
        BY <1>0, <2>3, <4>3 DEF ChildOK
    <3>3. QED
      BY <1>0, <2>2, <3>1, <3>2, FlagMoves
  <2>6. QED
    BY <2>1, <2>4, <2>5 DEF MonStep, r
<1>11. QED
  BY <1>1, <1>2, <1>3, <1>5, <1>6, <1>7, <1>8, <1>9, <1>10, ActsAre DEF Others, GuardStep

LEMMA StepFlag == ASSUME TypeInv, PhaseInv, FlagInv, NEW w \in Worker, Acts(w) PROVE FlagInv'
<1>1. Flagged(w)'
  BY FreshFlag, ActorFlag
<1>2. QED
  BY <1>1, OthersFlag DEF FlagInv

LEMMA StutterFlag == ASSUME FlagInv, UNCHANGED restVars PROVE FlagInv'
<1> USE DEF restVars
<1> QED
  BY DEF FlagInv, Flagged, SeenOver, Current

(***************************************************************************)
(* The verdict.                                                            *)
(***************************************************************************)
\* How a child that is dead came to die.
HowFits(w) ==
    LET how == proc[w].how
        prog == proc[w].prog
    IN  \/ how = "SIGKILL" /\ flags[w] # {}
        \/ how = "exit 0" /\ (prog \in {"right", "wrong", "flood", "large"} \/ SeenOver(w))
        \/ how = "exit 1" /\ (prog \in {"crash", "flood"} \/ (prog = "hog" /\ rlimit))
        \/ how = "SIGSEGV" /\ prog = "crash"
        \/ how = "SIGXFSZ" /\ prog = "flood"
        \/ how = "SIGXCPU" /\ prog = "spin" /\ late[w] > 0
        \/ how = "exit 127" /\ prog = "missing"
        \/ how = "no fork" /\ Current(w) \in refused

\* What HonestVerdict asks of the verdict v on the run of w.
Honest(v, w) ==
    LET prog == proc[w].prog
        refusal == Current(w) \in refused
    IN  /\ v = "AC" => prog = "right" /\ late[w] = 0
        /\ v = "WA" => prog = "wrong"
        /\ v = "RE" => prog \in {"crash", "flood"} /\ late[w] = 0
        /\ v = "TLE" => late[w] > 0
        /\ v = "MLE" => prog = "hog"
        /\ v = "OLE" => prog \in {"flood", "large"}
        /\ v = "IE" => prog = "missing" \/ refusal
        /\ v = "CE" => prog \notin {"right", "wrong"} \/ late[w] = 2 \/ refusal
        /\ v = "AB" => asked[w]

Truthful(w) == Honest(verdict[w], w)

Told(w) ==
    /\ proc[w].st \in {"dead", "reaped"} => HowFits(w)
    /\ pc[w] # "over" => verdict[w] = ""
    /\ Truthful(w)

VerdictInv == \A w \in Worker : Told(w)

LEMMA NothingSaid == ASSUME NEW w PROVE Honest("", w)
BY DEF Honest

LEMMA InitVerdict == ASSUME Init PROVE VerdictInv
<1> SUFFICES ASSUME NEW w \in Worker PROVE Told(w)
  BY DEF VerdictInv
<1>1. proc[w].st = "none" /\ verdict[w] = ""
  BY DEF Init, NoProc
<1>2. Truthful(w)
  BY <1>1, NothingSaid DEF Truthful
<1>3. QED
  BY <1>1, <1>2 DEF Told

\* What each status says of the program, however many of the threads got to it.
LEMMA StatusFits ==
    ASSUME TypeInv, FlagInv, NEW w \in Worker, HowFits(w)
    PROVE  LET prog == proc[w].prog
           IN  /\ Status(w) = "OK" => prog \in {"right", "wrong", "flood", "large"}
               /\ Status(w) = "RUNTIME" => prog \in {"crash", "hog", "flood"}
               /\ Status(w) = "TIMEOUT" => late[w] > 0 /\ (prog = "spin" \/ late[w] = 2)
               /\ Status(w) = "MEMORY" => prog = "hog"
               /\ Status(w) = "OUTPUT" => prog = "flood"
               /\ Status(w) = "INTERNAL" => prog = "missing" \/ Current(w) \in refused
               /\ Status(w) = "ABORTED" => asked[w]
<1>0. Flagged(w) /\ flags[w] \subseteq {"timed_out", "aborted", "exceeded"}
  BY TypeParts DEF FlagInv, ChildOK
<1>1. CASE flags[w] # {}
  <2>1. "aborted" \in flags[w] \/ "exceeded" \in flags[w] \/ "timed_out" \in flags[w]
    BY <1>0, <1>1
  <2>2. CASE "aborted" \in flags[w]
    BY <1>0, <2>2 DEF Status, Flagged
  <2>3. CASE "aborted" \notin flags[w] /\ "exceeded" \in flags[w]
    BY <1>0, <2>3 DEF Status, Flagged, SeenOver
  <2>4. CASE "aborted" \notin flags[w] /\ "exceeded" \notin flags[w] /\ "timed_out" \in flags[w]
    BY <1>0, <2>4 DEF Status, Flagged
  <2>5. QED
    BY <2>1, <2>2, <2>3, <2>4
<1>2. CASE flags[w] = {}
  BY <1>2 DEF Status, HowFits, SeenOver
<1>3. QED
  BY <1>1, <1>2

LEMMA OutcomeIsHonest ==
    ASSUME TypeInv, FlagInv, NEW w \in Worker, HowFits(w)
    PROVE  Honest(Outcome(w), w)
<1>0. late[w] \in 0..2
  BY TypeParts DEF ChildOK
<1>1. Verdict(w) # "CE" /\ Honest(Verdict(w), w)
  <2>1. Verdict(w) # "CE"
    BY DEF Verdict
  <2>2. Verdict(w) = "AC" => Status(w) \notin {"ABORTED", "INTERNAL", "TIMEOUT", "OUTPUT",
                               "MEMORY", "RUNTIME"} /\ ~(late[w] > 0)
                               /\ proc[w].prog \notin {"wrong", "flood", "large"}
    BY DEF Verdict
  <2>3. Status(w) \in {"ABORTED", "INTERNAL", "TIMEOUT", "OUTPUT", "MEMORY", "RUNTIME", "OK"}
    BY DEF Status
  <2>4. Verdict(w) = "AC" => proc[w].prog = "right" /\ late[w] = 0
    BY <1>0, <2>2, <2>3, StatusFits
  <2>5. Verdict(w) = "WA" => proc[w].prog = "wrong"
    BY DEF Verdict
  <2>6. Verdict(w) = "RE" => proc[w].prog \in {"crash", "flood"} /\ late[w] = 0
    <3>1. Verdict(w) = "RE"
            => Status(w) = "RUNTIME" /\ ~(late[w] > 0) /\ proc[w].prog # "hog"
      BY DEF Verdict
    <3>2. QED
      BY <1>0, <3>1, StatusFits
  <2>7. Verdict(w) = "TLE" => late[w] > 0
    BY StatusFits DEF Verdict
  <2>8. Verdict(w) = "MLE" => proc[w].prog = "hog"
    BY StatusFits DEF Verdict
  <2>9. Verdict(w) = "OLE" => proc[w].prog \in {"flood", "large"}
    BY StatusFits DEF Verdict
  <2>10. Verdict(w) = "IE" => proc[w].prog = "missing" \/ Current(w) \in refused
    BY StatusFits DEF Verdict
  <2>11. Verdict(w) = "AB" => asked[w]
    BY StatusFits DEF Verdict
  <2>12. QED
    BY <2>1, <2>4, <2>5, <2>6, <2>7, <2>8, <2>9, <2>10, <2>11 DEF Honest
<1>2. CASE Kind(w) = "test"
  BY <1>1, <1>2 DEF Outcome
<1>3. CASE Kind(w) = "compile" /\ Status(w) = "ABORTED"
  <2>1. Outcome(w) = "AB"
    BY <1>3 DEF Outcome
  <2>2. QED
    BY <1>3, <2>1, StatusFits DEF Honest
<1>4. CASE Kind(w) = "compile" /\ Status(w) \notin {"ABORTED", "OK"}
  <2>1. Outcome(w) = "CE"
    BY <1>4 DEF Outcome
  <2>2. Status(w) \in {"RUNTIME", "TIMEOUT", "MEMORY", "OUTPUT", "INTERNAL"}
    BY <1>4 DEF Status
  <2>3. \/ proc[w].prog \notin {"right", "wrong"} \/ late[w] = 2
        \/ Current(w) \in refused
    BY <2>2, StatusFits
  <2>4. QED
    BY <2>1, <2>3 DEF Honest
<1>5. CASE Kind(w) # "test" /\ ~(Kind(w) = "compile" /\ Status(w) # "OK")
  <2>1. Outcome(w) = ""
    BY <1>5 DEF Outcome
  <2>2. QED
    BY <2>1, NothingSaid
<1>6. QED
  BY <1>2, <1>3, <1>4, <1>5

LEMMA HowStays ==
    ASSUME NEW w, HowFits(w), stage'[w] = stage[w], rlimit' = rlimit,
           proc'[w].prog = proc[w].prog, proc'[w].how = proc[w].how,
           late[w] > 0 => late'[w] > 0, flags[w] # {} => flags'[w] # {},
           refused \subseteq refused'
    PROVE  HowFits(w)'
BY DEF HowFits, SeenOver, Current

LEMMA OthersVerdict ==
    ASSUME TypeInv, VerdictInv, NEW w \in Worker, Acts(w), NEW v \in Worker, v # w
    PROVE  Told(v)'
<1>1. Told(v)
  BY DEF VerdictInv
<1>2. rlimit' = rlimit /\ refused \subseteq refused'
  BY SettingsStay
<1>3. HowFits(v) => HowFits(v)'
  BY <1>2, EachToItsOwn, HowStays
<1>4. Truthful(v)'
  <2>1. Honest(verdict'[v], v)
    BY <1>1, EachToItsOwn DEF Told, Truthful
  <2>2. QED
    BY <1>2, <2>1, EachToItsOwn DEF Truthful, Honest
<1>5. QED
  BY <1>1, <1>3, <1>4, EachToItsOwn DEF Told

\* A step that leaves the verdict, and leaves a child that is dead as it died.
LEMMA ToldStays ==
    ASSUME NEW w \in Worker, Told(w), pc[w] # "over", pc'[w] # "over",
           verdict'[w] = verdict[w],
           proc'[w].st \in {"dead", "reaped"} => HowFits(w)'
    PROVE  Told(w)'
<1>1. verdict'[w] = ""
  BY DEF Told
<1>2. Truthful(w)'
  BY <1>1 DEF Truthful, Honest
<1>3. QED
  BY <1>1, <1>2 DEF Told

\* The worker's own steps, but for the last one of a run.
LEMMA WorkerTold ==
    ASSUME TypeInv, PhaseInv, FlagInv, VerdictInv, NEW w \in Worker,
           Pipes(w) \/ Fork(w) \/ ForkFails(w) \/ Reap(w) \/ Stop(w) \/ Sweep(w)
    PROVE  Told(w)'
<1>0. WorkerOK /\ ChildOK /\ Told(w) /\ Phase(w) /\ proc[w] \in Process
  BY TypeParts DEF VerdictInv, PhaseInv, ChildOK
<1>1. pc[w] # "over" /\ pc'[w] # "over" /\ UNCHANGED <<stage, verdict, rlimit, late, flags>>
      /\ refused \subseteq refused'
  <2>1. CASE Pipes(w) \/ Fork(w) \/ ForkFails(w)
    BY <1>0, <2>1 DEF Pipes, Fork, ForkFails, WorkerOK
  <2>2. CASE Reap(w) \/ Stop(w) \/ Sweep(w)
    BY <1>0, <2>2 DEF Reap, Stop, Sweep, WorkerOK
  <2>3. QED
    BY <2>1, <2>2
<1>2. CASE proc'[w].prog = proc[w].prog /\ proc'[w].how = proc[w].how
             /\ (proc'[w].st \in {"dead", "reaped"} => proc[w].st \in {"dead", "reaped"})
  <2>1. HowFits(w) => HowFits(w)'
    BY <1>1, <1>2, HowStays
  <2>2. QED
    BY <1>0, <1>1, <1>2, <2>1, ToldStays DEF Told
<1>3. CASE Pipes(w) \/ Stop(w)
  BY <1>2, <1>3 DEF Pipes, Stop
<1>4. CASE Fork(w)
  <2>1. PICK prog : proc' = [proc EXCEPT ![w] = [NoProc EXCEPT
                       !.st = "forked", !.prog = prog, !.copies = Range(fd) \cap WriteEnds]]
    BY <1>4 DEF Fork
  <2>2. proc'[w].st = "forked"
    BY <1>0, <2>1 DEF ChildOK, NoProc
  <2>3. QED
    BY <1>0, <1>1, <2>2, ToldStays
<1>5. CASE ForkFails(w)
  <2>1. /\ proc' = [proc EXCEPT ![w].st = "reaped", ![w].how = "no fork"]
        /\ refused' = refused \cup {Current(w)} /\ UNCHANGED stage
    BY <1>5 DEF ForkFails
  <2>2. proc'[w].how = "no fork"
    BY <1>0, <2>1 DEF ChildOK, Process
  <2>3. Current(w)' \in refused'
    BY <2>1 DEF Current
  <2>4. HowFits(w)'
    BY <2>2, <2>3 DEF HowFits
  <2>5. QED
    BY <1>0, <1>1, <2>4, ToldStays
<1>6. CASE Reap(w)
  <2>1. proc[w].st = "dead" /\ proc' = [proc EXCEPT ![w].st = "reaped"]
    BY <1>6 DEF Reap
  <2>2. proc'[w].prog = proc[w].prog /\ proc'[w].how = proc[w].how
    BY <1>0, <2>1 DEF ChildOK, Process
  <2>3. QED
    BY <1>2, <2>1, <2>2
<1>7. CASE Sweep(w)
  <2>1. pc[w] = "stopped" /\ proc' = Killed(w)
    BY <1>7 DEF Sweep
  <2>2. ~Alive(w)
    BY <1>0, <2>1 DEF Phase, Alive
  <2>3. QED
    BY <1>0, <1>2, <2>1, <2>2, KillType DEF ChildOK
<1>8. QED
  BY <1>3, <1>4, <1>5, <1>6, <1>7

\* A run is given up or judged: the verdict is the outcome of a child that is dead.
LEMMA JudgedTold ==
    ASSUME TypeInv, PhaseInv, FlagInv, VerdictInv, NEW w \in Worker,
           Cancelled(w) \/ PipeRefused(w) \/ Report(w)
    PROVE  Told(w)'
<1>0. WorkerOK /\ ChildOK /\ Told(w) /\ Phase(w)
  BY TypeParts DEF VerdictInv, PhaseInv
<1>1. pc[w] \in {"idle", "swept"} /\ UNCHANGED <<rlimit, asked>>
      /\ refused \subseteq refused'
  BY DEF Cancelled, PipeRefused, Report
<1>2. CASE NextStage(w) /\ UNCHANGED verdict
  <2>1. pc'[w] = "idle" /\ proc'[w].st = "none"
    BY <1>0, <1>2 DEF NextStage, WorkerOK, ChildOK, NoProc
  <2>2. QED
    BY <1>0, <1>1, <1>2, <2>1, ToldStays
<1>3. ASSUME UNCHANGED <<stage, proc, late, flags>>, pc' = [pc EXCEPT ![w] = "over"],
             NEW v, verdict' = [verdict EXCEPT ![w] = v], Honest(v, w)
      PROVE  Told(w)'
  <2>1. verdict'[w] = v /\ pc'[w] = "over"
    BY <1>0, <1>3 DEF WorkerOK
  <2>2. Truthful(w)'
    BY <1>1, <1>3, <2>1 DEF Truthful, Honest, Current
  <2>3. HowFits(w) => HowFits(w)'
    BY <1>1, <1>3, HowStays
  <2>4. QED
    BY <1>0, <1>3, <2>1, <2>2, <2>3 DEF Told
<1>4. CASE Cancelled(w) /\ ~(Kind(w) = "warm" /\ stage[w] < Len(Stages))
  <2>1. /\ asked[w] /\ UNCHANGED <<stage, proc, late, flags>>
        /\ pc' = [pc EXCEPT ![w] = "over"] /\ verdict' = [verdict EXCEPT ![w] = "AB"]
    BY <1>4 DEF Cancelled
  <2>2. Honest("AB", w)
    BY <2>1 DEF Honest
  <2>3. QED
    BY <1>3, <2>1, <2>2
<1>5. CASE Report(w) /\ ~(Outcome(w) = "" /\ stage[w] < Len(Stages))
  <2>1. /\ pc[w] = "swept" /\ UNCHANGED <<stage, proc, late, flags>>
        /\ pc' = [pc EXCEPT ![w] = "over"] /\ verdict' = [verdict EXCEPT ![w] = Outcome(w)]
    BY <1>5 DEF Report
  <2>2. HowFits(w)
    BY <1>0, <2>1 DEF Phase, Told
  <2>3. Honest(Outcome(w), w)
    BY <2>2, OutcomeIsHonest
  <2>4. PICK v : v = Outcome(w)
    OBVIOUS
  <2>5. QED
    BY <1>3, <2>1, <2>3, <2>4
<1>6. CASE PipeRefused(w) /\ ~(NextStage(w) /\ UNCHANGED verdict)
  <2>1. /\ UNCHANGED <<stage, proc, late, flags>> /\ pc' = [pc EXCEPT ![w] = "over"]
        /\ verdict' = [verdict EXCEPT ![w] = "IE"] \/ verdict' = [verdict EXCEPT ![w] = ""]
        /\ Current(w) \in refused'
    BY <1>6 DEF PipeRefused
  <2>2. HowFits(w) => HowFits(w)'
    BY <1>1, <2>1, HowStays
  <2>3. pc'[w] = "over" /\ verdict'[w] \in {"IE", ""} /\ Current(w)' \in refused'
    BY <1>0, <2>1 DEF WorkerOK, Current
  <2>4. Truthful(w)'
    BY <2>3 DEF Truthful, Honest
  <2>5. QED
    BY <1>0, <2>1, <2>2, <2>3, <2>4 DEF Told
<1>7. QED
  BY <1>2, <1>4, <1>5, <1>6 DEF Cancelled, PipeRefused, Report

\* A kill that finds the child alive has a flag to its name.
LEMMA KillFits ==
    ASSUME TypeInv, FlagInv, VerdictInv, NEW w \in Worker, proc' = Killed(w),
           flags[w] # {}, UNCHANGED <<stage, rlimit, late, flags, refused>>
    PROVE  proc'[w].st \in {"dead", "reaped"} => HowFits(w)'
<1>0. ChildOK /\ Told(w)
  BY TypeParts DEF VerdictInv
<1>1. CASE Alive(w)
  <2>1. proc'[w].how = "SIGKILL"
    BY <1>0, <1>1, KillType DEF ChildOK
  <2>2. QED
    BY <2>1 DEF HowFits
<1>2. CASE ~Alive(w)
  <2>1. /\ proc'[w].st = proc[w].st /\ proc'[w].how = proc[w].how
        /\ proc'[w].prog = proc[w].prog
    BY <1>0, <1>2, KillType DEF ChildOK
  <2>2. HowFits(w) => HowFits(w)'
    BY <2>1, HowStays
  <2>3. QED
    BY <1>0, <2>1, <2>2 DEF Told
<1>3. QED
  BY <1>1, <1>2

\* The child, the clock and the threads around it leave a dead child as it died.
LEMMA DeathFits ==
    ASSUME TypeInv, FlagInv, VerdictInv, NEW w \in Worker, Others(w)
    PROVE  proc'[w].st \in {"dead", "reaped"} => HowFits(w)'
<1>0. WorkerOK /\ ChildOK /\ Told(w) /\ Flagged(w) /\ proc[w] \in Process
  BY TypeParts DEF VerdictInv, FlagInv, ChildOK
<1>1. UNCHANGED <<stage, rlimit, refused>>
  BY OthersLeaveTheWorker
<1>2. CASE proc' = proc /\ flags[w] \subseteq flags'[w] /\ (late[w] > 0 => late'[w] > 0)
  <2>1. HowFits(w) => HowFits(w)'
    BY <1>1, <1>2, HowStays
  <2>2. QED
    BY <1>0, <1>2, <2>1 DEF Told
<1>3. CASE Exec(w)
  <2>1. proc' = [proc EXCEPT ![w].st = "running", ![w].copies = {}]
    BY <1>3 DEF Exec
  <2>2. proc'[w].st = "running"
    BY <1>0, <2>1 DEF ChildOK, Process
  <2>3. QED
    BY <2>2
<1>4. CASE Ends(w)
  <2>1. PICK how \in EndsBy(w), left \in BOOLEAN :
          proc' = [proc EXCEPT ![w].st = "dead", ![w].how = how, ![w].left = left]
    BY <1>4 DEF Ends
  <2>2. proc'[w].how \in EndsBy(w) /\ proc'[w].prog = proc[w].prog
    BY <1>0, <2>1 DEF ChildOK, Process
  <2>3. UNCHANGED late
    BY <1>4 DEF Ends
  <2>4. HowFits(w)'
    BY <1>1, <2>2, <2>3 DEF EndsBy, HowFits, SeenOver
  <2>5. QED
    BY <2>4
<1>5. CASE TimePasses(w)
  <2>1. late' = [late EXCEPT ![w] = @ + 1] /\ UNCHANGED <<proc, flags>>
    BY <1>5 DEF TimePasses
  <2>2. late[w] > 0 => late'[w] > 0
    BY <1>0, <2>1 DEF ChildOK
  <2>3. QED
    BY <1>2, <2>1, <2>2
<1>6. CASE Ask(w)
  BY <1>2, <1>6 DEF Ask
<1>7. CASE TimerFires(w) \/ WatcherSees(w)
  <2>1. /\ UNCHANGED <<proc, late>>
        /\ \/ flags' = [flags EXCEPT ![w] = @ \cup {"timed_out"}]
           \/ flags' = [flags EXCEPT ![w] = @ \cup {"aborted"}]
    BY <1>7 DEF TimerFires, WatcherSees
  <2>2. flags[w] \subseteq flags'[w]
    BY <1>0, <2>1 DEF ChildOK
  <2>3. QED
    BY <1>2, <2>1, <2>2
<1>8. CASE TimerKills(w) \/ WatcherKills(w)
  <2>1. /\ timer[w] = "mid" \/ watcher[w] = "mid"
        /\ proc' = Killed(w) /\ UNCHANGED <<late, flags>>
    BY <1>8 DEF TimerKills, WatcherKills
  <2>2. flags[w] # {}
    BY <1>0, <2>1 DEF Flagged
  <2>3. QED
    BY <1>1, <2>1, <2>2, KillFits
<1>9. CASE \E i \in DOMAIN Stages : MonStep(<<w, i>>)
  <2>1. PICK i \in DOMAIN Stages : MonStep(<<w, i>>)
    BY <1>9
  <2>2. UNCHANGED late
    BY <2>1 DEF MonStep, MonReads, MonGets, MonSamples, MonKills
  <2>3. CASE MonSamples(<<w, i>>)
    <3>1. /\ flags' = [flags EXCEPT ![w] = IF Done(<<w, i>>) THEN @ ELSE @ \cup {"exceeded"}]
          /\ UNCHANGED proc
      BY <2>3 DEF MonSamples
    <3>2. flags[w] \subseteq flags'[w]
      BY <1>0, <3>1 DEF ChildOK
    <3>3. QED
      BY <1>2, <2>2, <3>1, <3>2
  <2>4. CASE MonReads(<<w, i>>) \/ MonGets(<<w, i>>)
    BY <1>2, <2>2, <2>4 DEF MonReads, MonGets
  <2>5. CASE MonKills(<<w, i>>)
    <3>1. /\ mon[<<w, i>>].st = "mid" /\ UNCHANGED flags
          /\ proc' = IF <<w, i>> = Current(w) THEN Killed(w) ELSE proc
      BY <2>5 DEF MonKills
    <3>2. CASE <<w, i>> = Current(w)
      <4>1. flags[w] # {}
        BY <1>0, <3>1, <3>2 DEF Flagged
      <4>2. QED
        BY <1>1, <2>2, <3>1, <3>2, <4>1, KillFits
    <3>3. CASE <<w, i>> # Current(w)
      BY <1>2, <2>2, <3>1, <3>3
    <3>4. QED
      BY <3>2, <3>3
  <2>6. QED
    BY <2>1, <2>3, <2>4, <2>5 DEF MonStep
<1>10. QED
  BY <1>3, <1>4, <1>5, <1>6, <1>7, <1>8, <1>9 DEF Others, ChildStep, GuardStep

LEMMA ChildTold ==
    ASSUME TypeInv, PhaseInv, FlagInv, VerdictInv, NEW w \in Worker, Others(w)
    PROVE  Told(w)'
<1>0. WorkerOK /\ ChildOK /\ Told(w) /\ Phase(w)
  BY TypeParts DEF VerdictInv, PhaseInv
<1>1. UNCHANGED <<pc, stage, verdict, refused>>
  BY OthersLeaveTheWorker
<1>2. CASE pc[w] # "over"
  BY <1>0, <1>1, <1>2, DeathFits, ToldStays
<1>3. CASE pc[w] = "over"
  <2>1. ~Alive(w)
    BY <1>0, <1>3 DEF Phase, Alive
  <2>2. ~Fork(w) /\ ~NextStage(w)
    <3>1. ~Fork(w)
      BY <1>3 DEF Fork
    <3>2. ~NextStage(w)
      BY <1>0, <1>1, <1>3 DEF NextStage, WorkerOK
    <3>3. QED
      BY <3>1, <3>2
  <2>3. proc'[w].prog = proc[w].prog
    <3>1. Acts(w)
      BY DEF Acts, Others
    <3>2. QED
      BY <2>2, <3>1, ProgramStays
  <2>4. UNCHANGED late
    <3>1. ~TimePasses(w)
      BY <1>3 DEF TimePasses
    <3>2. QED
      BY <3>1 DEF Others, ChildStep, Exec, Ends, GuardStep, TimerFires, TimerKills, WatcherSees,
                  WatcherKills, Ask, MonStep, MonReads, MonGets, MonSamples, MonKills
  <2>5. UNCHANGED asked
    <3>1. ~Ask(w)
      BY <1>3 DEF Ask
    <3>2. QED
      BY <3>1 DEF Others, ChildStep, Exec, Ends, GuardStep, TimerFires, TimerKills, WatcherSees,
                  WatcherKills, TimePasses, MonStep, MonReads, MonGets, MonSamples, MonKills
  <2>6. Truthful(w)'
    <3>1. Truthful(w)
      BY <1>0 DEF Told
    <3>2. QED
      BY <1>1, <2>3, <2>4, <2>5, <3>1 DEF Truthful, Honest, Current
  <2>7. QED
    BY <1>1, <1>3, <2>6, DeathFits DEF Told
<1>4. QED
  BY <1>2, <1>3

LEMMA StepVerdict ==
    ASSUME TypeInv, PhaseInv, FlagInv, VerdictInv, NEW w \in Worker, Acts(w)
    PROVE  VerdictInv'
<1>1. Told(w)'
  BY WorkerTold, JudgedTold, ChildTold, ActsAre
<1>2. QED
  BY <1>1, OthersVerdict DEF VerdictInv

LEMMA StutterVerdict == ASSUME VerdictInv, UNCHANGED restVars PROVE VerdictInv'
<1> USE DEF restVars
<1> SUFFICES ASSUME NEW w \in Worker PROVE Told(w)'
  BY DEF VerdictInv
<1>1. Told(w)
  BY DEF VerdictInv
<1>2. HowFits(w) => HowFits(w)'
  BY DEF HowFits, SeenOver, Current
<1>3. Truthful(w) => Truthful(w)'
  BY DEF Truthful, Honest, Current
<1>4. QED
  BY <1>1, <1>2, <1>3 DEF Told

\* Whatever the program does and whoever kills it, the verdict says what happened: its own
\* failures are not the judge's kills, time and memory are what it used, and AB is asked for.
THEOREM VerdictIsHonest == Spec => []HonestVerdict
<1>1. Init => TypeInv /\ PhaseInv /\ FlagInv /\ VerdictInv
  BY InitType, InitPhase, InitFlag, InitVerdict
<1>2. TypeInv /\ PhaseInv /\ FlagInv /\ VerdictInv /\ [Next]_vars
        => (TypeInv /\ PhaseInv /\ FlagInv /\ VerdictInv)'
  <2>1. CASE UNCHANGED vars
    BY <2>1, StutterType, StutterPhase, StutterFlag, StutterVerdict DEF restVars
  <2>2. CASE Roams
    BY <2>2, RoamType, StutterPhase, StutterFlag, StutterVerdict DEF Roams
  <2>3. CASE \E w \in Worker : Acts(w)
    BY <2>3, StepType, StepPhase, StepFlag, StepVerdict
  <2>4. QED
    BY <2>1, <2>2, <2>3, SomebodyActs
<1>3. VerdictInv => HonestVerdict
  BY DEF VerdictInv, Told, Truthful, Honest, HonestVerdict
<1>4. QED
  BY <1>1, <1>2, <1>3, PTL DEF Spec

(***************************************************************************)
(* The descriptors.                                                        *)
(***************************************************************************)
\* Who still needs the descriptor n: the write ends until the fork, the monitor's until
\* the worker stops it, the report's until it is read.
Needed(n) ==
    LET r == fd[n][1]
        at == pc[r[1]]
    IN  /\ r = Current(r[1])
        /\ \/ fd[n][2] \in {"report_w", "exec_w"} /\ at = "piped"
           \/ fd[n][2] = "exec_r" /\ at \in {"piped", "waiting", "reaped"}
           \/ /\ fd[n][2] = "report_r" /\ n = report_r[r[1]]
              /\ at \in {"piped", "waiting", "reaped", "stopped", "swept"}

Held(n) == fd[n] # None => fd[n][1] \in refused \/ Needed(n)

FdInv == \A n \in Number : Held(n)

\* What an end says of itself.
LEMMA EndParts ==
    ASSUME NEW e \in End
    PROVE  /\ e = <<e[1], e[2]>> /\ e[1] \in Run /\ e[1][1] \in Worker
           /\ e[2] \in {"report_r", "report_w", "exec_r", "exec_w"}
           /\ e # None
BY DEF End, Run, None

\* A descriptor that stays open is held by another worker, or still needed by this one.
LEMMA HeldStays ==
    ASSUME TypeInv, FdInv, NEW w \in Worker, Acts(w), NEW n \in Number,
           fd[n] # None, fd'[n] = fd[n]
    PROVE  Held(n)'
<1> DEFINE e == fd[n]
           v == e[1][1]
<1>0. WorkerOK /\ ChildOK /\ e \in End /\ v \in Worker /\ e[1] \in Run
  <2>1. WorkerOK /\ FdOK /\ ChildOK
    BY TypeParts
  <2>2. e \in End
    BY <2>1 DEF FdOK
  <2>3. QED
    BY <2>1, <2>2, EndParts
<1>1. refused \subseteq refused'
  BY SettingsStay
<1>2. Held(n)
  BY DEF FdInv
<1>3. CASE e[1] \in refused
  BY <1>1, <1>3 DEF Held
<1>4. CASE Needed(n) /\ v # w
  <2>1. pc'[v] = pc[v] /\ report_r'[v] = report_r[v] /\ Current(v)' = Current(v)
    BY <1>0, <1>4, EachToItsOwn
  <2>2. Needed(n)'
    BY <1>4, <2>1 DEF Needed
  <2>3. QED
    BY <2>2 DEF Held
<1>5. CASE Needed(n) /\ v = w
  <2>1. /\ e[1] = Current(w)
        /\ \/ e[2] \in {"report_w", "exec_w"} /\ pc[w] = "piped"
           \/ e[2] = "exec_r" /\ pc[w] \in {"piped", "waiting", "reaped"}
           \/ /\ e[2] = "report_r" /\ n = report_r[w]
              /\ pc[w] \in {"piped", "waiting", "reaped", "stopped", "swept"}
    BY <1>5 DEF Needed
  <2>2. ASSUME UNCHANGED <<stage, report_r>>,
               \/ e[2] \in {"report_w", "exec_w"} /\ pc'[w] = "piped"
               \/ e[2] = "exec_r" /\ pc'[w] \in {"piped", "waiting", "reaped"}
               \/ /\ e[2] = "report_r" /\ n = report_r[w]
                  /\ pc'[w] \in {"piped", "waiting", "reaped", "stopped", "swept"}
        PROVE  Held(n)'
    <3>1. Needed(n)'
      BY <1>5, <2>1, <2>2 DEF Needed, Current
    <3>2. QED
      BY <3>1 DEF Held
  <2>3. CASE Cancelled(w) \/ Pipes(w)
    BY <2>1, <2>3 DEF Cancelled, Pipes
  <2>4. CASE Fork(w)
    <3>1. /\ pc[w] = "piped" /\ pc' = [pc EXCEPT ![w] = "waiting"]
          /\ fd' = Without(ClosedAfterFork(Current(w))) /\ UNCHANGED <<stage, report_r>>
      BY <2>4 DEF Fork
    <3>2. e \notin ClosedAfterFork(Current(w))
      <4>1. fd'[n] # None
        OBVIOUS
      <4>2. QED
        BY <3>1, <4>1 DEF Without
    <3>3. e[2] \notin {"report_w", "exec_w"}
      <4>1. e = <<Current(w), e[2]>>
        BY <1>0, <2>1, EndParts
      <4>2. QED
        BY <3>2, <4>1 DEF ClosedAfterFork
    <3>4. pc'[w] = "waiting"
      BY <1>0, <3>1 DEF WorkerOK
    <3>5. QED
      BY <2>1, <2>2, <3>1, <3>3, <3>4
  <2>5. CASE PipeRefused(w) \/ ForkFails(w)
    <3>1. e[1] \in refused'
      BY <2>1, <2>5 DEF PipeRefused, ForkFails
    <3>2. QED
      BY <3>1 DEF Held
  <2>6. CASE Reap(w)
    <3>1. pc[w] = "waiting" /\ pc'[w] = "reaped" /\ UNCHANGED <<stage, report_r>>
      BY <1>0, <2>6 DEF Reap, WorkerOK
    <3>2. QED
      BY <2>1, <2>2, <3>1
  <2>7. CASE Stop(w)
    <3>1. /\ pc[w] = "reaped" /\ pc' = [pc EXCEPT ![w] = "stopped"]
          /\ fd' = Without({<<Current(w), "exec_r">>}) /\ UNCHANGED <<stage, report_r>>
      BY <2>7 DEF Stop
    <3>2. e # <<Current(w), "exec_r">>
      <4>1. fd'[n] # None
        OBVIOUS
      <4>2. QED
        BY <3>1, <4>1 DEF Without
    <3>3. e[2] # "exec_r"
      BY <1>0, <2>1, <3>2, EndParts
    <3>4. pc'[w] = "stopped"
      BY <1>0, <3>1 DEF WorkerOK
    <3>5. QED
      BY <2>1, <2>2, <3>1, <3>3, <3>4
  <2>8. CASE Sweep(w)
    <3>1. pc[w] = "stopped" /\ pc'[w] = "swept" /\ UNCHANGED <<stage, report_r>>
      BY <1>0, <2>8 DEF Sweep, WorkerOK
    <3>2. QED
      BY <2>1, <2>2, <3>1
  <2>9. CASE Report(w)
    <3>1. /\ pc[w] = "swept"
          /\ fd' = [m \in Number |-> IF m = report_r[w] THEN None ELSE fd[m]]
      BY <2>9 DEF Report
    <3>2. n = report_r[w]
      BY <2>1, <3>1
    <3>3. fd'[n] = None
      BY <3>1, <3>2
    <3>4. QED
      BY <3>3
  <2>10. CASE Others(w)
    <3>1. UNCHANGED <<pc, stage, report_r>>
      BY <2>10, OthersLeaveTheWorker
    <3>2. QED
      BY <2>1, <2>2, <3>1
  <2>11. QED
    BY <2>3, <2>4, <2>5, <2>6, <2>7, <2>8, <2>9, <2>10, ActsAre
<1>6. QED
  BY <1>2, <1>3, <1>4, <1>5 DEF Held

\* Only a run that starts opens descriptors, and it knows the number of its report.
LEMMA OpenedIsNeeded ==
    ASSUME TypeInv, NEW w \in Worker, Pipes(w), NEW n \in Number,
           fd[n] = None, fd'[n] # None
    PROVE  Needed(n)'
<1> DEFINE r == Current(w)
<1>0. WorkerOK /\ r[1] = w /\ n \in Free /\ Rank(n) \in 1..Cardinality(Free)
      /\ Cardinality(Free) \in Nat
  BY TypeParts, CurrentType, RankType, FreeFinite DEF WorkerOK, Free
<1>1. pc'[w] = "piped" /\ Current(w)' = r
  BY <1>0 DEF Pipes, WorkerOK, Current
<1>2. ASSUME NEW kind \in {"report_r", "report_w", "exec_r", "exec_w"}, fd'[n] = <<r, kind>>,
             kind = "report_r" => n = report_r'[w]
      PROVE  Needed(n)'
  <2>1. fd'[n][1] = r /\ fd'[n][2] = kind
    BY <1>2
  <2> HIDE DEF r
  <2>2. QED
    BY <1>0, <1>1, <1>2, <2>1 DEF Needed
<1>3. CASE Helper(w)
  <2>1. /\ Cardinality(Free) >= 4 /\ report_r' = [report_r EXCEPT ![w] = Nth(1)]
        /\ fd' = Opened(<<<<r, "report_r">>, <<r, "report_w">>,
                          <<r, "exec_r">>, <<r, "exec_w">>>>)
    BY <1>3, PipesOpen
  <2>2. Rank(n) <= 4
    BY <1>0, <2>1 DEF Opened
  <2>3. PICK k \in {1, 2, 3, 4} : k = Rank(n)
    BY <1>0, <2>2
  <2>4. fd'[n] = <<<<r, "report_r">>, <<r, "report_w">>, <<r, "exec_r">>, <<r, "exec_w">>>>[k]
    BY <1>0, <2>1, <2>3 DEF Opened
  <2>5. CASE k = 1
    <3>1. n = Nth(1)
      <4>1. 1 \in 1..Cardinality(Free)
        BY <1>0, <2>1
      <4>2. QED
        BY <1>0, <2>3, <2>5, <4>1, NthIsFree
    <3>2. report_r'[w] = n
      BY <1>0, <2>1, <3>1 DEF WorkerOK
    <3>3. QED
      BY <1>2, <2>4, <2>5, <3>2
  <2>6. CASE k \in {2, 3, 4}
    <3>1. \E kind \in {"report_w", "exec_r", "exec_w"} : fd'[n] = <<r, kind>>
      BY <2>4, <2>6
    <3>2. QED
      BY <1>2, <3>1
  <2>7. QED
    BY <2>5, <2>6
<1>4. CASE ~Helper(w)
  <2>1. fd' = Opened(<<<<r, "exec_r">>, <<r, "exec_w">>>>)
    BY <1>4, PipesOpen
  <2>2. Rank(n) <= 2
    BY <1>0, <2>1 DEF Opened
  <2>3. PICK k \in {1, 2} : k = Rank(n)
    BY <1>0, <2>2
  <2>4. fd'[n] = <<<<r, "exec_r">>, <<r, "exec_w">>>>[k]
    BY <1>0, <2>1, <2>3 DEF Opened
  <2>5. \E kind \in {"exec_r", "exec_w"} : fd'[n] = <<r, kind>>
    BY <2>4
  <2>6. QED
    BY <1>2, <2>5
<1>5. QED
  BY <1>3, <1>4

\* A report pipe that stays open is of a run that was refused the other pipe.
LEMMA OpenedIsExcused ==
    ASSUME TypeInv, NEW w \in Worker, PipeRefused(w), NEW n \in Number,
           fd[n] = None, fd'[n] # None
    PROVE  Held(n)'
<1>1. /\ fd' = Opened(ReportPipe(w)) /\ Current(w) \in refused'
  BY DEF PipeRefused
<1>2. n \in Free /\ Rank(n) \in Nat \ {0} /\ Rank(n) <= Len(ReportPipe(w))
      /\ fd'[n] = ReportPipe(w)[Rank(n)]
  <2>1. n \in Free
    BY DEF Free
  <2>2. Rank(n) \in Nat \ {0}
    BY <2>1, RankType, FreeFinite
  <2>3. QED
    BY <1>1, <2>1, <2>2 DEF Opened
<1>3. fd'[n][1] = Current(w)
  <2>1. CASE Helper(w)
    <3>1. Rank(n) \in {1, 2}
      BY <1>2, <2>1 DEF ReportPipe
    <3>2. QED
      BY <1>2, <2>1, <3>1 DEF ReportPipe
  <2>2. CASE ~Helper(w)
    BY <1>2, <2>2 DEF ReportPipe
  <2>3. QED
    BY <2>1, <2>2
<1>4. QED
  BY <1>1, <1>3 DEF Held

LEMMA OpensOrCloses ==
    ASSUME TypeInv, NEW w \in Worker, Acts(w), NEW n \in Number
    PROVE  \/ fd'[n] = fd[n] \/ fd'[n] = None
           \/ (Pipes(w) \/ PipeRefused(w)) /\ fd[n] = None
<1>1. CASE Pipes(w) \/ PipeRefused(w)
  <2>1. UNCHANGED fd \/ \E ends : fd' = Opened(ends)
    BY <1>1 DEF Pipes, PipeRefused
  <2>2. QED
    BY <1>1, <2>1 DEF Opened, Free
<1>2. CASE Fork(w) \/ Stop(w)
  <2>1. \E ends : fd' = Without(ends)
    BY <1>2 DEF Fork, Stop
  <2>2. QED
    BY <2>1 DEF Without
<1>3. CASE Report(w)
  BY <1>3 DEF Report
<1>4. CASE Cancelled(w) \/ ForkFails(w) \/ Reap(w) \/ Sweep(w)
  BY <1>4 DEF Cancelled, ForkFails, Reap, Sweep
<1>5. CASE Others(w)
  BY <1>5, OthersLeaveTheWorker
<1>6. QED
  BY <1>1, <1>2, <1>3, <1>4, <1>5, ActsAre

LEMMA StepFd == ASSUME TypeInv, FdInv, NEW w \in Worker, Acts(w) PROVE FdInv'
<1> SUFFICES ASSUME NEW n \in Number PROVE Held(n)'
  BY DEF FdInv, Number
<1>1. CASE fd'[n] = None
  BY <1>1 DEF Held
<1>2. CASE fd'[n] = fd[n] /\ fd[n] # None
  BY <1>2, HeldStays
<1>3. CASE Pipes(w) /\ fd[n] = None /\ fd'[n] # None
  BY <1>3, OpenedIsNeeded DEF Held
<1>4. CASE PipeRefused(w) /\ fd[n] = None /\ fd'[n] # None
  BY <1>4, OpenedIsExcused
<1>5. QED
  BY <1>1, <1>2, <1>3, <1>4, OpensOrCloses

\* However the runs of the workers share the table, a number that is open is in use by a
\* run in progress, or was left by a run that was refused a pipe or a fork.
THEOREM DescriptorsComeBack == Spec => []DescriptorsReturned
<1>1. Init => TypeInv /\ FdInv
  <2>1. Init => FdInv
    <3>1. Init => fd = [n \in Number |-> None]
      BY DEF Init
    <3>2. QED
      BY <3>1 DEF FdInv, Held
  <2>2. QED
    BY <2>1, InitType
<1>2. TypeInv /\ FdInv /\ [Next]_vars => (TypeInv /\ FdInv)'
  <2>1. ASSUME FdInv, UNCHANGED restVars PROVE FdInv'
    BY <2>1 DEF restVars, FdInv, Held, Needed, Current, Number
  <2>2. CASE UNCHANGED vars
    BY <2>1, <2>2, StutterType DEF restVars
  <2>3. CASE Roams
    BY <2>1, <2>3, RoamType DEF Roams
  <2>4. CASE \E w \in Worker : Acts(w)
    BY <2>4, StepType, StepFd
  <2>5. QED
    BY <2>2, <2>3, <2>4, SomebodyActs
<1>3. FdInv => DescriptorsReturned
  BY DEF FdInv, Held, Needed, DescriptorsReturned
<1>4. QED
  BY <1>1, <1>2, <1>3, PTL DEF Spec
=============================================================================
