-------------------------- MODULE JudgeResultProofs --------------------------
(***************************************************************************)
(* What the submission page shows: a live page is of one run, a stored     *)
(* result is of one piece, and a submission is cancelled if and only if    *)
(* somebody asked for that.  The first two rest on RunInv and PageInv, the *)
(* cancellation on EventInv, PlaceInv and AskedInv.                        *)
(***************************************************************************)
EXTENDS JudgeSafetyProofs, FiniteSetTheorems

USE BoundsAssumption, ProblemAssumption, EventAssumption

USE DEF vars, dbVars, problemVars, workerVars, cancelVars, handlerVars, boundVars,
        historyVars, Sub, Test, NoSub, NoEvent, Final, InFlight, Judging, WorkerPc,
        HandlerPc, NoRow, PENDING, JUDGING, AC, WA, CE, IE, AB

(***************************************************************************)
(* The run a worker builds.                                                *)
(***************************************************************************)
Grading == {"ready", "loop", "running"}

\* The verdict of a run fits its tests at every point of judge(): AC as long as all
\* that finished passed, WA as soon as one failed; and what is about to be stored is
\* a whole run, a refused one without tests, or a cancelled one.
RunFits(r, place) ==
    /\ r.passed \subseteq 1..(r.next - 1)
    /\ place \in Grading => r.verdict \in {AC, WA}
    /\ place \in Grading \cup {"storing"} =>
         /\ r.verdict = AC => Failed(r) = {}
         /\ r.verdict = WA => Failed(r) # {}
    /\ place = "storing" =>
         /\ r.verdict = AC \/ (r.verdict = WA /\ Partial) => r.next = NTests + 1
         /\ r.verdict \in {CE, IE} => r.next = 1

RunInv == \A w \in Worker : RunFits(run[w], pc[w])

LEMMA RefusedFits ==
    ASSUME NEW ver, NEW v \in {CE, IE} PROVE RunFits(Outcome(ver, 1, {}, v), "storing")
BY DEF RunFits, Outcome, Grading

LEMMA NewFits ==
    ASSUME NEW ver, NEW place \in WorkerPc \ {"storing"}
    PROVE  RunFits(Outcome(ver, 1, {}, AC), place)
BY DEF RunFits, Outcome, Grading, Failed

\* One worker's run moves on.
LEMMA OneRunMoves ==
    ASSUME TypeOK, RunInv, NEW w \in Worker, NEW r, NEW place,
           run' = [run EXCEPT ![w] = r], pc' = [pc EXCEPT ![w] = place], RunFits(r, place)
    PROVE  RunInv'
BY DEF RunInv, TypeOK, WorkerTypeOK, RunFits, Failed, Grading

\* A step that leaves the runs alone and starts or stores none.
LEMMA RunsStay ==
    ASSUME RunInv, UNCHANGED run,
           \A w \in Worker : pc'[w] = pc[w] \/ pc'[w] \notin Grading \cup {"storing"}
    PROVE  RunInv'
<1> SUFFICES ASSUME NEW w \in Worker PROVE RunFits(run[w], pc[w])'
  BY DEF RunInv
<1>1. RunFits(run[w], pc[w]) /\ run'[w] = run[w]
  BY DEF RunInv
<1>2. QED
  BY <1>1 DEF RunFits, Failed, Grading

LEMMA InitRun == Init => RunInv
BY NewFits DEF Init, RunInv, NewRun

LEMMA EndTestRun ==
    ASSUME TypeOK, RunInv, NEW w \in Worker, NEW ok \in BOOLEAN, NEW published \in BOOLEAN,
           EndTest(w, ok, published)
    PROVE  RunInv'
<1> DEFINE i == run[w].next
           passed == IF ok THEN run[w].passed \cup {i} ELSE run[w].passed
           v == IF ok THEN run[w].verdict ELSE WA
           place == IF Ends(i, ok) THEN "storing" ELSE "loop"
           r == Outcome(run[w].ver, i + 1, passed, v)
<1>1. pc[w] = "running" /\ run' = [run EXCEPT ![w] = r] /\ pc' = [pc EXCEPT ![w] = place]
  BY DEF EndTest, Goto
<1>2. i \in 1..NTests /\ RunFits(run[w], "running")
  BY <1>1 DEF TypeOK, WorkerTypeOK, RunInv
<1>3. /\ r.passed = passed /\ r.next = i + 1 /\ r.verdict = v
      /\ Failed(r) = (1..i) \ passed
  BY <1>2 DEF Outcome, Failed
<1>4. /\ run[w].passed \subseteq 1..(i - 1) /\ run[w].verdict \in {AC, WA}
      /\ run[w].verdict = AC => Failed(run[w]) = {}
      /\ run[w].verdict = WA => Failed(run[w]) # {}
      /\ Failed(run[w]) = (1..(i - 1)) \ run[w].passed
  BY <1>2 DEF RunFits, Grading, Failed
<1>5. r.passed \subseteq 1..(r.next - 1)
  BY <1>2, <1>3, <1>4
<1>6. v = AC => Failed(r) = {}
  <2> SUFFICES ASSUME v = AC PROVE \A j \in 1..i : j \in passed
    BY <1>3
  <2>1. ok /\ \A j \in 1..(i - 1) : j \in run[w].passed
    BY <1>4
  <2>2. QED
    BY <1>2, <2>1
<1>7. v = WA => Failed(r) # {}
  <2> SUFFICES ASSUME v = WA PROVE \E j \in 1..i : j \notin passed
    BY <1>3
  <2>1. CASE ok
    <3>1. PICK j \in 1..(i - 1) : j \notin run[w].passed
      BY <1>4, <2>1
    <3>2. QED
      BY <1>2, <3>1, <2>1
  <2>2. CASE ~ok
    <3>1. i \notin run[w].passed /\ i \in 1..i
      BY <1>2, <1>4
    <3>2. QED
      BY <3>1, <2>2
  <2>3. QED
    BY <2>1, <2>2
<1>8. place = "storing" => (v = AC \/ (v = WA /\ Partial) => i = NTests)
  BY <1>4 DEF Ends
<1>9. RunFits(r, place)
  BY <1>2, <1>3, <1>4, <1>5, <1>6, <1>7, <1>8 DEF RunFits, Grading
<1>10. QED
  BY <1>1, <1>9, OneRunMoves

LEMMA StepRun == TypeOK /\ RunInv /\ [Next]_vars => RunInv'
<1> SUFFICES ASSUME TypeOK, RunInv, [Next]_vars PROVE RunInv'
  OBVIOUS
<1> USE DEF Goto
<1>1. ASSUME NEW w \in Worker, Load(w) PROVE RunInv'
  <2>1. CASE run' = [run EXCEPT ![w] = Outcome(LoadedTests, 1, {}, AC)] /\ Goto(w, "ready")
    BY <2>1, NewFits, OneRunMoves
  <2>2. CASE run' = [run EXCEPT ![w] = Outcome(0, 1, {}, IE)] /\ Goto(w, "storing")
    BY <2>2, RefusedFits, OneRunMoves
  <2>3. QED
    BY <1>1, <2>1, <2>2 DEF Load
<1>2. ASSUME NEW w \in Worker, Breaks(w) \/ \E v \in {CE, IE} : Refuse(w, v) PROVE RunInv'
  <2>1. PICK v \in {CE, IE} : run' = [run EXCEPT ![w] = Outcome(run[w].ver, 1, {}, v)]
    BY <1>2 DEF Breaks, Refuse
  <2>2. Goto(w, "storing")
    BY <1>2 DEF Breaks, Refuse
  <2>3. QED
    BY <2>1, <2>2, RefusedFits, OneRunMoves
<1>3. ASSUME NEW w \in Worker, Compiled(w) \/ BeginTest(w) PROVE RunInv'
  <2>1. pc[w] \in Grading /\ UNCHANGED run
    BY <1>3 DEF Compiled, BeginTest, Grading
  <2>2. PICK place \in Grading : Goto(w, place)
    BY <1>3 DEF Compiled, BeginTest, Grading
  <2>3. RunFits(run[w], place)
    BY <2>1, <2>2 DEF RunInv, RunFits, Grading
  <2>4. run' = [run EXCEPT ![w] = run[w]]
    BY <2>1 DEF TypeOK, WorkerTypeOK
  <2>5. QED
    BY <2>2, <2>3, <2>4, OneRunMoves
<1>4. ASSUME NEW w \in Worker, Cancelled(w) PROVE RunInv'
  <2> DEFINE r == Outcome(run[w].ver, run[w].next, run[w].passed, AB)
  <2>1. run' = [run EXCEPT ![w] = r] /\ Goto(w, "storing")
    BY <1>4 DEF Cancelled
  <2>2. RunFits(r, "storing")
    BY DEF RunInv, RunFits, Outcome, Grading
  <2>3. QED
    BY <2>1, <2>2, OneRunMoves
<1>5. ASSUME NEW w \in Worker, Store(w) PROVE RunInv'
  <2>1. PICK place \in {"releasing", "unwinding"} : Goto(w, place)
    BY <1>5 DEF Store
  <2>2. run' = [run EXCEPT ![w] = NewRun]
    BY <1>5 DEF Store
  <2>3. QED
    BY <2>1, <2>2, NewFits, OneRunMoves DEF NewRun
<1>6. ASSUME NEW w \in Worker,
             Claim(w) \/ Reset(w) \/ Vanished(w) \/ Release(w) \/ RecordCrash(w)
      PROVE  RunInv'
  <2>1. UNCHANGED run
    BY <1>6 DEF Claim, Reset, Vanished, Release, RecordCrash
  <2>2. PICK place \in WorkerPc \ (Grading \cup {"storing"}) : Goto(w, place)
    BY <1>6 DEF Claim, Reset, Vanished, Release, RecordCrash, Grading
  <2>3. QED
    BY <2>1, <2>2, RunsStay DEF TypeOK, WorkerTypeOK
<1>7. ASSUME NEW w \in Worker, Fault(w) PROVE RunInv'
  <2>1. PICK place \in {"crashed", "unwinding", "idle"} : Goto(w, place)
    BY <1>7 DEF Fault
  <2>2. CASE UNCHANGED run
    BY <2>1, <2>2, RunsStay DEF TypeOK, WorkerTypeOK, Grading
  <2>3. CASE run' = [run EXCEPT ![w] = NewRun]
    BY <2>1, <2>3, NewFits, OneRunMoves DEF NewRun
  <2>4. QED
    BY <1>7, <2>2, <2>3 DEF Fault
<1>8. CASE Crash
  <2>1. \A w \in Worker : run'[w] = NewRun /\ pc'[w] = "idle"
    BY <1>8 DEF Crash
  <2>2. QED
    BY <2>1, NewFits DEF RunInv, NewRun
<1>9. CASE \/ Submit \/ FixTests \/ DeleteProblem \/ Restart \/ UNCHANGED vars
           \/ \E S \in SUBSET Sub : Rejudge(S)
           \/ \E h \in Handler : HandlerStep(h) \/ AbortFault(h)
  <2>1. UNCHANGED <<run, pc>>
    BY <1>9 DEF Submit, FixTests, DeleteProblem, Restart, Rejudge, HandlerStep, AbortRead,
                AbortRequest, AbortSettle, AbortRelease, AbortFault
  <2>2. QED
    BY <2>1, RunsStay
<1>10. QED
  BY <1>1, <1>2, <1>3, <1>4, <1>5, <1>6, <1>7, <1>8, <1>9, EndTestRun
     DEF Next, WorkerStep, RejudgeOne, RejudgeProblem

(***************************************************************************)
(* The page while a run goes on.                                           *)
(***************************************************************************)
Shown == Grading \cup {"cleared"}

\* LivePage for one worker, and what it starts from: the row is empty between the
\* reset and the first test.
PageFits(w) ==
    pc[w] \in Shown /\ Exists(job[w]) /\ job[w] \notin struck =>
        /\ rows[job[w]].pass \subseteq run[w].passed
        /\ rows[job[w]].fail \subseteq Failed(run[w])
        /\ score[job[w]] = Cardinality(rows[job[w]].pass)
        /\ pc[w] = "cleared" => rows[job[w]] = NoTests

PageInv == \A w \in Worker : PageFits(w)

LEMMA Alone ==
    ASSUME TypeOK, ClaimInv, NEW v \in Worker, NEW w \in Worker, v # w,
           pc[v] \in Judging, pc[w] \in Judging, job[v] = job[w]
    PROVE  job[v] \in struck
<1>1. job[v] \in Sub
  BY DEF TypeOK, WorkerTypeOK
<1>2. v \in Holders(job[v]) /\ w \in Holders(job[v])
  BY DEF Holders
<1>3. QED
  BY <1>1, <1>2 DEF ClaimInv, ExclusiveJudging

\* A worker that keeps its run, and whose row nobody touched.
LEMMA PageStays ==
    ASSUME PageInv, NEW w \in Worker,
           pc'[w] \in Shown =>
             /\ pc[w] \in Shown /\ job'[w] = job[w] /\ run'[w] = run[w]
             /\ pc'[w] = "cleared" => pc[w] = "cleared"
             /\ Exists(job[w])' /\ job[w] \notin struck' =>
                  /\ Exists(job[w]) /\ job[w] \notin struck
                  /\ rows'[job[w]] = rows[job[w]] /\ score'[job[w]] = score[job[w]]
    PROVE  PageFits(w)'
<1> SUFFICES ASSUME pc'[w] \in Shown, Exists(job[w])', job'[w] \notin struck'
             PROVE  /\ rows'[job'[w]].pass \subseteq run'[w].passed
                    /\ rows'[job'[w]].fail \subseteq Failed(run'[w])
                    /\ score'[job'[w]] = Cardinality(rows'[job'[w]].pass)
                    /\ pc'[w] = "cleared" => rows'[job'[w]] = NoTests
  BY DEF PageFits, Failed
<1>1. /\ pc[w] \in Shown /\ job'[w] = job[w] /\ run'[w] = run[w]
      /\ pc'[w] = "cleared" => pc[w] = "cleared"
  OBVIOUS
<1>2. /\ Exists(job[w]) /\ job[w] \notin struck
      /\ rows'[job[w]] = rows[job[w]] /\ score'[job[w]] = score[job[w]]
  BY <1>1 DEF Exists
<1>3. QED
  BY <1>1, <1>2 DEF PageInv, PageFits

\* What a worker writes to its own row is on no other worker's page.
LEMMA OthersPage ==
    ASSUME TypeOK, ClaimInv, PageInv, NEW w \in Worker, pc[w] \in Judging,
           NEW v \in Worker \ {w}, UNCHANGED struck,
           pc'[v] = pc[v], job'[v] = job[v], run'[v] = run[v],
           \A s \in Sub \ {job[w]} : /\ verdict'[s] = verdict[s]
                                     /\ rows'[s] = rows[s] /\ score'[s] = score[s]
    PROVE  PageFits(v)'
<1>1. pc[v] \in Shown => pc[v] \in Judging /\ job[v] \in Sub
  BY DEF Shown, Grading, TypeOK, WorkerTypeOK
<1>2. pc[v] \in Shown /\ job[v] \notin struck => job[v] # job[w]
  BY <1>1, Alone
<1>3. QED
  BY <1>1, <1>2, PageStays DEF Exists

\* Nothing but the place of one worker, or the runs of those that show nothing.
LEMMA PagesStay ==
    ASSUME PageInv, UNCHANGED <<verdict, struck, rows, score>>,
           \A w \in Worker :
             pc'[w] \in Shown =>
               /\ pc[w] \in Shown /\ job'[w] = job[w] /\ run'[w] = run[w]
               /\ pc'[w] = "cleared" => pc[w] = "cleared"
    PROVE  PageInv'
BY PageStays DEF PageInv, Exists

LEMMA EndTestPage ==
    ASSUME TypeOK, ClaimInv, RunInv, PageInv, NEW w \in Worker,
           NEW ok \in BOOLEAN, NEW published \in BOOLEAN, EndTest(w, ok, published)
    PROVE  PageInv'
<1> DEFINE i == run[w].next
           s == job[w]
           passed == IF ok THEN run[w].passed \cup {i} ELSE run[w].passed
<1>1. /\ pc[w] = "running" /\ s \in Sub /\ i \in Test
      /\ run[w] \in Outcomes /\ pc'[w] \in {"storing", "loop"}
      /\ UNCHANGED <<verdict, struck, job>>
  BY DEF EndTest, Goto, TypeOK, WorkerTypeOK
<1>2. run'[w].passed = passed /\ Failed(run'[w]) = (1..i) \ passed
  BY <1>1 DEF EndTest, Outcome, Failed, TypeOK, WorkerTypeOK
<1>3. ASSUME NEW v \in Worker \ {w} PROVE PageFits(v)'
  <2>1. pc'[v] = pc[v] /\ job'[v] = job[v] /\ run'[v] = run[v]
    BY DEF EndTest, Goto, TypeOK, WorkerTypeOK
  <2>2. \A q \in Sub \ {s} : rows'[q] = rows[q] /\ score'[q] = score[q]
    BY <1>1 DEF EndTest, Publish, Updated, TypeOK, DbTypeOK
  <2>3. QED
    BY <1>1, <2>1, <2>2, OthersPage
<1>4. PageFits(w)'
  <2> SUFFICES ASSUME Exists(s), s \notin struck
               PROVE  /\ rows'[s].pass \subseteq passed
                      /\ rows'[s].fail \subseteq (1..i) \ passed
                      /\ score'[s] = Cardinality(rows'[s].pass)
    BY <1>1, <1>2 DEF PageFits, Exists
  <2>1. /\ rows[s].pass \subseteq run[w].passed
        /\ rows[s].fail \subseteq (1..(i - 1)) \ run[w].passed
        /\ score[s] = Cardinality(rows[s].pass)
    BY <1>1 DEF PageInv, PageFits, Shown, Grading, Failed
  <2>2. run[w].passed \subseteq 1..(i - 1)
    BY <1>1 DEF RunInv, RunFits
  <2>3. CASE published
    <3>1. Publish(s, i, ok)
      BY <2>3 DEF EndTest
    <3>2. /\ rows[s] \in [pass : SUBSET Test, fail : SUBSET Test]
          /\ rows \in [Sub -> [pass : SUBSET Test, fail : SUBSET Test]]
          /\ score \in [Sub -> Nat]
      BY <1>1 DEF TypeOK, DbTypeOK
    <3>3. i \notin rows[s].pass /\ i \notin rows[s].fail /\ i \notin run[w].passed
      BY <1>1, <2>1, <2>2
    <3>4. /\ rows'[s].pass = IF ok THEN rows[s].pass \cup {i} ELSE rows[s].pass
          /\ rows'[s].fail = IF ok THEN rows[s].fail ELSE rows[s].fail \cup {i}
          /\ score'[s] = score[s] + IF ok THEN 1 ELSE 0
      <4>1. score'[s] = score[s] + IF ok THEN 1 ELSE 0
        BY <1>1, <3>1, <3>2 DEF Publish, Updated
      <4>2. CASE ok
        <5>1. rows'[s] = [pass |-> rows[s].pass \cup {i}, fail |-> rows[s].fail \ {i}]
          BY <1>1, <3>1, <3>2, <4>2 DEF Publish
        <5>2. QED
          BY <3>3, <4>1, <4>2, <5>1
      <4>3. CASE ~ok
        <5>1. rows'[s] = [pass |-> rows[s].pass \ {i}, fail |-> rows[s].fail \cup {i}]
          BY <1>1, <3>1, <3>2, <4>3 DEF Publish
        <5>2. QED
          BY <3>3, <4>1, <4>3, <5>1
      <4>4. QED
        BY <4>2, <4>3
    <3>5. IsFiniteSet(rows[s].pass)
      <4>1. IsFiniteSet(Test)
        BY FS_Interval
      <4>2. rows[s].pass \in SUBSET Test
        BY <3>2
      <4>3. QED
        BY <4>1, <4>2, FS_Subset
    <3>6. score'[s] = Cardinality(rows'[s].pass)
      <4>1. Cardinality(rows[s].pass \cup {i}) = Cardinality(rows[s].pass) + 1
        BY <3>3, <3>5, FS_AddElement
      <4>2. Cardinality(rows[s].pass) \in Nat
        BY <3>2, PointsType
      <4>3. QED
        BY <2>1, <3>4, <4>1, <4>2
    <3>7. QED
      BY <1>1, <2>1, <2>2, <3>4, <3>6
  <2>4. CASE ~published
    <3>1. UNCHANGED <<rows, score>>
      BY <2>4 DEF EndTest
    <3>2. QED
      BY <1>1, <2>1, <2>2, <3>1
  <2>5. QED
    BY <2>3, <2>4
<1>5. QED
  BY <1>3, <1>4 DEF PageInv

LEMMA InitPage == Init => PageInv
BY DEF Init, PageInv, PageFits, Shown, Grading

LEMMA StepPage == TypeOK /\ ClaimInv /\ RunInv /\ PageInv /\ [Next]_vars => PageInv'
<1> SUFFICES ASSUME TypeOK, ClaimInv, RunInv, PageInv, [Next]_vars PROVE PageInv'
  OBVIOUS
<1> USE DEF Goto
<1>1. CASE Submit
  <2>1. \A w \in Worker : job[w] # created + 1
    BY DEF ClaimInv, TypeOK, BoundTypeOK, WorkerTypeOK
  <2>2. \A s \in Sub \ {created + 1} : verdict'[s] = verdict[s]
    BY <1>1 DEF Submit, TypeOK, DbTypeOK
  <2>3. \A w \in Worker : pc[w] \in Shown => job[w] \in Sub
    BY DEF TypeOK, WorkerTypeOK, Shown, Grading
  <2>4. ASSUME NEW w \in Worker PROVE PageFits(w)'
    BY <1>1, <2>1, <2>2, <2>3, PageStays DEF Submit, Exists
  <2>5. QED
    BY <2>4 DEF PageInv
<1>2. ASSUME NEW S \in SUBSET Sub, Rejudge(S) PROVE PageInv'
  <2>1. /\ UNCHANGED <<pc, job, run, rows, score>> /\ struck \subseteq struck'
        /\ \A s \in Sub : Exists(s)' => Exists(s)
    BY <1>2 DEF Rejudge, Exists
  <2>2. \A w \in Worker : pc[w] \in Shown => job[w] \in Sub
    BY DEF TypeOK, WorkerTypeOK, Shown, Grading
  <2>3. QED
    BY <2>1, <2>2, PageStays DEF PageInv
<1>3. CASE DeleteProblem
  <2>1. UNCHANGED <<pc, job, run, struck>> /\ \A s \in Sub : ~Exists(s)'
    BY <1>3 DEF DeleteProblem, Exists
  <2>2. \A w \in Worker : pc[w] \in Shown => job[w] \in Sub
    BY DEF TypeOK, WorkerTypeOK, Shown, Grading
  <2>3. QED
    BY <2>1, <2>2, PageStays DEF PageInv
<1>4. CASE Crash \/ Restart
  <2>1. \A w \in Worker : pc'[w] = "idle"
    BY <1>4 DEF Crash, Restart, ClaimInv
  <2>2. QED
    BY <2>1 DEF PageInv, PageFits, Shown, Grading
<1>5. ASSUME NEW w \in Worker, Claim(w) PROVE PageInv'
  <2>1. PICK s \in Sub : OldestPending(s) /\ verdict' = [verdict EXCEPT ![s] = JUDGING]
    BY <1>5 DEF Claim, MarkJudging
  <2>2. \A q \in Sub : Exists(q)' => Exists(q)
    BY <2>1 DEF OldestPending, Exists, TypeOK, DbTypeOK
  <2>3. /\ UNCHANGED <<run, rows, score, struck>> /\ pc'[w] = "claimed"
        /\ \A v \in Worker \ {w} : pc'[v] = pc[v] /\ job'[v] = job[v]
    BY <1>5 DEF Claim, TypeOK, WorkerTypeOK
  <2>4. \A v \in Worker : pc[v] \in Shown => job[v] \in Sub
    BY DEF TypeOK, WorkerTypeOK, Shown, Grading
  <2>5. PageFits(w)'
    BY <2>3 DEF PageFits, Shown, Grading
  <2>6. ASSUME NEW v \in Worker \ {w} PROVE PageFits(v)'
    BY <2>2, <2>3, <2>4, PageStays
  <2>7. QED
    BY <2>5, <2>6 DEF PageInv
<1>6. ASSUME NEW w \in Worker, Reset(w) PROVE PageInv'
  <2>1. pc[w] = "claimed" /\ job[w] \in Sub
    BY <1>6 DEF Reset, TypeOK, WorkerTypeOK
  <2>2. /\ rows' = [rows EXCEPT ![job[w]] = NoTests]
        /\ score' = [score EXCEPT ![job[w]] = 0]
        /\ pc' = [pc EXCEPT ![w] = "cleared"] /\ UNCHANGED <<verdict, job, run, struck>>
    BY <1>6 DEF Reset, ClearEarlierRun
  <2>3. rows'[job[w]] = NoTests /\ score'[job[w]] = 0
    BY <2>1, <2>2 DEF TypeOK, DbTypeOK
  <2>4. PageFits(w)'
    <3>1. job'[w] = job[w] /\ Cardinality({}) = 0
      BY <2>2, FS_EmptySet
    <3>2. NoTests.pass = {} /\ NoTests.fail = {}
      BY DEF NoTests
    <3>3. QED
      BY <2>3, <3>1, <3>2 DEF PageFits
  <2>5. ASSUME NEW v \in Worker \ {w} PROVE PageFits(v)'
    BY <2>1, <2>2, OthersPage DEF TypeOK, DbTypeOK, WorkerTypeOK
  <2>6. QED
    BY <2>4, <2>5 DEF PageInv
<1>7. ASSUME NEW w \in Worker, Load(w) PROVE PageInv'
  <2>1. /\ pc[w] = "cleared" /\ pc'[w] \in {"ready", "storing"}
        /\ UNCHANGED <<verdict, struck, rows, score, job>>
        /\ \A v \in Worker \ {w} : pc'[v] = pc[v] /\ run'[v] = run[v]
    BY <1>7 DEF Load, TypeOK, WorkerTypeOK
  <2>2. ASSUME NEW v \in Worker \ {w} PROVE PageFits(v)'
    BY <2>1, PageStays DEF Exists
  <2>3. PageFits(w)'
    <3>1. Exists(job[w]) /\ job[w] \notin struck =>
            rows[job[w]] = NoTests /\ score[job[w]] = Cardinality(rows[job[w]].pass)
      BY <2>1 DEF PageInv, PageFits, Shown
    <3>2. QED
      BY <2>1, <3>1 DEF PageFits, Exists, NoTests
  <2>4. QED
    BY <2>2, <2>3 DEF PageInv
<1>8. ASSUME NEW w \in Worker, Store(w) \/ RecordCrash(w) PROVE PageInv'
  <2>1. pc[w] \in Judging /\ job[w] \in Sub /\ pc'[w] \notin Shown /\ UNCHANGED struck
    BY <1>8 DEF Store, RecordCrash, TypeOK, WorkerTypeOK, Shown, Grading
  <2>2. \A s \in Sub \ {job[w]} : /\ verdict'[s] = verdict[s]
                                  /\ rows'[s] = rows[s] /\ score'[s] = score[s]
    BY <1>8, <2>1 DEF Store, RecordCrash, WriteOutcome, RowsOf, Updated, TypeOK, DbTypeOK
  <2>3. \A v \in Worker \ {w} : pc'[v] = pc[v] /\ job'[v] = job[v] /\ run'[v] = run[v]
    BY <1>8 DEF Store, RecordCrash, TypeOK, WorkerTypeOK
  <2>4. PageFits(w)'
    BY <2>1 DEF PageFits
  <2>5. ASSUME NEW v \in Worker \ {w} PROVE PageFits(v)'
    BY <2>1, <2>2, <2>3, OthersPage
  <2>6. QED
    BY <2>4, <2>5 DEF PageInv
<1>9. ASSUME NEW h \in Handler, AbortSettle(h) PROVE PageInv'
  <2>1. UNCHANGED <<pc, job, run, rows, score, struck>> /\ \A s \in Sub : Exists(s)' => Exists(s)
    BY <1>9 DEF AbortSettle, StillQueued, Exists, TypeOK, DbTypeOK
  <2>2. \A w \in Worker : pc[w] \in Shown => job[w] \in Sub
    BY DEF TypeOK, WorkerTypeOK, Shown, Grading
  <2>3. QED
    BY <2>1, <2>2, PageStays DEF PageInv
<1>10. ASSUME NEW w \in Worker,
              \/ Vanished(w) \/ Compiled(w) \/ BeginTest(w) \/ Cancelled(w) \/ Breaks(w)
              \/ Release(w) \/ Fault(w) \/ \E v \in {CE, IE} : Refuse(w, v)
       PROVE  PageInv'
  <2>1. UNCHANGED <<verdict, struck, rows, score>>
    BY <1>10 DEF Vanished, Compiled, BeginTest, Cancelled, Breaks, Release, Fault, Refuse
  <2>2. \A v \in Worker \ {w} : pc'[v] = pc[v] /\ job'[v] = job[v] /\ run'[v] = run[v]
    BY <1>10 DEF Vanished, Compiled, BeginTest, Cancelled, Breaks, Release, Fault, Refuse,
                 TypeOK, WorkerTypeOK
  <2>3. pc'[w] \in Shown => pc[w] \in Shown /\ UNCHANGED <<job, run>> /\ pc'[w] # "cleared"
    BY <1>10 DEF Vanished, Compiled, BeginTest, Cancelled, Breaks, Release, Fault, Refuse,
                 TypeOK, WorkerTypeOK, Shown, Grading
  <2>4. QED
    BY <2>1, <2>2, <2>3, PagesStay
<1>11. CASE \/ FixTests \/ UNCHANGED vars
            \/ \E h \in Handler : AbortRead(h) \/ AbortRequest(h) \/ AbortRelease(h) \/ AbortFault(h)
  <2>1. UNCHANGED <<verdict, struck, rows, score, pc, job, run>>
    BY <1>11 DEF FixTests, AbortRead, AbortRequest, AbortRelease, AbortFault
  <2>2. QED
    BY <2>1, PagesStay
<1>12. QED
  BY <1>1, <1>2, <1>3, <1>4, <1>5, <1>6, <1>7, <1>8, <1>9, <1>10, <1>11, EndTestPage
     DEF Next, WorkerStep, HandlerStep, RejudgeOne, RejudgeProblem

\* What the submission page shows during a run is this run's: the tests it finished,
\* with the results it gave them, and a score that adds up (publish_test, judge_submission).
THEOREM PageIsLive == Spec => []LivePage
<1>1. Init => TypeOK /\ ClaimInv /\ RunInv /\ PageInv
  BY InitTypeOK, InitClaim, InitRun, InitPage
<1>2. TypeOK /\ ClaimInv /\ RunInv /\ PageInv /\ [Next]_vars
        => (TypeOK /\ ClaimInv /\ RunInv /\ PageInv)'
  BY StepTypeOK, StepClaim, StepRun, StepPage
<1>3. PageInv => LivePage
  BY DEF PageInv, PageFits, LivePage, Shown, Grading
<1>4. QED
  BY <1>1, <1>2, <1>3, PTL DEF Spec

(***************************************************************************)
(* The stored result.                                                      *)
(***************************************************************************)
\* CoherentResult for one submission.
Coherent(s) ==
    /\ verdict[s] = AC => rows[s] = [pass |-> Test, fail |-> {}] /\ earned[s] = Percent[Test]
    /\ verdict[s] = WA =>
         /\ rows[s].fail # {}
         /\ earned[s] = Percent[rows[s].pass]
         /\ Partial => rows[s].pass \cup rows[s].fail = Test
    /\ verdict[s] \in {CE, IE} => rows[s] = NoTests /\ earned[s] = 0
    /\ verdict[s] \in Final \ {AB} => score[s] = Cardinality(rows[s].pass)

LEMMA CoherentParts == CoherentResult <=> \A s \in Sub \ struck : Coherent(s)
BY DEF CoherentResult, Coherent

\* store_outcome writes a result of one piece when the run is one (RunFits).
LEMMA WrittenCoherent ==
    ASSUME TypeOK, NEW s \in Sub, Exists(s), NEW r \in Outcomes, RunFits(r, "storing"),
           WriteOutcome(s, r)
    PROVE  Coherent(s)'
<1>1. /\ verdict'[s] = r.verdict
      /\ rows'[s] = [pass |-> r.passed, fail |-> Failed(r)]
      /\ score'[s] = IF r.verdict = AB THEN 0 ELSE Cardinality(r.passed)
      /\ earned'[s] = IF r.verdict \in {CE, AB} THEN 0 ELSE Percent[r.passed]
  BY DEF WriteOutcome, RowsOf, Updated, TypeOK, DbTypeOK
<1>2. /\ r.passed \subseteq 1..(r.next - 1) /\ r.next \in 1..(NTests + 1)
      /\ Failed(r) = (1..(r.next - 1)) \ r.passed
  BY DEF RunFits, Outcomes, Failed
<1>3. CASE r.verdict = AC
  <2>1. Failed(r) = {} /\ r.next = NTests + 1
    BY <1>3 DEF RunFits
  <2>2. r.next - 1 = NTests
    BY <2>1
  <2>3. r.passed \subseteq Test /\ Test \ r.passed = {}
    BY <1>2, <2>1, <2>2
  <2>4. r.passed = Test
    BY <2>3
  <2>5. QED
    BY <1>1, <1>3, <2>1, <2>4 DEF Coherent
<1>4. CASE r.verdict = WA
  <2>1. Failed(r) # {} /\ (Partial => r.passed \cup Failed(r) = Test)
    BY <1>2, <1>4 DEF RunFits
  <2>2. QED
    BY <1>1, <1>4, <2>1 DEF Coherent
<1>5. CASE r.verdict \in {CE, IE}
  <2>1. r.passed = {} /\ Failed(r) = {}
    BY <1>2, <1>5 DEF RunFits
  <2>2. QED
    BY <1>1, <1>5, <2>1 DEF Coherent, NoTests
<1>6. CASE r.verdict = AB
  BY <1>1, <1>6 DEF Coherent
<1>7. QED
  BY <1>3, <1>4, <1>5, <1>6 DEF Outcomes

\* The three statements that give a row a final verdict.
LEMMA WhoSettles ==
    ASSUME TypeOK, [Next]_vars, NEW s \in Sub, verdict'[s] \in Final, verdict'[s] # verdict[s]
    PROVE  \/ verdict'[s] = AB
           \/ /\ Exists(s)
              /\ \/ \E w \in Worker : pc[w] = "storing" /\ WriteOutcome(s, run[w])
                 \/ WriteOutcome(s, Outcome(0, 1, {}, IE))
<1> DEFINE G == \/ verdict'[s] = AB
                \/ /\ Exists(s)
                   /\ \/ \E w \in Worker : pc[w] = "storing" /\ WriteOutcome(s, run[w])
                      \/ WriteOutcome(s, Outcome(0, 1, {}, IE))
<1> SUFFICES G
  OBVIOUS
<1>1. ASSUME NEW w \in Worker, NEW r, WriteOutcome(job[w], r), pc[w] # "idle"
      PROVE  Exists(s) /\ job[w] = s
  BY <1>1 DEF WriteOutcome, Updated, Exists, TypeOK, DbTypeOK, WorkerTypeOK
<1>2. ASSUME NEW w \in Worker, Store(w) PROVE G
  <2>1. pc[w] = "storing" /\ (WriteOutcome(job[w], run[w]) \/ UNCHANGED verdict)
    BY <1>2 DEF Store
  <2>2. QED
    BY <1>1, <2>1
<1>3. ASSUME NEW w \in Worker, RecordCrash(w) PROVE G
  <2>1. pc[w] = "crashed" /\ WriteOutcome(job[w], Outcome(0, 1, {}, IE))
    BY <1>3 DEF RecordCrash
  <2>2. QED
    BY <1>1, <2>1
<1>4. ASSUME NEW w \in Worker, WorkerStep(w) \/ Fault(w), ~Store(w), ~RecordCrash(w)
      PROVE  G
  <2>1. UNCHANGED verdict \/ Claim(w)
    BY <1>4 DEF WorkerStep, Reset, Vanished, Load, Refuse, Compiled, BeginTest, Cancelled,
                EndTest, Breaks, Release, Fault
  <2>2. CASE Claim(w)
    BY <2>2 DEF Claim, MarkJudging, TypeOK, DbTypeOK
  <2>3. QED
    BY <2>1, <2>2
<1>5. ASSUME NEW h \in Handler, HandlerStep(h) \/ AbortFault(h) PROVE G
  BY <1>5 DEF HandlerStep, AbortRead, AbortRequest, AbortSettle, AbortRelease, AbortFault,
              TypeOK, DbTypeOK
<1>6. ASSUME NEW S \in SUBSET Sub, Rejudge(S) PROVE G
  BY <1>6 DEF Rejudge
<1>7. CASE Submit \/ FixTests \/ DeleteProblem \/ Crash \/ Restart \/ UNCHANGED vars
  BY <1>7 DEF Submit, FixTests, DeleteProblem, Crash, Restart, TypeOK, DbTypeOK
<1> HIDE DEF G
<1>8. QED
  BY <1>2, <1>3, <1>4, <1>5, <1>6, <1>7 DEF Next, RejudgeOne, RejudgeProblem

\* Nobody is taken off the list of those a rejudge struck.
LEMMA StrikesStay == [Next]_vars => struck \subseteq struck'
<1> SUFFICES ASSUME [Next]_vars PROVE struck \subseteq struck'
  OBVIOUS
<1>1. CASE \E w \in Worker : WorkerStep(w) \/ Fault(w)
  BY <1>1 DEF WorkerStep, Claim, Reset, Vanished, Load, Refuse, Compiled, BeginTest, Cancelled,
              EndTest, Breaks, Store, Release, RecordCrash, Fault
<1>2. CASE \E h \in Handler : HandlerStep(h) \/ AbortFault(h)
  BY <1>2 DEF HandlerStep, AbortRead, AbortRequest, AbortSettle, AbortRelease, AbortFault
<1>3. CASE Submit \/ FixTests \/ DeleteProblem \/ Crash \/ Restart \/ RejudgeOne
           \/ RejudgeProblem \/ UNCHANGED vars
  BY <1>3 DEF Submit, FixTests, DeleteProblem, Crash, Restart, RejudgeOne, RejudgeProblem, Rejudge
<1>4. QED
  BY <1>1, <1>2, <1>3 DEF Next

LEMMA StepCoherent ==
    TypeOK /\ ClaimInv /\ RunInv /\ CoherentResult /\ [Next]_vars => CoherentResult'
<1> SUFFICES ASSUME TypeOK, ClaimInv, RunInv, CoherentResult, [Next]_vars,
                    NEW s \in Sub \ struck', verdict'[s] \in Final
             PROVE  Coherent(s)'
  BY DEF CoherentResult, Coherent
<1>1. CASE verdict'[s] = verdict[s]
  <2>1. UNCHANGED <<score[s], earned[s], rows[s]>> /\ s \notin struck
    BY <1>1, StepResultStands, StrikesStay DEF ResultStands
  <2>2. QED
    BY <1>1, <2>1, CoherentParts DEF Coherent
<1>2. CASE verdict'[s] # verdict[s]
  <2>1. CASE verdict'[s] = AB
    BY <2>1 DEF Coherent
  <2>2. CASE /\ Exists(s)
             /\ \/ \E w \in Worker : pc[w] = "storing" /\ WriteOutcome(s, run[w])
                \/ WriteOutcome(s, Outcome(0, 1, {}, IE))
    <3>1. ASSUME NEW w \in Worker, pc[w] = "storing", WriteOutcome(s, run[w])
          PROVE  Coherent(s)'
      <4>1. run[w] \in Outcomes /\ RunFits(run[w], "storing")
        BY <3>1 DEF TypeOK, WorkerTypeOK, RunInv
      <4>2. QED
        BY <2>2, <3>1, <4>1, WrittenCoherent
    <3>2. ASSUME WriteOutcome(s, Outcome(0, 1, {}, IE)) PROVE Coherent(s)'
      BY <2>2, <3>2, NoRunType, RefusedFits, WrittenCoherent
    <3>3. QED
      BY <2>2, <3>1, <3>2
  <2>3. QED
    BY <1>2, <2>1, <2>2, WhoSettles
<1>3. QED
  BY <1>1, <1>2

\* A stored result is of one piece: verdict, tests, score and earned_percent come from
\* the same run, whichever transactions wrote to the row before (store_outcome).
THEOREM ResultIsCoherent == Spec => []CoherentResult
<1>1. Init => TypeOK /\ ClaimInv /\ RunInv /\ CoherentResult
  BY InitTypeOK, InitClaim, InitRun DEF Init, CoherentResult
<1>2. TypeOK /\ ClaimInv /\ RunInv /\ CoherentResult /\ [Next]_vars
        => (TypeOK /\ ClaimInv /\ RunInv /\ CoherentResult)'
  BY StepTypeOK, StepClaim, StepRun, StepCoherent
<1>3. QED
  BY <1>1, <1>2, PTL DEF Spec

(***************************************************************************)
(* The Events of cancel.py.  A worker's steps are of five kinds as far as  *)
(* cancellation is concerned.                                              *)
(***************************************************************************)
Early == {"claimed", "cleared"} \cup Grading
Holding == Grading \cup {"storing", "releasing", "unwinding"}

OthersRest(w) ==
    /\ \A v \in Worker \ {w} : UNCHANGED <<pc[v], job[v], handle[v], run[v]>>
    /\ UNCHANGED <<hpc, target, asked, disturbed, created, up>>

Claims(w) ==
    /\ up /\ pc[w] = "idle" /\ pc'[w] = "claimed"
    /\ UNCHANGED <<handle, cancelVars>>
    /\ \E s \in Sub : /\ verdict[s] = PENDING /\ job'[w] = s
                      /\ verdict' = [verdict EXCEPT ![s] = JUDGING]

Registers(w) ==
    /\ pc[w] = "cleared" /\ Register(w)
    /\ pc'[w] \in {"ready", "storing", "unwinding"}
    /\ pc'[w] = "storing" => run'[w].verdict # AB
    /\ UNCHANGED <<job, verdict>>

Releases(w) ==
    /\ pc[w] \in {"releasing", "unwinding"} /\ ReleaseEntry(job[w], Worker \ {w})
    /\ handle' = [handle EXCEPT ![w] = NoEvent]
    /\ \/ pc'[w] = "idle" /\ job'[w] = NoSub
       \/ pc'[w] = "crashed" /\ job'[w] = job[w]
    /\ UNCHANGED verdict

\* On with the run, to the end of it: the row may get its verdict.
Moves(w) ==
    /\ pc[w] # "idle" /\ pc'[w] # "idle"
    /\ pc[w] \in Holding => pc'[w] \in Holding
    /\ pc'[w] \in Grading => pc[w] \in Grading
    /\ pc'[w] \in Early => pc[w] \in Early
    /\ pc'[w] = "storing" /\ run'[w].verdict = AB => IsSet(w)
    /\ UNCHANGED <<job, handle, cancelVars>>
    /\ \A q \in Sub : \/ verdict'[q] = verdict[q]
                      \/ /\ q = job[w] /\ pc[w] = "storing"
                         /\ verdict'[q] = run[w].verdict

Leaves(w) ==
    /\ pc[w] \in {"claimed", "crashed"} /\ pc'[w] = "idle" /\ job'[w] = NoSub
    /\ UNCHANGED <<handle, cancelVars>>
    /\ \A q \in Sub : verdict'[q] = verdict[q] \/ (q = job[w] /\ verdict'[q] = IE)

LEMMA WorkerKinds ==
    ASSUME TypeOK, RunInv, NEW w \in Worker, WorkerStep(w) \/ Fault(w)
    PROVE  /\ OthersRest(w)
           /\ Claims(w) \/ Registers(w) \/ Releases(w) \/ Moves(w) \/ Leaves(w)
<1> DEFINE G == /\ OthersRest(w)
                /\ Claims(w) \/ Registers(w) \/ Releases(w) \/ Moves(w) \/ Leaves(w)
<1> SUFFICES G
  OBVIOUS
<1> USE DEF Goto, OthersRest
<1>1. CASE Claim(w)
  <2>1. Claims(w)
    BY <1>1 DEF Claim, OldestPending, MarkJudging, Claims, TypeOK, WorkerTypeOK
  <2>2. OthersRest(w)
    BY <1>1 DEF Claim, TypeOK, WorkerTypeOK
  <2>3. QED
    BY <2>1, <2>2
<1>2. CASE Load(w)
  <2>1. Registers(w)
    BY <1>2 DEF Load, Registers, Outcome, TypeOK, WorkerTypeOK
  <2>2. OthersRest(w)
    BY <1>2 DEF Load, Register, TypeOK, WorkerTypeOK
  <2>3. QED
    BY <2>1, <2>2
<1>3. CASE Release(w)
  <2>1. Releases(w)
    BY <1>3 DEF Release, Releases, TypeOK, WorkerTypeOK
  <2>2. OthersRest(w)
    BY <1>3 DEF Release, TypeOK, WorkerTypeOK
  <2>3. QED
    BY <2>1, <2>2
<1>4. CASE \/ Reset(w) \/ Compiled(w) \/ BeginTest(w) \/ Cancelled(w) \/ Breaks(w)
           \/ \E v \in {CE, IE} : Refuse(w, v)
  <2>1. Moves(w)
    BY <1>4 DEF Reset, Compiled, BeginTest, Cancelled, Breaks, Refuse, Moves, Outcome, Grading,
                Early, Holding, TypeOK, WorkerTypeOK
  <2>2. OthersRest(w)
    BY <1>4 DEF Reset, Compiled, BeginTest, Cancelled, Breaks, Refuse, TypeOK, WorkerTypeOK
  <2>3. QED
    BY <2>1, <2>2
<1>5. ASSUME NEW ok \in BOOLEAN, NEW published \in BOOLEAN, EndTest(w, ok, published) PROVE G
  <2>1. /\ pc[w] = "running" /\ pc'[w] \in {"storing", "loop"}
        /\ UNCHANGED <<job, handle, cancelVars, verdict>>
        /\ run'[w].verdict = IF ok THEN run[w].verdict ELSE WA
    BY <1>5 DEF EndTest, Outcome, TypeOK, WorkerTypeOK
  <2>2. run[w].verdict \in {AC, WA}
    BY <2>1 DEF RunInv, RunFits, Grading
  <2>3. Moves(w)
    BY <2>1, <2>2 DEF Moves, Grading, Early, Holding
  <2>4. OthersRest(w)
    BY <1>5 DEF EndTest, TypeOK, WorkerTypeOK
  <2>5. QED
    BY <2>3, <2>4
<1>6. CASE Store(w)
  <2>1. /\ pc[w] = "storing" /\ pc'[w] \in {"releasing", "unwinding"} /\ job[w] \in Sub
        /\ UNCHANGED <<job, handle, cancelVars>>
        /\ verdict' = Updated(verdict, job[w], run[w].verdict) \/ UNCHANGED verdict
    BY <1>6 DEF Store, WriteOutcome, TypeOK, WorkerTypeOK
  <2>2. Moves(w)
    BY <2>1 DEF Moves, Grading, Early, Holding, Updated, TypeOK, DbTypeOK
  <2>3. OthersRest(w)
    BY <1>6 DEF Store, TypeOK, WorkerTypeOK
  <2>4. QED
    BY <2>2, <2>3
<1>7. CASE Vanished(w) \/ RecordCrash(w)
  <2>1. /\ pc[w] \in {"claimed", "crashed"} /\ pc'[w] = "idle" /\ job'[w] = NoSub
        /\ UNCHANGED <<handle, cancelVars>> /\ job[w] \in Sub
        /\ UNCHANGED verdict \/ verdict' = Updated(verdict, job[w], IE)
    BY <1>7 DEF Vanished, RecordCrash, WriteOutcome, Outcome, TypeOK, WorkerTypeOK
  <2>2. Leaves(w)
    BY <2>1 DEF Leaves, Updated, TypeOK, DbTypeOK
  <2>3. OthersRest(w)
    BY <1>7 DEF Vanished, RecordCrash, TypeOK, WorkerTypeOK
  <2>4. QED
    BY <2>2, <2>3
<1>8. CASE Fault(w)
  <2>1. OthersRest(w)
    BY <1>8 DEF Fault, Register, TypeOK, WorkerTypeOK
  <2>2. CASE pc[w] \in {"claimed", "cleared", "storing"} /\ UNCHANGED <<job, handle, cancelVars>>
             /\ pc'[w] \in {"crashed", "unwinding"} /\ (pc[w] = "storing" => pc'[w] = "unwinding")
    BY <1>8, <2>1, <2>2 DEF Fault, Moves, Grading, Early, Holding
  <2>3. CASE pc[w] = "cleared" /\ Register(w) /\ pc'[w] = "unwinding"
    BY <1>8, <2>1, <2>3 DEF Fault, Registers
  <2>4. CASE pc[w] = "crashed"
    BY <1>8, <2>1, <2>4 DEF Fault, Leaves, TypeOK, WorkerTypeOK
  <2>5. QED
    BY <1>8, <2>2, <2>3, <2>4 DEF Fault, TypeOK, WorkerTypeOK
<1> HIDE DEF G
<1>9. QED
  BY <1>1, <1>2, <1>3, <1>4, <1>5, <1>6, <1>7, <1>8 DEF WorkerStep

\* What nobody but a worker or an abort request does to the Events.
LEMMA OtherKinds ==
    ASSUME [Next]_vars, \A w \in Worker : ~(WorkerStep(w) \/ Fault(w)),
           \A h \in Handler : ~AbortRequest(h), \A h \in Handler : ~AbortRelease(h), ~Crash
    PROVE  UNCHANGED <<handle, cancelVars, pc, job, run>>
BY DEF Next, HandlerStep, AbortRead, AbortSettle, AbortFault, Submit, RejudgeOne, RejudgeProblem,
       Rejudge, FixTests, DeleteProblem, Restart

\* No two submissions share an Event, and an Event that is set is in use: so a new
\* one is not set, and setting one reaches the workers of its submission only.
EventInv ==
    /\ \A q, s \in Sub : registry[q] = registry[s] /\ registry[s] # NoEvent => q = s
    /\ \A w \in Worker, s \in Sub :
         handle[w] = registry[s] /\ handle[w] # NoEvent => job[w] = s
    /\ \A v, w \in Worker : handle[v] = handle[w] /\ handle[w] # NoEvent => job[v] = job[w]
    /\ signalled \subseteq UsedEvents
    /\ \A w \in Worker : handle[w] # NoEvent => pc[w] \in Holding

LEMMA InitEvent == Init => EventInv
BY DEF Init, EventInv

\* A new Event is nobody's.
LEMMA NewIsNew ==
    ASSUME EventInv, NEW e \in Event, NewEvent(e)
    PROVE  /\ e # NoEvent /\ e \notin signalled
           /\ \A s \in Sub : registry[s] # e
           /\ \A w \in Worker : handle[w] # e
BY DEF EventInv, NewEvent, UsedEvents

\* The Events stay where they are while whoever holds one goes on.
LEMMA EventsStay ==
    ASSUME EventInv, UNCHANGED <<handle, cancelVars>>,
           \A w \in Worker : handle[w] # NoEvent => job'[w] = job[w] /\ pc'[w] \in Holding
    PROVE  EventInv'
<1>1. UsedEvents' = UsedEvents
  BY DEF UsedEvents
<1>2. QED
  BY <1>1 DEF EventInv

LEMMA RegisterEvent ==
    ASSUME TypeOK, EventInv, NEW w \in Worker, OthersRest(w), Registers(w)
    PROVE  EventInv'
<1> USE DEF OthersRest, Registers
<1>1. /\ handle[w] = NoEvent /\ job[w] \in Sub /\ pc'[w] \in Holding
      /\ handle \in [Worker -> Event \cup {NoEvent}] /\ registry \in [Sub -> Event \cup {NoEvent}]
  BY DEF EventInv, TypeOK, WorkerTypeOK, CancelTypeOK, Holding, Grading
<1>2. PICK e \in Event : /\ handle' = [handle EXCEPT ![w] = e]
                         /\ \/ registry' = registry /\ e = registry[job[w]]
                            \/ registry' = [registry EXCEPT ![job[w]] = e] /\ NewEvent(e)
  BY <1>1 DEF Register
<1>3. UNCHANGED <<signalled, job>> /\ handle'[w] = e /\ e # NoEvent
  BY <1>1, <1>2 DEF Register
<1>4. \A v \in Worker \ {w} : handle'[v] = handle[v] /\ pc'[v] = pc[v]
  OBVIOUS
<1>20. /\ \A s \in Sub \ {job[w]} : registry[s] # e
       /\ \A v \in Worker : handle[v] = e => job[v] = job[w]
  <2>1. CASE e = registry[job[w]]
    BY <1>1, <1>3, <2>1 DEF EventInv
  <2>2. CASE NewEvent(e)
    BY <2>2, NewIsNew
  <2>3. QED
    BY <1>2, <2>1, <2>2
<1>5. \A s \in Sub : registry'[s] = e <=> s = job[w]
  BY <1>1, <1>2, <1>20
<1>6. \A s \in Sub \ {job[w]} : registry'[s] = registry[s]
  BY <1>1, <1>2
<1>7. \A v \in Worker \ {w} : handle[v] = e => job[v] = job[w]
  BY <1>20
<1>8. registry[job[w]] \in {NoEvent, e}
  BY <1>1, <1>2 DEF Register
<1>9. (\A q, s \in Sub : registry[q] = registry[s] /\ registry[s] # NoEvent => q = s)'
  BY <1>5, <1>6 DEF EventInv
<1>10. (\A v \in Worker, s \in Sub :
          handle[v] = registry[s] /\ handle[v] # NoEvent => job[v] = s)'
  BY <1>3, <1>4, <1>5, <1>6, <1>7 DEF EventInv
<1>11. (\A u, v \in Worker : handle[u] = handle[v] /\ handle[v] # NoEvent => job[u] = job[v])'
  BY <1>3, <1>4, <1>7 DEF EventInv
<1>12. (signalled \subseteq UsedEvents)'
  <2> SUFFICES ASSUME NEW f \in signalled PROVE f \in UsedEvents'
    BY <1>3
  <2>1. f # NoEvent /\ f \in UsedEvents
    BY DEF EventInv, TypeOK, CancelTypeOK
  <2>2. CASE \E s \in Sub : f = registry[s]
    BY <1>3, <1>5, <1>6, <1>8, <2>1, <2>2 DEF UsedEvents
  <2>3. CASE \E v \in Worker : f = handle[v]
    BY <1>1, <1>4, <2>1, <2>3 DEF UsedEvents
  <2>4. QED
    BY <2>1, <2>2, <2>3 DEF UsedEvents
<1>13. (\A v \in Worker : handle[v] # NoEvent => pc[v] \in Holding)'
  BY <1>1, <1>3, <1>4 DEF EventInv
<1>14. QED
  BY <1>9, <1>10, <1>11, <1>12, <1>13 DEF EventInv

\* An entry is popped, by a worker that lets its Event go or by the abort route.
LEMMA ReleaseEvent ==
    ASSUME TypeOK, EventInv, NEW s \in Sub, NEW W \in SUBSET Worker, ReleaseEntry(s, W),
           \A v \in W : handle'[v] = handle[v] /\ job'[v] = job[v] /\ pc'[v] = pc[v],
           \A v \in Worker \ W : handle'[v] = NoEvent
    PROVE  EventInv'
<1>1. /\ registry'[s] = NoEvent /\ \A q \in Sub \ {s} : registry'[q] = registry[q]
      /\ signalled' = signalled \cap
           ({registry[q] : q \in Sub \ {s}} \cup {handle[v] : v \in W})
  BY DEF ReleaseEntry, TypeOK, CancelTypeOK
<1>2. (\A p, q \in Sub : registry[p] = registry[q] /\ registry[q] # NoEvent => p = q)'
  BY <1>1 DEF EventInv
<1>3. (\A v \in Worker, q \in Sub :
         handle[v] = registry[q] /\ handle[v] # NoEvent => job[v] = q)'
  BY <1>1 DEF EventInv
<1>4. (\A u, v \in Worker : handle[u] = handle[v] /\ handle[v] # NoEvent => job[u] = job[v])'
  BY DEF EventInv
<1>5. (signalled \subseteq UsedEvents)'
  BY <1>1 DEF UsedEvents
<1>6. (\A v \in Worker : handle[v] # NoEvent => pc[v] \in Holding)'
  BY DEF EventInv
<1>7. QED
  BY <1>2, <1>3, <1>4, <1>5, <1>6 DEF EventInv

LEMMA RequestEvent ==
    ASSUME TypeOK, EventInv, NEW s \in Sub, RequestCancel(s), UNCHANGED <<handle, job, pc>>
    PROVE  EventInv'
<1>1. PICK e \in Event : /\ signalled' = signalled \cup {e}
                         /\ \/ registry' = registry /\ e = registry[s]
                            \/ registry' = [registry EXCEPT ![s] = e] /\ NewEvent(e)
  BY DEF RequestCancel, TypeOK, CancelTypeOK
<1>2. registry'[s] = e /\ \A q \in Sub \ {s} : registry'[q] = registry[q]
  BY <1>1 DEF TypeOK, CancelTypeOK
<1>3. /\ \A q \in Sub \ {s} : registry[q] # e
      /\ \A w \in Worker : handle[w] = e => job[w] = s
      /\ e # NoEvent /\ registry[s] \in {NoEvent, e}
  BY <1>1, NewIsNew DEF EventInv, RequestCancel
<1>4. (signalled \subseteq UsedEvents)'
  <2> SUFFICES ASSUME NEW f \in signalled PROVE f \in UsedEvents'
    BY <1>1, <1>2 DEF UsedEvents
  <2>1. f # NoEvent /\ f \in UsedEvents
    BY DEF EventInv, TypeOK, CancelTypeOK
  <2>2. CASE \E q \in Sub : f = registry[q]
    BY <1>2, <1>3, <2>1, <2>2 DEF UsedEvents
  <2>3. CASE \E w \in Worker : f = handle[w]
    BY <2>3 DEF UsedEvents
  <2>4. QED
    BY <2>1, <2>2, <2>3 DEF UsedEvents
<1>5. QED
  BY <1>2, <1>3, <1>4 DEF EventInv

LEMMA StepEvent == TypeOK /\ RunInv /\ EventInv /\ [Next]_vars => EventInv'
<1> SUFFICES ASSUME TypeOK, RunInv, EventInv, [Next]_vars PROVE EventInv'
  OBVIOUS
<1>1. ASSUME NEW w \in Worker, OthersRest(w), Claims(w) \/ Moves(w) \/ Leaves(w)
      PROVE  EventInv'
  <2>0. \A v \in Worker : handle[v] # NoEvent => pc[v] \in Holding
    BY DEF EventInv
  <2>1. /\ UNCHANGED <<handle, cancelVars>>
        /\ handle[w] # NoEvent => job'[w] = job[w] /\ pc'[w] \in Holding
    BY <1>1, <2>0 DEF Claims, Moves, Leaves, Holding, Grading
  <2>2. \A v \in Worker \ {w} : handle[v] # NoEvent => job'[v] = job[v] /\ pc'[v] \in Holding
    BY <1>1, <2>0 DEF OthersRest
  <2>3. QED
    BY <2>1, <2>2, EventsStay
<1>2. ASSUME NEW w \in Worker, OthersRest(w), Releases(w) PROVE EventInv'
  <2>1. job[w] \in Sub
    BY <1>2 DEF Releases, TypeOK, WorkerTypeOK
  <2>2. /\ ReleaseEntry(job[w], Worker \ {w}) /\ handle'[w] = NoEvent
        /\ \A v \in Worker \ {w} : handle'[v] = handle[v] /\ job'[v] = job[v] /\ pc'[v] = pc[v]
    BY <1>2 DEF Releases, OthersRest, TypeOK, WorkerTypeOK
  <2>3. QED
    BY <2>1, <2>2, ReleaseEvent
<1>3. ASSUME NEW w \in Worker, WorkerStep(w) \/ Fault(w) PROVE EventInv'
  BY <1>1, <1>2, <1>3, WorkerKinds, RegisterEvent
<1>4. ASSUME NEW h \in Handler, AbortRequest(h) PROVE EventInv'
  <2>1. target[h] \in Sub
    BY <1>4 DEF AbortRequest, TypeOK, CancelTypeOK
  <2>2. QED
    BY <1>4, <2>1, RequestEvent DEF AbortRequest
<1>5. ASSUME NEW h \in Handler, AbortRelease(h) PROVE EventInv'
  <2>1. target[h] \in Sub
    BY <1>5 DEF AbortRelease, TypeOK, CancelTypeOK
  <2>2. QED
    BY <1>5, <2>1, ReleaseEvent DEF AbortRelease
<1>6. CASE Crash
  BY <1>6 DEF Crash, EventInv
<1>7. CASE UNCHANGED <<handle, cancelVars, pc, job, run>>
  BY <1>7, EventsStay DEF EventInv
<1>8. QED
  BY <1>3, <1>4, <1>5, <1>6, <1>7, OtherKinds

(***************************************************************************)
(* Who is busy with a submission.                                          *)
(***************************************************************************)
\* Of a submission nobody rejudged too early: one worker at most, none while it waits.
PlaceInv ==
    /\ \A w \in Worker : pc[w] = "idle" => job[w] = NoSub
    /\ \A h \in Handler : target[h] <= created
    /\ \A s \in asked : s <= created
    /\ \A v, w \in Worker : job[v] = job[w] /\ job[w] \in Sub \ disturbed => v = w
    /\ \A s \in Sub \ disturbed, w \in Worker : verdict[s] = PENDING => job[w] # s

\* And none after the abort route settled it, until somebody rejudges it.
WonInv ==
    \A h \in Handler :
        hpc[h] = "won" /\ target[h] \notin disturbed =>
            /\ verdict[target[h]] \in {AB, NoRow}
            /\ \A w \in Worker : job[w] # target[h]

LEMMA InitPlace == Init => PlaceInv /\ WonInv
BY DEF Init, PlaceInv, WonInv

\* A step that hands nothing out, and enqueues only what nobody is busy with.
LEMMA PlacesStay ==
    ASSUME TypeOK, PlaceInv, disturbed \subseteq disturbed', created' \in {created, created + 1},
           \A w \in Worker : /\ job'[w] \in {job[w], NoSub}
                             /\ pc'[w] = "idle" => pc[w] = "idle" \/ job'[w] = NoSub,
           \A h \in Handler : \/ target'[h] \in {target[h], NoSub}
                              \/ target'[h] \in Sub /\ target'[h] <= created,
           asked' \subseteq asked \cup {target[h] : h \in Handler},
           \A s \in Sub \ disturbed' :
             verdict'[s] = PENDING => verdict[s] = PENDING \/ \A w \in Worker : job[w] # s
    PROVE  PlaceInv'
<1>1. created \in Nat /\ created <= created' /\ \A h \in Handler : target[h] \in Nat
  BY DEF TypeOK, BoundTypeOK, CancelTypeOK
<1>2. asked' \subseteq Nat /\ \A s \in asked' : s <= created
  BY <1>1 DEF PlaceInv, TypeOK, HistoryTypeOK
<1>3. (\A w \in Worker : pc[w] = "idle" => job[w] = NoSub)'
  BY DEF PlaceInv
<1>4. (\A h \in Handler : target[h] <= created)'
  <2> SUFFICES ASSUME NEW h \in Handler PROVE target'[h] <= created'
    OBVIOUS
  <2>1. target'[h] \in Nat /\ target'[h] <= created
    BY <1>1 DEF PlaceInv
  <2>2. QED
    BY <1>1, <2>1
<1>5. (\A s \in asked : s <= created)'
  BY <1>1, <1>2
<1>6. (\A v, w \in Worker : job[v] = job[w] /\ job[w] \in Sub \ disturbed => v = w)'
  BY DEF PlaceInv
<1>7. (\A s \in Sub \ disturbed, w \in Worker : verdict[s] = PENDING => job[w] # s)'
  BY DEF PlaceInv
<1>8. QED
  BY <1>3, <1>4, <1>5, <1>6, <1>7 DEF PlaceInv

\* claim_next takes what waits, which nobody has.
LEMMA ClaimPlace ==
    ASSUME TypeOK, PlaceInv, WonInv, NEW w \in Worker, OthersRest(w), Claims(w)
    PROVE  PlaceInv' /\ WonInv'
<1>1. PICK s \in Sub : /\ verdict[s] = PENDING /\ job'[w] = s
                       /\ verdict' = [verdict EXCEPT ![s] = JUDGING]
  BY DEF Claims
<1>2. /\ \A q \in Sub : verdict'[q] = IF q = s THEN JUDGING ELSE verdict[q]
      /\ \A v \in Worker \ {w} : job'[v] = job[v] /\ pc'[v] = pc[v]
      /\ pc'[w] = "claimed" /\ UNCHANGED <<hpc, target, asked, disturbed, created>>
  BY <1>1 DEF TypeOK, DbTypeOK, Claims, OthersRest
<1>3. s \in Sub \ disturbed => \A v \in Worker : job[v] # s
  BY <1>1 DEF PlaceInv
<1>4. (\A v \in Worker : pc[v] = "idle" => job[v] = NoSub)'
  BY <1>2 DEF PlaceInv
<1>5. (\A u, v \in Worker : job[u] = job[v] /\ job[v] \in Sub \ disturbed => u = v)'
  BY <1>1, <1>2, <1>3 DEF PlaceInv
<1>6. (\A q \in Sub \ disturbed, v \in Worker : verdict[q] = PENDING => job[v] # q)'
  BY <1>1, <1>2 DEF PlaceInv
<1>7. WonInv'
  BY <1>1, <1>2 DEF WonInv, TypeOK, CancelTypeOK
<1>8. QED
  BY <1>2, <1>4, <1>5, <1>6, <1>7 DEF PlaceInv

LEMMA WorkerPlace ==
    ASSUME TypeOK, PlaceInv, WonInv, NEW w \in Worker, OthersRest(w),
           Registers(w) \/ Releases(w) \/ Moves(w) \/ Leaves(w)
    PROVE  PlaceInv' /\ WonInv'
<1>1. /\ job'[w] \in {job[w], NoSub} /\ (pc'[w] = "idle" => job'[w] = NoSub)
      /\ \A q \in Sub : \/ verdict'[q] = verdict[q]
                        \/ q = job[w] /\ verdict'[q] \in Final
  BY DEF Registers, Releases, Moves, Leaves, TypeOK, WorkerTypeOK, Outcomes
<1>2. PlaceInv'
  <2>1. \A v \in Worker : /\ job'[v] \in {job[v], NoSub}
                          /\ pc'[v] = "idle" => pc[v] = "idle" \/ job'[v] = NoSub
    BY <1>1 DEF OthersRest
  <2>2. \A s \in Sub : verdict'[s] = PENDING => verdict[s] = PENDING
    BY <1>1
  <2>3. QED
    BY <2>1, <2>2, PlacesStay DEF OthersRest
<1>3. WonInv'
  BY <1>1 DEF WonInv, OthersRest, TypeOK, CancelTypeOK
<1>4. QED
  BY <1>2, <1>3

LEMMA StepPlace ==
    TypeOK /\ ClaimInv /\ RunInv /\ PlaceInv /\ WonInv /\ [Next]_vars => PlaceInv' /\ WonInv'
<1> SUFFICES ASSUME TypeOK, ClaimInv, RunInv, PlaceInv, WonInv, [Next]_vars
             PROVE  PlaceInv' /\ WonInv'
  OBVIOUS
<1> USE DEF HandlerGoto
<1>1. ASSUME NEW w \in Worker, WorkerStep(w) \/ Fault(w) PROVE PlaceInv' /\ WonInv'
  BY <1>1, WorkerKinds, ClaimPlace, WorkerPlace
<1>2. CASE Submit
  <2>1. /\ UNCHANGED <<pc, job, hpc, target, asked, disturbed>> /\ created' = created + 1
        /\ \A s \in Sub \ {created + 1} : verdict'[s] = verdict[s]
    BY <1>2 DEF Submit, TypeOK, DbTypeOK
  <2>2. \A w \in Worker : job[w] # created + 1
    BY DEF ClaimInv, TypeOK, BoundTypeOK, WorkerTypeOK
  <2>3. \A h \in Handler : target[h] # created + 1
    BY DEF PlaceInv, TypeOK, BoundTypeOK, CancelTypeOK
  <2>4. PlaceInv'
    BY <2>1, <2>2, PlacesStay
  <2>5. WonInv'
    BY <2>1, <2>3 DEF WonInv, TypeOK, CancelTypeOK
  <2>6. QED
    BY <2>4, <2>5
<1>3. ASSUME NEW S \in SUBSET Sub, Rejudge(S) PROVE PlaceInv' /\ WonInv'
  <2>1. /\ UNCHANGED <<pc, job, hpc, target, created>> /\ asked' \subseteq asked
        /\ disturbed' = disturbed \cup {s \in S : ~Quiet(s)}
        /\ \A s \in Sub : verdict'[s] = IF s \in S THEN PENDING ELSE verdict[s]
    BY <1>3 DEF Rejudge
  <2>2. \A s \in S \ disturbed' : /\ \A w \in Worker : job[w] # s
                                  /\ \A h \in Handler : target[h] # s
    BY <2>1 DEF Quiet
  <2>3. PlaceInv'
    BY <2>1, <2>2, PlacesStay
  <2>4. WonInv'
    BY <2>1, <2>2 DEF WonInv, TypeOK, CancelTypeOK
  <2>5. QED
    BY <2>3, <2>4
<1>4. ASSUME NEW h \in Handler,
             AbortRead(h) \/ AbortRequest(h) \/ AbortRelease(h) \/ AbortFault(h)
      PROVE  PlaceInv' /\ WonInv'
  <2>1. /\ UNCHANGED <<pc, job, verdict, created, disturbed>>
        /\ \A g \in Handler \ {h} : UNCHANGED <<hpc[g], target[g]>>
        /\ hpc'[h] # "won" /\ asked' \subseteq asked \cup {target[h]}
    BY <1>4 DEF AbortRead, AbortRequest, AbortRelease, AbortFault, TypeOK, CancelTypeOK
  <2>2. \/ target'[h] \in {target[h], NoSub}
        \/ target'[h] \in Sub /\ target'[h] <= created
    BY <1>4 DEF AbortRead, AbortRequest, AbortRelease, AbortFault, ClaimInv, Exists, TypeOK,
                CancelTypeOK
  <2>3. PlaceInv'
    BY <2>1, <2>2, PlacesStay
  <2>4. WonInv'
    BY <2>1 DEF WonInv
  <2>5. QED
    BY <2>3, <2>4
<1>5. ASSUME NEW h \in Handler, AbortSettle(h) PROVE PlaceInv' /\ WonInv'
  <2>1. /\ UNCHANGED <<pc, job, created, disturbed, asked>> /\ target[h] \in Sub
        /\ \A g \in Handler \ {h} : UNCHANGED <<hpc[g], target[g]>>
        /\ target'[h] \in {target[h], NoSub}
        /\ \A q \in Sub : \/ verdict'[q] = verdict[q]
                          \/ q = target[h] /\ verdict'[q] = AB
    BY <1>5 DEF AbortSettle, TypeOK, CancelTypeOK, DbTypeOK
  <2>2. hpc'[h] = "won" => /\ verdict[target[h]] = PENDING /\ target'[h] = target[h]
                           /\ verdict'[target[h]] = AB
    BY <1>5, <2>1 DEF AbortSettle, StillQueued, TypeOK, CancelTypeOK, DbTypeOK
  <2>3. PlaceInv'
    BY <2>1, PlacesStay
  <2>4. WonInv'
    BY <2>1, <2>2 DEF WonInv, PlaceInv, TypeOK, CancelTypeOK
  <2>5. QED
    BY <2>3, <2>4
<1>6. CASE Crash
  <2>1. /\ UNCHANGED <<verdict, created, disturbed>> /\ asked' \subseteq asked
        /\ \A w \in Worker : job'[w] = NoSub
        /\ \A h \in Handler : hpc'[h] = "idle" /\ target'[h] = NoSub
    BY <1>6 DEF Crash
  <2>2. QED
    BY <2>1, PlacesStay DEF WonInv
<1>7. CASE Restart \/ DeleteProblem
  <2>1. /\ UNCHANGED <<pc, job, hpc, target, asked, created, disturbed>>
        /\ \A s \in Sub : \/ verdict'[s] \in {verdict[s], NoRow}
                          \/ verdict[s] = JUDGING /\ \A w \in Worker : pc[w] = "idle"
    BY <1>7 DEF Restart, DeleteProblem, Stuck, ClaimInv
  <2>2. \A s \in Sub : verdict'[s] = PENDING => verdict[s] = PENDING \/ \A w \in Worker : job[w] # s
    BY <2>1 DEF PlaceInv
  <2>3. PlaceInv'
    BY <2>1, <2>2, PlacesStay
  <2>4. WonInv'
    BY <2>1 DEF WonInv, TypeOK, CancelTypeOK
  <2>5. QED
    BY <2>3, <2>4
<1>8. CASE FixTests \/ UNCHANGED vars
  <2>1. UNCHANGED <<pc, job, hpc, target, asked, created, disturbed, verdict>>
    BY <1>8 DEF FixTests
  <2>2. QED
    BY <2>1 DEF PlaceInv, WonInv
<1>9. QED
  BY <1>1, <1>2, <1>3, <1>4, <1>5, <1>6, <1>7, <1>8
     DEF Next, HandlerStep, RejudgeOne, RejudgeProblem

(***************************************************************************)
(* Nothing is cancelled that nobody asked to cancel.                       *)
(***************************************************************************)
\* A cancellation is on its way only if it was asked for since the row was enqueued:
\* at the abort route, in the registry, at the worker and in the run about to be stored.
AskedInv ==
    /\ \A h \in Handler : hpc[h] \in {"requested", "won"} => target[h] \in asked \cup disturbed
    /\ \A s \in Sub : registry[s] \in signalled => s \in asked \cup disturbed
    /\ \A w \in Worker : handle[w] \in signalled => job[w] \in asked \cup disturbed
    /\ \A w \in Worker :
         pc[w] = "storing" /\ run[w].verdict = AB => job[w] \in asked \cup disturbed
    /\ NoPhantomCancel

LEMMA InitAsked == Init => AskedInv
BY DEF Init, AskedInv, NoPhantomCancel

\* A step that sets no Event and hands out none.
LEMMA AskedStays ==
    ASSUME TypeOK, AskedInv, signalled' \subseteq signalled,
           asked \cup disturbed \subseteq asked' \cup disturbed',
           \A q \in Sub : registry'[q] \in {registry[q], NoEvent},
           \A w \in Worker : \/ handle'[w] = NoEvent
                             \/ handle'[w] = handle[w] /\ job'[w] = job[w],
           \A w \in Worker :
             pc'[w] = "storing" /\ run'[w].verdict = AB =>
               \/ job'[w] \in asked \cup disturbed
               \/ pc[w] = "storing" /\ run[w].verdict = AB /\ job'[w] = job[w],
           \A h \in Handler :
             hpc'[h] \in {"requested", "won"} =>
               hpc[h] \in {"requested", "won"} /\ target'[h] = target[h],
           \A s \in Sub : verdict'[s] = AB => verdict[s] = AB \/ s \in asked \cup disturbed
    PROVE  AskedInv'
<1>1. NoEvent \notin signalled
  BY DEF TypeOK, CancelTypeOK
<1>2. (\A h \in Handler :
         hpc[h] \in {"requested", "won"} => target[h] \in asked \cup disturbed)'
  BY DEF AskedInv
<1>3. (\A s \in Sub : registry[s] \in signalled => s \in asked \cup disturbed)'
  BY <1>1 DEF AskedInv
<1>4. (\A w \in Worker : handle[w] \in signalled => job[w] \in asked \cup disturbed)'
  BY <1>1 DEF AskedInv
<1>5. (\A w \in Worker :
         pc[w] = "storing" /\ run[w].verdict = AB => job[w] \in asked \cup disturbed)'
  BY DEF AskedInv
<1>6. NoPhantomCancel'
  BY DEF AskedInv, NoPhantomCancel
<1>7. QED
  BY <1>2, <1>3, <1>4, <1>5, <1>6 DEF AskedInv

LEMMA RegisterAsked ==
    ASSUME TypeOK, EventInv, AskedInv, NEW w \in Worker, OthersRest(w), Registers(w)
    PROVE  AskedInv'
<1> USE DEF OthersRest, Registers
<1>1. job[w] \in Sub /\ NoEvent \notin signalled
  BY DEF TypeOK, WorkerTypeOK, CancelTypeOK
<1>2. PICK e \in Event : /\ handle' = [handle EXCEPT ![w] = e]
                         /\ \/ registry' = registry /\ e = registry[job[w]]
                            \/ registry' = [registry EXCEPT ![job[w]] = e] /\ NewEvent(e)
  BY <1>1 DEF Register, TypeOK, CancelTypeOK
<1>3. UNCHANGED <<signalled, job, verdict>> /\ handle'[w] = e
  BY <1>1, <1>2 DEF Register, TypeOK, WorkerTypeOK
<1>4. e \in signalled => job[w] \in asked \cup disturbed
  BY <1>1, <1>2, NewIsNew DEF AskedInv
<1>5. \A s \in Sub : registry'[s] = registry[s] \/ registry'[s] \notin signalled
  BY <1>1, <1>2, NewIsNew DEF TypeOK, CancelTypeOK
<1>6. (\A h \in Handler :
         hpc[h] \in {"requested", "won"} => target[h] \in asked \cup disturbed)'
  BY DEF AskedInv
<1>7. (\A s \in Sub : registry[s] \in signalled => s \in asked \cup disturbed)'
  BY <1>3, <1>5 DEF AskedInv
<1>8. (\A v \in Worker : handle[v] \in signalled => job[v] \in asked \cup disturbed)'
  BY <1>3, <1>4 DEF AskedInv
<1>9. (\A v \in Worker :
         pc[v] = "storing" /\ run[v].verdict = AB => job[v] \in asked \cup disturbed)'
  BY <1>3 DEF AskedInv
<1>10. NoPhantomCancel'
  BY <1>3 DEF AskedInv, NoPhantomCancel
<1>11. QED
  BY <1>6, <1>7, <1>8, <1>9, <1>10 DEF AskedInv

LEMMA WorkerAsked ==
    ASSUME TypeOK, RunInv, EventInv, AskedInv, NEW w \in Worker, OthersRest(w),
           Claims(w) \/ Releases(w) \/ Moves(w) \/ Leaves(w)
    PROVE  AskedInv'
<1>1. /\ signalled' \subseteq signalled /\ UNCHANGED <<asked, disturbed, hpc, target>>
      /\ \A q \in Sub : registry'[q] \in {registry[q], NoEvent}
  BY DEF Claims, Releases, ReleaseEntry, Moves, Leaves, OthersRest, TypeOK, CancelTypeOK
<1>2. pc[w] \notin Holding => handle[w] = NoEvent
  BY DEF EventInv
<1>3. handle'[w] = NoEvent \/ (handle'[w] = handle[w] /\ job'[w] = job[w])
  BY <1>2 DEF Claims, Releases, Moves, Leaves, Holding, Grading, TypeOK, WorkerTypeOK
<1>4. \A v \in Worker \ {w} : handle'[v] = handle[v] /\ job'[v] = job[v]
  BY DEF OthersRest
<1>5. pc'[w] = "storing" /\ run'[w].verdict = AB => job'[w] \in asked \cup disturbed
  BY DEF Claims, Releases, Moves, Leaves, IsSet, AskedInv
<1>6. \A v \in Worker \ {w} : pc'[v] = pc[v] /\ run'[v] = run[v]
  BY DEF OthersRest
<1>7. \A s \in Sub : verdict'[s] = AB => verdict[s] = AB \/ s \in asked \cup disturbed
  <2>1. CASE Claims(w) \/ Releases(w) \/ Leaves(w)
    BY <2>1 DEF Claims, Releases, Leaves, TypeOK, DbTypeOK
  <2>2. CASE Moves(w)
    BY <2>2 DEF Moves, AskedInv
  <2>3. QED
    BY <2>1, <2>2
<1>8. QED
  BY <1>1, <1>3, <1>4, <1>5, <1>6, <1>7, AskedStays

LEMMA RejudgeAsked ==
    ASSUME TypeOK, AskedInv, NEW S \in SUBSET Sub, Rejudge(S) PROVE AskedInv'
<1>1. /\ UNCHANGED <<pc, job, run, handle, cancelVars, hpc, target>>
      /\ \A s \in Sub : s \in asked \cup disturbed =>
           s \in asked' \cup disturbed' \/ (s \in S /\ Quiet(s))
      /\ \A s \in Sub : verdict'[s] = IF s \in S THEN PENDING ELSE verdict[s]
  BY DEF Rejudge
<1>2. NoEvent \notin signalled
  BY DEF TypeOK, CancelTypeOK
<1>3. (\A h \in Handler :
         hpc[h] \in {"requested", "won"} => target[h] \in asked \cup disturbed)'
  BY <1>1 DEF AskedInv, Quiet, TypeOK, CancelTypeOK
<1>4. (\A s \in Sub : registry[s] \in signalled => s \in asked \cup disturbed)'
  BY <1>1, <1>2 DEF AskedInv, Quiet
<1>5. asked \cup disturbed \subseteq Sub
  BY DEF TypeOK, HistoryTypeOK
<1>6. (\A w \in Worker : handle[w] \in signalled => job[w] \in asked \cup disturbed)'
  BY <1>1, <1>5 DEF AskedInv, Quiet
<1>7. (\A w \in Worker :
         pc[w] = "storing" /\ run[w].verdict = AB => job[w] \in asked \cup disturbed)'
  BY <1>1, <1>5 DEF AskedInv, Quiet
<1>8. NoPhantomCancel'
  BY <1>1 DEF AskedInv, NoPhantomCancel
<1>9. QED
  BY <1>3, <1>4, <1>6, <1>7, <1>8 DEF AskedInv

LEMMA RequestAsked ==
    ASSUME TypeOK, EventInv, AskedInv, NEW h \in Handler, AbortRequest(h) PROVE AskedInv'
<1> DEFINE s == target[h]
<1>1. /\ s \in Sub /\ UNCHANGED <<pc, job, run, handle, target, verdict, disturbed>>
      /\ asked' = asked \cup {s} /\ RequestCancel(s)
      /\ \A g \in Handler \ {h} : hpc'[g] = hpc[g]
  BY DEF AbortRequest, HandlerGoto, TypeOK, CancelTypeOK
<1>2. PICK e \in Event : /\ signalled' = signalled \cup {e}
                         /\ \/ registry' = registry /\ e = registry[s]
                            \/ registry' = [registry EXCEPT ![s] = e] /\ NewEvent(e)
  BY <1>1 DEF RequestCancel, TypeOK, CancelTypeOK
<1>3. \A w \in Worker : handle[w] = e => job[w] = s
  <2>1. e # NoEvent
    OBVIOUS
  <2>2. CASE e = registry[s]
    BY <1>1, <2>1, <2>2 DEF EventInv
  <2>3. CASE NewEvent(e)
    BY <2>3, NewIsNew
  <2>4. QED
    BY <1>2, <2>2, <2>3
<1>4. \A q \in Sub \ {s} : registry[q] # e /\ registry'[q] = registry[q]
  <2>1. e # NoEvent
    OBVIOUS
  <2>2. CASE registry' = registry /\ e = registry[s]
    BY <1>1, <2>1, <2>2 DEF EventInv
  <2>3. CASE registry' = [registry EXCEPT ![s] = e] /\ NewEvent(e)
    BY <2>3, NewIsNew DEF TypeOK, CancelTypeOK
  <2>4. QED
    BY <1>2, <2>2, <2>3
<1>5. (\A g \in Handler :
         hpc[g] \in {"requested", "won"} => target[g] \in asked \cup disturbed)'
  BY <1>1 DEF AskedInv
<1>6. (\A q \in Sub : registry[q] \in signalled => q \in asked \cup disturbed)'
  BY <1>1, <1>2, <1>4 DEF AskedInv
<1>7. (\A w \in Worker : handle[w] \in signalled => job[w] \in asked \cup disturbed)'
  BY <1>1, <1>2, <1>3 DEF AskedInv
<1>8. (\A w \in Worker :
         pc[w] = "storing" /\ run[w].verdict = AB => job[w] \in asked \cup disturbed)'
  BY <1>1 DEF AskedInv
<1>9. NoPhantomCancel'
  BY <1>1 DEF AskedInv, NoPhantomCancel
<1>10. QED
  BY <1>5, <1>6, <1>7, <1>8, <1>9 DEF AskedInv

LEMMA StepAsked == TypeOK /\ RunInv /\ EventInv /\ AskedInv /\ [Next]_vars => AskedInv'
<1> SUFFICES ASSUME TypeOK, RunInv, EventInv, AskedInv, [Next]_vars PROVE AskedInv'
  OBVIOUS
<1> USE DEF HandlerGoto
<1>1. ASSUME NEW w \in Worker, WorkerStep(w) \/ Fault(w) PROVE AskedInv'
  BY <1>1, WorkerKinds, WorkerAsked, RegisterAsked
<1>2. ASSUME NEW h \in Handler, AbortRead(h) \/ AbortRelease(h) \/ AbortFault(h) PROVE AskedInv'
  <2>1. /\ signalled' \subseteq signalled
        /\ UNCHANGED <<asked, disturbed, handle, job, pc, run, verdict>>
        /\ \A q \in Sub : registry'[q] \in {registry[q], NoEvent}
    BY <1>2 DEF AbortRead, AbortRelease, ReleaseEntry, AbortFault, TypeOK, CancelTypeOK
  <2>2. \A g \in Handler : hpc'[g] \in {"requested", "won"} =>
                             hpc[g] \in {"requested", "won"} /\ target'[g] = target[g]
    BY <1>2 DEF AbortRead, AbortRelease, AbortFault, TypeOK, CancelTypeOK
  <2>3. QED
    BY <2>1, <2>2, AskedStays
<1>3. ASSUME NEW h \in Handler, AbortSettle(h) PROVE AskedInv'
  <2>1. /\ UNCHANGED <<cancelVars, asked, disturbed, handle, job, pc, run>>
        /\ hpc[h] = "requested"
    BY <1>3 DEF AbortSettle
  <2>2. \A g \in Handler : hpc'[g] \in {"requested", "won"} =>
                             hpc[g] \in {"requested", "won"} /\ target'[g] = target[g]
    BY <1>3 DEF AbortSettle, TypeOK, CancelTypeOK
  <2>3. \A s \in Sub : verdict'[s] = AB => verdict[s] = AB \/ s = target[h]
    BY <1>3 DEF AbortSettle, TypeOK, DbTypeOK
  <2>4. target[h] \in asked \cup disturbed
    BY <2>1 DEF AskedInv
  <2>5. QED
    BY <2>1, <2>2, <2>3, <2>4, AskedStays
<1>4. CASE Submit \/ FixTests \/ DeleteProblem \/ Restart \/ UNCHANGED vars
  <2>1. /\ UNCHANGED <<cancelVars, asked, disturbed, handle, job, pc, run, hpc, target>>
        /\ \A s \in Sub : verdict'[s] = AB => verdict[s] = AB
    BY <1>4 DEF Submit, FixTests, DeleteProblem, Restart, TypeOK, DbTypeOK
  <2>2. QED
    BY <2>1, AskedStays
<1>5. CASE Crash
  <2>1. /\ UNCHANGED <<verdict, disturbed>> /\ signalled' = {}
        /\ \A w \in Worker : pc'[w] = "idle"
        /\ \A h \in Handler : hpc'[h] = "idle"
        /\ asked' = {s \in asked : verdict[s] \in Final}
    BY <1>5 DEF Crash
  <2>2. QED
    BY <2>1 DEF AskedInv, NoPhantomCancel
<1>6. QED
  BY <1>1, <1>2, <1>3, <1>4, <1>5, RejudgeAsked, RequestAsked
     DEF Next, HandlerStep, RejudgeOne, RejudgeProblem

\* A submission ends as cancelled only if somebody asked for that since it was last
\* enqueued (cancel.py's Events are per submission and are released with the run).
THEOREM OnlyAskedCancels == Spec => []NoPhantomCancel
<1>1. Init => TypeOK /\ RunInv /\ EventInv /\ AskedInv
  BY InitTypeOK, InitRun, InitEvent, InitAsked
<1>2. TypeOK /\ RunInv /\ EventInv /\ AskedInv /\ [Next]_vars
        => (TypeOK /\ RunInv /\ EventInv /\ AskedInv)'
  BY StepTypeOK, StepRun, StepEvent, StepAsked
<1>3. AskedInv => NoPhantomCancel
  BY DEF AskedInv
<1>4. QED
  BY <1>1, <1>2, <1>3, PTL DEF Spec

(***************************************************************************)
(* A cancellation is heard.                                                *)
(***************************************************************************)
\* A stopped process has no request on its way, and forgot those that were not met.
DownInv ==
    ~up => /\ \A h \in Handler : hpc[h] = "idle"
           /\ \A s \in asked : verdict[s] \in Final

\* A request that was made is set in the registry until the run it is for is over, and
\* the worker watches that same Event.
HeardInv ==
    /\ \A s \in asked \ disturbed :
         verdict[s] = PENDING \/ (\E w \in Worker : job[w] = s /\ pc[w] \in Early) =>
             registry[s] \in signalled
    /\ \A w \in Worker :
         job[w] \in Sub \ disturbed /\ pc[w] \in Grading =>
             handle[w] = registry[job[w]] /\ handle[w] # NoEvent

LEMMA InitHeard == Init => DownInv /\ HeardInv
BY DEF Init, DownInv, HeardInv, Grading

LEMMA StepDown == TypeOK /\ ClaimInv /\ RunInv /\ DownInv /\ [Next]_vars => DownInv'
<1> SUFFICES ASSUME TypeOK, ClaimInv, RunInv, DownInv, [Next]_vars PROVE DownInv'
  OBVIOUS
<1> USE DEF HandlerGoto
<1>1. ASSUME NEW w \in Worker, WorkerStep(w) \/ Fault(w) PROVE DownInv'
  <2>1. up /\ UNCHANGED up
    BY <1>1, WorkerKinds DEF OthersRest, Claims, Registers, Releases, Moves, Leaves, ClaimInv
  <2>2. QED
    BY <2>1 DEF DownInv
<1>2. ASSUME NEW h \in Handler, HandlerStep(h) \/ AbortFault(h) PROVE DownInv'
  <2>1. up /\ UNCHANGED up
    BY <1>2 DEF HandlerStep, AbortRead, AbortRequest, AbortSettle, AbortRelease, AbortFault,
                DownInv
  <2>2. QED
    BY <2>1 DEF DownInv
<1>3. ASSUME NEW S \in SUBSET Sub, Rejudge(S) PROVE DownInv'
  BY <1>3 DEF Rejudge, DownInv, TypeOK, HistoryTypeOK
<1>4. CASE Submit \/ FixTests \/ DeleteProblem \/ Crash \/ Restart \/ UNCHANGED vars
  BY <1>4 DEF Submit, FixTests, DeleteProblem, Crash, Restart, DownInv
<1>5. QED
  BY <1>1, <1>2, <1>3, <1>4 DEF Next, RejudgeOne, RejudgeProblem

\* A step that touches no entry of the registry and starts no run.
LEMMA HeardStays ==
    ASSUME HeardInv, UNCHANGED <<registry, handle>>, signalled \subseteq signalled',
           asked' \subseteq asked, disturbed \subseteq disturbed',
           \A s \in asked' \ disturbed' : verdict'[s] = PENDING => verdict[s] = PENDING,
           \A w \in Worker : /\ pc'[w] \in Early => pc[w] \in Early /\ job'[w] = job[w]
                             /\ pc'[w] \in Grading => pc[w] \in Grading
    PROVE  HeardInv'
<1>1. Grading \subseteq Early
  BY DEF Early
<1>2. QED
  BY <1>1 DEF HeardInv

LEMMA WorkerHeard ==
    ASSUME TypeOK, EventInv, PlaceInv, HeardInv, NEW w \in Worker, OthersRest(w),
           Claims(w) \/ Registers(w) \/ Releases(w) \/ Moves(w) \/ Leaves(w)
    PROVE  HeardInv'
<1>1. CASE Moves(w) \/ Leaves(w)
  <2>1. /\ UNCHANGED <<registry, handle, signalled, asked, disturbed>>
        /\ \A s \in Sub : verdict'[s] = PENDING => verdict[s] = PENDING
    BY <1>1 DEF Moves, Leaves, OthersRest, TypeOK, WorkerTypeOK, Outcomes
  <2>2. /\ pc'[w] \in Early => pc[w] \in Early /\ job'[w] = job[w]
        /\ pc'[w] \in Grading => pc[w] \in Grading
    BY <1>1 DEF Moves, Leaves, Early, Grading
  <2>3. \A v \in Worker \ {w} : pc'[v] = pc[v] /\ job'[v] = job[v]
    BY DEF OthersRest
  <2>4. asked \subseteq Sub
    BY DEF TypeOK, HistoryTypeOK
  <2>5. QED
    BY <2>1, <2>2, <2>3, <2>4, HeardStays
<1>2. CASE Claims(w)
  <2>1. PICK s \in Sub : /\ verdict[s] = PENDING /\ job'[w] = s /\ pc'[w] = "claimed"
                         /\ verdict' = [verdict EXCEPT ![s] = JUDGING]
    BY <1>2 DEF Claims
  <2>2. /\ \A q \in Sub : verdict'[q] = PENDING => verdict[q] = PENDING
        /\ \A v \in Worker \ {w} : job'[v] = job[v] /\ pc'[v] = pc[v]
        /\ UNCHANGED <<handle, registry, signalled, asked, disturbed>> /\ asked \subseteq Sub
    BY <1>2, <2>1 DEF TypeOK, DbTypeOK, HistoryTypeOK, Claims, OthersRest
  <2>3. \A q \in asked \ disturbed :
          verdict'[q] = PENDING \/ (\E v \in Worker : job'[v] = q /\ pc'[v] \in Early) =>
            verdict[q] = PENDING \/ (\E v \in Worker : job[v] = q /\ pc[v] \in Early)
    BY <2>1, <2>2
  <2>4. \A v \in Worker : pc'[v] \in Grading => job'[v] = job[v] /\ pc[v] \in Grading
    BY <2>1, <2>2 DEF Grading
  <2>5. QED
    BY <2>2, <2>3, <2>4 DEF HeardInv
<1>3. CASE Registers(w)
  <2> USE DEF OthersRest
  <2>1. /\ pc[w] = "cleared" /\ job[w] \in Sub /\ NoEvent \notin signalled
        /\ UNCHANGED <<job, verdict, signalled, asked, disturbed>>
        /\ \A v \in Worker \ {w} : handle'[v] = handle[v] /\ pc'[v] = pc[v]
    BY <1>3 DEF Registers, Register, TypeOK, WorkerTypeOK, CancelTypeOK
  <2>2. /\ handle'[w] = registry'[job[w]] /\ handle'[w] # NoEvent
        /\ \A q \in Sub \ {job[w]} : registry'[q] = registry[q]
        /\ registry'[job[w]] = registry[job[w]] \/ registry[job[w]] = NoEvent
    BY <1>3, <2>1, NewIsNew DEF Registers, Register, TypeOK, WorkerTypeOK, CancelTypeOK
  <2>3. \A s \in asked \ disturbed :
          verdict'[s] = PENDING \/ (\E v \in Worker : job'[v] = s /\ pc'[v] \in Early) =>
            verdict[s] = PENDING \/ (\E v \in Worker : job[v] = s /\ pc[v] \in Early)
    BY <2>1 DEF Early
  <2>4. \A s \in Sub : registry[s] \in signalled => registry'[s] \in signalled
    BY <2>1, <2>2
  <2>5. asked \subseteq Sub
    BY DEF TypeOK, HistoryTypeOK
  <2>6. \A v \in Worker \ {w} : job[v] \in Sub \ disturbed => job[v] # job[w]
    BY DEF PlaceInv
  <2>7. (\A s \in asked \ disturbed :
           verdict[s] = PENDING \/ (\E v \in Worker : job[v] = s /\ pc[v] \in Early) =>
             registry[s] \in signalled)'
    BY <2>1, <2>3, <2>4, <2>5 DEF HeardInv
  <2>8. (\A v \in Worker :
           job[v] \in Sub \ disturbed /\ pc[v] \in Grading =>
             handle[v] = registry[job[v]] /\ handle[v] # NoEvent)'
    BY <2>1, <2>2, <2>6 DEF HeardInv
  <2>9. QED
    BY <2>7, <2>8 DEF HeardInv
<1>4. CASE Releases(w)
  <2>1. /\ pc[w] \notin Early /\ pc'[w] \notin Early /\ job[w] \in Sub
        /\ UNCHANGED <<verdict, asked, disturbed>> /\ asked \subseteq Sub
        /\ \A v \in Worker \ {w} : UNCHANGED <<handle[v], pc[v], job[v]>>
    BY <1>4 DEF Releases, OthersRest, Early, Grading, TypeOK, WorkerTypeOK, HistoryTypeOK
  <2>2. \A q \in Sub \ {job[w]} : /\ registry'[q] = registry[q]
                                  /\ registry[q] \in signalled => registry[q] \in signalled'
    BY <1>4 DEF Releases, ReleaseEntry, TypeOK, CancelTypeOK
  <2>3. job[w] \notin disturbed =>
          verdict[job[w]] # PENDING /\ \A v \in Worker \ {w} : job[v] # job[w]
    BY <2>1 DEF PlaceInv
  <2>4. Grading \subseteq Early
    BY DEF Early
  <2>5. (\A s \in asked \ disturbed :
           verdict[s] = PENDING \/ (\E v \in Worker : job[v] = s /\ pc[v] \in Early) =>
             registry[s] \in signalled)'
    BY <2>1, <2>2, <2>3 DEF HeardInv
  <2>6. (\A v \in Worker :
           job[v] \in Sub \ disturbed /\ pc[v] \in Grading =>
             handle[v] = registry[job[v]] /\ handle[v] # NoEvent)'
    BY <2>1, <2>2, <2>3, <2>4 DEF HeardInv
  <2>7. QED
    BY <2>5, <2>6 DEF HeardInv
<1>5. QED
  BY <1>1, <1>2, <1>3, <1>4

LEMMA RequestHeard ==
    ASSUME TypeOK, HeardInv, NEW h \in Handler, AbortRequest(h) PROVE HeardInv'
<1> DEFINE s == target[h]
<1>1. /\ s \in Sub /\ UNCHANGED <<pc, job, handle, verdict, disturbed>>
      /\ asked' = asked \cup {s} /\ RequestCancel(s) /\ asked \subseteq Sub
  BY DEF AbortRequest, TypeOK, CancelTypeOK, HistoryTypeOK
<1>2. /\ registry'[s] \in signalled' /\ signalled \subseteq signalled'
      /\ registry'[s] = registry[s] \/ registry[s] = NoEvent
      /\ \A q \in Sub \ {s} : registry'[q] = registry[q]
  BY <1>1 DEF RequestCancel, TypeOK, CancelTypeOK
<1>3. (\A q \in asked \ disturbed :
         verdict[q] = PENDING \/ (\E w \in Worker : job[w] = q /\ pc[w] \in Early) =>
           registry[q] \in signalled)'
  BY <1>1, <1>2 DEF HeardInv
<1>4. (\A w \in Worker :
         job[w] \in Sub \ disturbed /\ pc[w] \in Grading =>
           handle[w] = registry[job[w]] /\ handle[w] # NoEvent)'
  BY <1>1, <1>2 DEF HeardInv
<1>5. QED
  BY <1>3, <1>4 DEF HeardInv

LEMMA AbortReleaseHeard ==
    ASSUME TypeOK, WonInv, HeardInv, NEW h \in Handler, AbortRelease(h) PROVE HeardInv'
<1> DEFINE s == target[h]
<1>1. /\ s \in Sub /\ UNCHANGED <<pc, job, handle, verdict, asked, disturbed>>
      /\ hpc[h] = "won" /\ asked \subseteq Sub
  BY DEF AbortRelease, TypeOK, CancelTypeOK, HistoryTypeOK
<1>2. \A q \in Sub \ {s} : /\ registry'[q] = registry[q]
                           /\ registry[q] \in signalled => registry[q] \in signalled'
  BY DEF AbortRelease, ReleaseEntry, TypeOK, CancelTypeOK
<1>3. s \notin disturbed => verdict[s] # PENDING /\ \A w \in Worker : job[w] # s
  BY <1>1 DEF WonInv
<1>4. (\A q \in asked \ disturbed :
         verdict[q] = PENDING \/ (\E w \in Worker : job[w] = q /\ pc[w] \in Early) =>
           registry[q] \in signalled)'
  BY <1>1, <1>2, <1>3 DEF HeardInv
<1>5. (\A w \in Worker :
         job[w] \in Sub \ disturbed /\ pc[w] \in Grading =>
           handle[w] = registry[job[w]] /\ handle[w] # NoEvent)'
  BY <1>1, <1>2, <1>3 DEF HeardInv
<1>6. QED
  BY <1>4, <1>5 DEF HeardInv

CancelInv == EventInv /\ PlaceInv /\ WonInv /\ DownInv /\ HeardInv

LEMMA StepHeard ==
    TypeOK /\ ClaimInv /\ RunInv /\ CancelInv /\ [Next]_vars => HeardInv'
<1> SUFFICES ASSUME TypeOK, ClaimInv, RunInv, CancelInv, [Next]_vars PROVE HeardInv'
  OBVIOUS
<1> USE DEF CancelInv
<1>1. ASSUME NEW w \in Worker, WorkerStep(w) \/ Fault(w) PROVE HeardInv'
  BY <1>1, WorkerKinds, WorkerHeard
<1>2. CASE Submit
  <2>1. /\ UNCHANGED <<registry, handle, signalled, asked, disturbed, pc, job>>
        /\ \A s \in Sub \ {created + 1} : verdict'[s] = verdict[s]
    BY <1>2 DEF Submit, TypeOK, DbTypeOK
  <2>2. asked \subseteq Sub /\ created + 1 \notin asked
    BY DEF PlaceInv, TypeOK, HistoryTypeOK, BoundTypeOK
  <2>3. QED
    BY <2>1, <2>2, HeardStays
<1>3. ASSUME NEW S \in SUBSET Sub, Rejudge(S) PROVE HeardInv'
  <2>1. /\ UNCHANGED <<registry, handle, signalled, pc, job>> /\ asked' = asked \ S
        /\ disturbed \subseteq disturbed' /\ asked \subseteq Sub
        /\ \A s \in Sub \ S : verdict'[s] = verdict[s]
    BY <1>3 DEF Rejudge, TypeOK, HistoryTypeOK
  <2>2. QED
    BY <2>1, HeardStays
<1>4. CASE Crash
  <2>1. /\ \A s \in asked' : verdict'[s] # PENDING
        /\ \A w \in Worker : pc'[w] = "idle"
    BY <1>4 DEF Crash
  <2>2. QED
    BY <2>1 DEF HeardInv, Early, Grading
<1>5. CASE Restart
  <2>1. /\ UNCHANGED <<registry, handle, signalled, asked, disturbed, pc, job>>
        /\ asked \subseteq Sub /\ \A s \in asked : verdict'[s] = verdict[s]
    BY <1>5 DEF Restart, Stuck, DownInv, TypeOK, HistoryTypeOK
  <2>2. QED
    BY <2>1, HeardStays
<1>6. CASE \/ FixTests \/ DeleteProblem \/ UNCHANGED vars
           \/ \E h \in Handler : AbortRead(h) \/ AbortSettle(h) \/ AbortFault(h)
  <2>1. /\ UNCHANGED <<registry, handle, signalled, asked, disturbed, pc, job>>
        /\ asked \subseteq Sub
        /\ \A s \in Sub : verdict'[s] = PENDING => verdict[s] = PENDING
    BY <1>6 DEF FixTests, DeleteProblem, AbortRead, AbortSettle, AbortFault, TypeOK,
                HistoryTypeOK, DbTypeOK
  <2>2. QED
    BY <2>1, HeardStays
<1>7. QED
  BY <1>1, <1>2, <1>3, <1>4, <1>5, <1>6, RequestHeard, AbortReleaseHeard
     DEF Next, HandlerStep, RejudgeOne, RejudgeProblem

\* BeginTest is the only way from the loop to a test, and it looks at the Event.
LEMMA StepNoTest ==
    ASSUME TypeOK, RunInv, CancelInv, [Next]_vars, NEW w \in Worker,
           pc[w] = "loop", pc'[w] = "running", job[w] \notin disturbed
    PROVE  job[w] \notin asked
<1>1. BeginTest(w)
  <2>1. ASSUME NEW v \in Worker, WorkerStep(v) \/ Fault(v) PROVE WorkerStep(w) \/ Fault(w)
    <3>1. OthersRest(v)
      BY <2>1, WorkerKinds
    <3>2. v = w
      BY <3>1 DEF OthersRest
    <3>3. QED
      BY <2>1, <3>2
  <2>2. ASSUME NEW h \in Handler, HandlerStep(h) \/ AbortFault(h) PROVE FALSE
    BY <2>2 DEF HandlerStep, AbortRead, AbortRequest, AbortSettle, AbortRelease, AbortFault
  <2>3. ASSUME Submit \/ FixTests \/ DeleteProblem \/ Restart \/ RejudgeOne \/ RejudgeProblem
                 \/ Crash \/ UNCHANGED vars
        PROVE  FALSE
    BY <2>3 DEF Submit, FixTests, DeleteProblem, Restart, RejudgeOne, RejudgeProblem, Rejudge,
                Crash
  <2>4. WorkerStep(w) \/ Fault(w)
    BY <2>1, <2>2, <2>3 DEF Next
  <2>5. CASE Fault(w) \/ Claim(w) \/ Reset(w) \/ Vanished(w) \/ Load(w)
    BY <2>5 DEF Fault, Claim, Reset, Vanished, Load, Goto, TypeOK, WorkerTypeOK
  <2>6. CASE \/ Compiled(w) \/ Cancelled(w) \/ Breaks(w) \/ \E v \in {CE, IE} : Refuse(w, v)
             \/ \E ok, published \in BOOLEAN : EndTest(w, ok, published)
    BY <2>6 DEF Compiled, Cancelled, Breaks, Refuse, EndTest, Goto, TypeOK, WorkerTypeOK
  <2>7. CASE Store(w) \/ Release(w) \/ RecordCrash(w)
    BY <2>7 DEF Store, Release, RecordCrash, Goto, TypeOK, WorkerTypeOK
  <2>8. QED
    BY <2>4, <2>5, <2>6, <2>7 DEF WorkerStep
<1>2. job[w] \in Sub /\ ~IsSet(w)
  BY <1>1 DEF BeginTest, TypeOK, WorkerTypeOK
<1>3. handle[w] = registry[job[w]]
  BY <1>2 DEF CancelInv, HeardInv, Grading
<1>4. QED
  BY <1>2, <1>3 DEF CancelInv, HeardInv, IsSet, Early, Grading

\* Once a cancellation was requested no further test of the submission starts: the
\* worker looks at the Event before each test, and it is the one the abort route set.
THEOREM CancellationHeard == Spec => NoTestAfterCancel
<1>1. Init => TypeOK /\ ClaimInv /\ RunInv /\ CancelInv
  BY InitTypeOK, InitClaim, InitRun, InitEvent, InitPlace, InitHeard DEF CancelInv
<1>2. TypeOK /\ ClaimInv /\ RunInv /\ CancelInv /\ [Next]_vars
        => (TypeOK /\ ClaimInv /\ RunInv /\ CancelInv)'
  BY StepTypeOK, StepClaim, StepRun, StepEvent, StepPlace, StepDown, StepHeard DEF CancelInv
<1>3. TypeOK /\ RunInv /\ CancelInv /\ [Next]_vars
        => [\A w \in Worker :
              pc[w] = "loop" /\ pc'[w] = "running" /\ job[w] \notin disturbed
                => job[w] \notin asked]_vars
  BY StepNoTest
<1>4. QED
  BY <1>1, <1>2, <1>3, PTL DEF Spec, NoTestAfterCancel
=============================================================================
