------------------------- MODULE JudgeSafetyProofs -------------------------
(***************************************************************************)
(* The safety of the queue, for every number of workers, web threads,      *)
(* submissions and tests and every bound: types, no submission is judged   *)
(* twice at once, no row is left behind, results stand and a rejudge takes *)
(* effect; and the queue implements JudgeService.  After the types all of  *)
(* it rests on ClaimInv, the inductive form of ExclusiveJudging.           *)
(***************************************************************************)
EXTENDS JudgeQueue, TLAPS, FiniteSetTheorems

USE BoundsAssumption, ProblemAssumption, EventAssumption

USE DEF vars, dbVars, problemVars, workerVars, cancelVars, handlerVars, boundVars,
        historyVars, Sub, Test, NoSub, NoEvent, Final, InFlight, Judging, WorkerPc,
        HandlerPc

LEMMA InitTypeOK == Init => TypeOK
BY DEF Init, TypeOK, DbTypeOK, WorkerTypeOK, CancelTypeOK, BoundTypeOK, HistoryTypeOK,
       NoTests, NewRun, Outcomes, Outcome, NoRow, AC, WA, CE, IE, AB

-----------------------------------------------------------------------------
(***************************************************************************)
(* What the operators the actions are built from preserve.                 *)
(***************************************************************************)

LEMMA OutcomeType ==
    ASSUME NEW ver \in 0..MaxFixes, NEW next \in 1..(NTests + 1),
           NEW passed \in SUBSET Test, NEW v \in Final
    PROVE  Outcome(ver, next, passed, v) \in Outcomes
BY DEF Outcome, Outcomes

LEMMA NoRunType ==
    ASSUME NEW ver \in 0..MaxFixes, NEW v \in Final
    PROVE  Outcome(ver, 1, {}, v) \in Outcomes
<1>1. 1 \in 1..(NTests + 1) /\ {} \in SUBSET Test
  OBVIOUS
<1>2. QED
  BY <1>1, OutcomeType

LEMMA NewRunType == NewRun \in Outcomes
<1>1. 0 \in 0..MaxFixes /\ AC \in Final
  OBVIOUS
<1>2. QED
  BY <1>1, NoRunType DEF NewRun

LEMMA PointsType == ASSUME NEW P \in SUBSET Test PROVE Cardinality(P) \in Nat
<1>1. IsFiniteSet(Test)
  BY FS_Interval
<1>2. QED
  BY <1>1, FS_Subset, FS_CardinalityType

LEMMA FailedType == ASSUME NEW r \in Outcomes PROVE Failed(r) \in SUBSET Test
BY DEF Failed, Outcomes

LEMMA RegisterType ==
    ASSUME WorkerTypeOK, CancelTypeOK, NEW w \in Worker, job[w] \in Sub, Register(w)
    PROVE  /\ handle' \in [Worker -> Event \cup {NoEvent}]
           /\ registry' \in [Sub -> Event \cup {NoEvent}]
           /\ signalled' \in SUBSET Event
<1>1. CASE registry[job[w]] # NoEvent
  BY <1>1 DEF Register, WorkerTypeOK, CancelTypeOK
<1>2. CASE registry[job[w]] = NoEvent
  <2>1. PICK e \in Event : /\ handle' = [handle EXCEPT ![w] = e]
                           /\ registry' = [registry EXCEPT ![job[w]] = e]
    BY <1>2 DEF Register
  <2>2. signalled' = signalled
    BY <1>2 DEF Register
  <2>3. QED
    BY <2>1, <2>2 DEF WorkerTypeOK, CancelTypeOK
<1>3. QED
  BY <1>1, <1>2

LEMMA RequestCancelType ==
    ASSUME CancelTypeOK, NEW s \in Sub, RequestCancel(s)
    PROVE  registry' \in [Sub -> Event \cup {NoEvent}] /\ signalled' \in SUBSET Event
<1>1. CASE registry[s] # NoEvent
  BY <1>1 DEF RequestCancel, CancelTypeOK
<1>2. CASE registry[s] = NoEvent
  <2>1. PICK e \in Event : /\ registry' = [registry EXCEPT ![s] = e]
                           /\ signalled' = signalled \cup {e}
    BY <1>2 DEF RequestCancel
  <2>2. QED
    BY <2>1 DEF CancelTypeOK
<1>3. QED
  BY <1>1, <1>2

LEMMA WriteOutcomeType ==
    ASSUME DbTypeOK, HistoryTypeOK, NEW s \in Sub, NEW r \in Outcomes, WriteOutcome(s, r),
           UNCHANGED <<problem, data>>
    PROVE  DbTypeOK' /\ basis' \in [Sub -> 0..MaxFixes]
<1>1. verdict' \in [Sub -> Final \cup InFlight \cup {NoRow}]
  BY DEF WriteOutcome, Updated, DbTypeOK, Outcomes
<1>2. score' \in [Sub -> Nat]
  <2>1. Cardinality(r.passed) \in Nat
    BY PointsType DEF Outcomes
  <2>2. QED
    BY <2>1 DEF WriteOutcome, Updated, DbTypeOK
<1>3. earned' \in [Sub -> Nat]
  <2>1. Percent[r.passed] \in Nat
    BY DEF Outcomes
  <2>2. QED
    BY <2>1 DEF WriteOutcome, Updated, DbTypeOK
<1>4. rows' \in [Sub -> [pass : SUBSET Test, fail : SUBSET Test]]
  <2>1. [pass |-> r.passed, fail |-> Failed(r)] \in [pass : SUBSET Test, fail : SUBSET Test]
    BY FailedType DEF Outcomes
  <2>2. QED
    BY <2>1 DEF WriteOutcome, RowsOf, Updated, DbTypeOK
<1>5. basis' \in [Sub -> 0..MaxFixes]
  BY DEF WriteOutcome, HistoryTypeOK, Outcomes
<1>6. QED
  BY <1>1, <1>2, <1>3, <1>4, <1>5 DEF DbTypeOK

LEMMA PublishType ==
    ASSUME DbTypeOK, NEW s \in Sub, NEW i \in Test, NEW ok \in BOOLEAN, Publish(s, i, ok)
    PROVE  /\ rows' \in [Sub -> [pass : SUBSET Test, fail : SUBSET Test]]
           /\ score' \in [Sub -> Nat]
<1> DEFINE R == IF ok THEN [pass |-> rows[s].pass \cup {i}, fail |-> rows[s].fail \ {i}]
                ELSE [pass |-> rows[s].pass \ {i}, fail |-> rows[s].fail \cup {i}]
<1>1. R \in [pass : SUBSET Test, fail : SUBSET Test]
  BY DEF DbTypeOK
<1>2. rows' = IF ~Exists(s) THEN rows ELSE [rows EXCEPT ![s] = R]
  BY DEF Publish
<1>3. rows' \in [Sub -> [pass : SUBSET Test, fail : SUBSET Test]]
  <2> HIDE DEF R
  <2> QED
    BY <1>1, <1>2 DEF DbTypeOK
<1>4. score' \in [Sub -> Nat]
  BY DEF Publish, Updated, DbTypeOK
<1>5. QED
  BY <1>3, <1>4

-----------------------------------------------------------------------------
LEMMA StepTypeOK == TypeOK /\ [Next]_vars => TypeOK'
<1> SUFFICES ASSUME TypeOK, [Next]_vars PROVE TypeOK'
  OBVIOUS
<1>1. CASE Submit
  <2>1. DbTypeOK'
    BY <1>1 DEF TypeOK, DbTypeOK, Submit, PENDING
  <2>2. BoundTypeOK'
    BY <1>1 DEF TypeOK, BoundTypeOK, Submit
  <2>3. HistoryTypeOK'
    BY <1>1 DEF TypeOK, DbTypeOK, BoundTypeOK, HistoryTypeOK, Submit
  <2>4. WorkerTypeOK' /\ CancelTypeOK'
    BY <1>1 DEF TypeOK, WorkerTypeOK, CancelTypeOK, Submit
  <2>5. QED
    BY <2>1, <2>2, <2>3, <2>4 DEF TypeOK
<1>2. ASSUME NEW S \in SUBSET Sub, Rejudge(S) PROVE TypeOK'
  <2>1. DbTypeOK'
    BY <1>2 DEF TypeOK, DbTypeOK, Rejudge, PENDING
  <2>2. BoundTypeOK'
    BY <1>2 DEF TypeOK, BoundTypeOK, Rejudge
  <2>3. HistoryTypeOK'
    BY <1>2 DEF TypeOK, DbTypeOK, HistoryTypeOK, Rejudge
  <2>4. WorkerTypeOK' /\ CancelTypeOK'
    BY <1>2 DEF TypeOK, WorkerTypeOK, CancelTypeOK, Rejudge
  <2>5. QED
    BY <2>1, <2>2, <2>3, <2>4 DEF TypeOK
<1>3. CASE FixTests
  <2>1. DbTypeOK'
    BY <1>3 DEF TypeOK, DbTypeOK, FixTests
  <2>2. WorkerTypeOK' /\ CancelTypeOK' /\ BoundTypeOK' /\ HistoryTypeOK'
    BY <1>3 DEF TypeOK, WorkerTypeOK, CancelTypeOK, BoundTypeOK, HistoryTypeOK, FixTests
  <2>3. QED
    BY <2>1, <2>2 DEF TypeOK
<1>4. CASE DeleteProblem
  <2>1. DbTypeOK'
    BY <1>4 DEF TypeOK, DbTypeOK, DeleteProblem, NoTests
  <2>2. WorkerTypeOK' /\ CancelTypeOK' /\ BoundTypeOK' /\ HistoryTypeOK'
    BY <1>4 DEF TypeOK, WorkerTypeOK, CancelTypeOK, BoundTypeOK, HistoryTypeOK, DeleteProblem
  <2>3. QED
    BY <2>1, <2>2 DEF TypeOK
<1>5. ASSUME NEW w \in Worker, Claim(w) PROVE TypeOK'
  <2>1. DbTypeOK'
    BY <1>5 DEF TypeOK, DbTypeOK, Claim, MarkJudging, OldestPending, JUDGING
  <2>2. WorkerTypeOK'
    BY <1>5 DEF TypeOK, WorkerTypeOK, Claim, Goto
  <2>3. CancelTypeOK' /\ BoundTypeOK' /\ HistoryTypeOK'
    BY <1>5 DEF TypeOK, CancelTypeOK, BoundTypeOK, HistoryTypeOK, Claim
  <2>4. QED
    BY <2>1, <2>2, <2>3 DEF TypeOK
<1>6. ASSUME NEW w \in Worker, Reset(w) PROVE TypeOK'
  <2>1. DbTypeOK'
    BY <1>6 DEF TypeOK, DbTypeOK, Reset, ClearEarlierRun, NoTests
  <2>2. WorkerTypeOK'
    BY <1>6 DEF TypeOK, WorkerTypeOK, Reset, Goto
  <2>3. CancelTypeOK' /\ BoundTypeOK' /\ HistoryTypeOK'
    BY <1>6 DEF TypeOK, CancelTypeOK, BoundTypeOK, HistoryTypeOK, Reset
  <2>4. QED
    BY <2>1, <2>2, <2>3 DEF TypeOK
<1>7. ASSUME NEW w \in Worker, Vanished(w) PROVE TypeOK'
  <2>1. WorkerTypeOK'
    BY <1>7 DEF TypeOK, WorkerTypeOK, Vanished, Goto
  <2>2. DbTypeOK' /\ CancelTypeOK' /\ BoundTypeOK' /\ HistoryTypeOK'
    BY <1>7 DEF TypeOK, DbTypeOK, CancelTypeOK, BoundTypeOK, HistoryTypeOK, Vanished
  <2>3. QED
    BY <2>1, <2>2 DEF TypeOK
<1>8. ASSUME NEW w \in Worker, Load(w) PROVE TypeOK'
  <2>1. job[w] \in Sub /\ Register(w)
    BY <1>8 DEF TypeOK, WorkerTypeOK, Load
  <2>2. /\ handle' \in [Worker -> Event \cup {NoEvent}]
        /\ registry' \in [Sub -> Event \cup {NoEvent}]
        /\ signalled' \in SUBSET Event
    BY <2>1, RegisterType DEF TypeOK
  <2>3. ASSUME NEW r \in Outcomes, r.next \in Test, run' = [run EXCEPT ![w] = r],
               NEW place \in {"ready", "storing"}, Goto(w, place)
        PROVE  WorkerTypeOK'
    BY <1>8, <2>1, <2>2, <2>3 DEF TypeOK, WorkerTypeOK, Load, Goto
  <2>4. Outcome(LoadedTests, 1, {}, AC) \in Outcomes /\ Outcome(0, 1, {}, IE) \in Outcomes
    BY NoRunType DEF LoadedTests, TypeOK, DbTypeOK
  <2>5. WorkerTypeOK'
    <3>1. Outcome(LoadedTests, 1, {}, AC).next \in Test /\ Outcome(0, 1, {}, IE).next \in Test
      BY DEF Outcome
    <3>2. QED
      BY <1>8, <2>3, <2>4, <3>1 DEF Load
  <2>6. CancelTypeOK'
    BY <1>8, <2>2 DEF TypeOK, CancelTypeOK, Load
  <2>7. DbTypeOK' /\ BoundTypeOK' /\ HistoryTypeOK'
    BY <1>8 DEF TypeOK, DbTypeOK, BoundTypeOK, HistoryTypeOK, Load
  <2>8. QED
    BY <2>5, <2>6, <2>7 DEF TypeOK
<1>9. ASSUME NEW w \in Worker, NEW v \in {CE, IE}, Refuse(w, v) PROVE TypeOK'
  <2>1. WorkerTypeOK'
    <3>1. run[w] \in Outcomes
      BY DEF TypeOK, WorkerTypeOK
    <3>2. Outcome(run[w].ver, 1, {}, v) \in Outcomes
      BY <3>1, NoRunType DEF Outcomes
    <3>3. QED
      BY <1>9, <3>2 DEF TypeOK, WorkerTypeOK, Refuse, Goto
  <2>2. DbTypeOK' /\ CancelTypeOK' /\ BoundTypeOK' /\ HistoryTypeOK'
    BY <1>9 DEF TypeOK, DbTypeOK, CancelTypeOK, BoundTypeOK, HistoryTypeOK, Refuse
  <2>3. QED
    BY <2>1, <2>2 DEF TypeOK
<1>10. ASSUME NEW w \in Worker, Compiled(w) PROVE TypeOK'
  <2>1. WorkerTypeOK'
    BY <1>10 DEF TypeOK, WorkerTypeOK, Compiled, Goto
  <2>2. DbTypeOK' /\ CancelTypeOK' /\ BoundTypeOK' /\ HistoryTypeOK'
    BY <1>10 DEF TypeOK, DbTypeOK, CancelTypeOK, BoundTypeOK, HistoryTypeOK, Compiled
  <2>3. QED
    BY <2>1, <2>2 DEF TypeOK
<1>11. ASSUME NEW w \in Worker, BeginTest(w) PROVE TypeOK'
  <2>1. WorkerTypeOK'
    BY <1>11 DEF TypeOK, WorkerTypeOK, BeginTest, Goto
  <2>2. DbTypeOK' /\ CancelTypeOK' /\ BoundTypeOK' /\ HistoryTypeOK'
    BY <1>11 DEF TypeOK, DbTypeOK, CancelTypeOK, BoundTypeOK, HistoryTypeOK, BeginTest
  <2>3. QED
    BY <2>1, <2>2 DEF TypeOK
<1>12. ASSUME NEW w \in Worker, Cancelled(w) PROVE TypeOK'
  <2>1. WorkerTypeOK'
    <3>1. run[w] \in Outcomes
      BY DEF TypeOK, WorkerTypeOK
    <3>2. Outcome(run[w].ver, run[w].next, run[w].passed, AB) \in Outcomes
      BY <3>1, OutcomeType DEF Outcomes, AB
    <3>3. QED
      BY <1>12, <3>2 DEF TypeOK, WorkerTypeOK, Cancelled, Goto
  <2>2. DbTypeOK' /\ CancelTypeOK' /\ BoundTypeOK' /\ HistoryTypeOK'
    BY <1>12 DEF TypeOK, DbTypeOK, CancelTypeOK, BoundTypeOK, HistoryTypeOK, Cancelled
  <2>3. QED
    BY <2>1, <2>2 DEF TypeOK
<1>13. ASSUME NEW w \in Worker, NEW ok \in BOOLEAN, NEW published \in BOOLEAN,
              EndTest(w, ok, published)
       PROVE TypeOK'
  <2> DEFINE i == run[w].next
             r == Outcome(run[w].ver, i + 1,
                          IF ok THEN run[w].passed \cup {i} ELSE run[w].passed,
                          IF ok THEN run[w].verdict ELSE WA)
  <2>0. job[w] \in Sub /\ i \in Test /\ run[w] \in Outcomes
    BY <1>13 DEF TypeOK, WorkerTypeOK, EndTest
  <2>1. DbTypeOK'
    <3>1. CASE published
      <4>1. Publish(job[w], i, ok)
        BY <1>13, <3>1 DEF EndTest
      <4>2. QED
        <5>1. /\ rows' \in [Sub -> [pass : SUBSET Test, fail : SUBSET Test]]
              /\ score' \in [Sub -> Nat]
          BY <2>0, <4>1, PublishType DEF TypeOK
        <5>2. QED
          BY <1>13, <5>1 DEF TypeOK, DbTypeOK, EndTest
    <3>2. CASE ~published
      BY <1>13, <3>2 DEF TypeOK, DbTypeOK, EndTest
    <3>3. QED
      BY <3>1, <3>2
  <2>2. WorkerTypeOK'
    <3>1. r \in Outcomes
      <4>1. i + 1 \in 1..(NTests + 1) /\ run[w].ver \in 0..MaxFixes
        BY <2>0 DEF Outcomes
      <4>2. (IF ok THEN run[w].passed \cup {i} ELSE run[w].passed) \in SUBSET Test
        BY <2>0 DEF Outcomes
      <4>3. (IF ok THEN run[w].verdict ELSE WA) \in Final
        BY <2>0 DEF Outcomes
      <4>4. QED
        BY <4>1, <4>2, <4>3, OutcomeType
    <3>2. r.next = i + 1
      BY DEF Outcome
    <3>3. Ends(i, ok) \/ i + 1 \in Test
      BY <2>0 DEF Ends
    <3>4. run' = [run EXCEPT ![w] = r] /\ pc[w] = "running" /\ UNCHANGED <<job, handle>>
      BY <1>13 DEF EndTest
    <3>5. pc' = [pc EXCEPT ![w] = IF Ends(i, ok) THEN "storing" ELSE "loop"]
      BY <1>13 DEF EndTest, Goto
    <3> HIDE DEF r, i
    <3>6. QED
      BY <3>1, <3>2, <3>3, <3>4, <3>5 DEF TypeOK, WorkerTypeOK
  <2>3. BoundTypeOK'
    BY <1>13 DEF TypeOK, BoundTypeOK, EndTest
  <2>4. CancelTypeOK' /\ HistoryTypeOK'
    BY <1>13 DEF TypeOK, CancelTypeOK, HistoryTypeOK, EndTest
  <2>5. QED
    BY <2>1, <2>2, <2>3, <2>4 DEF TypeOK
<1>14. ASSUME NEW w \in Worker, Breaks(w) PROVE TypeOK'
  <2>1. WorkerTypeOK'
    <3>1. run[w] \in Outcomes
      BY DEF TypeOK, WorkerTypeOK
    <3>2. Outcome(run[w].ver, 1, {}, IE) \in Outcomes
      BY <3>1, NoRunType DEF Outcomes
    <3>3. QED
      BY <1>14, <3>2 DEF TypeOK, WorkerTypeOK, Breaks, Goto
  <2>2. DbTypeOK' /\ CancelTypeOK' /\ BoundTypeOK' /\ HistoryTypeOK'
    BY <1>14 DEF TypeOK, DbTypeOK, CancelTypeOK, BoundTypeOK, HistoryTypeOK, Breaks
  <2>3. QED
    BY <2>1, <2>2 DEF TypeOK
<1>15. ASSUME NEW w \in Worker, Store(w) PROVE TypeOK'
  <2>0. job[w] \in Sub /\ run[w] \in Outcomes
    BY <1>15 DEF TypeOK, WorkerTypeOK, Store
  <2>1. DbTypeOK' /\ basis' \in [Sub -> 0..MaxFixes]
    <3>1. CASE WriteOutcome(job[w], run[w])
      BY <1>15, <2>0, <3>1, WriteOutcomeType DEF TypeOK, Store
    <3>2. CASE UNCHANGED <<dbVars, basis>>
      BY <1>15, <3>2 DEF TypeOK, DbTypeOK, HistoryTypeOK, Store
    <3>3. QED
      BY <1>15, <3>1, <3>2 DEF Store
  <2>2. WorkerTypeOK'
    BY <1>15, NewRunType DEF TypeOK, WorkerTypeOK, Store, Goto
  <2>3. HistoryTypeOK'
    BY <1>15, <2>1 DEF TypeOK, HistoryTypeOK, Store
  <2>4. CancelTypeOK' /\ BoundTypeOK'
    BY <1>15 DEF TypeOK, CancelTypeOK, BoundTypeOK, Store
  <2>5. QED
    BY <2>1, <2>2, <2>3, <2>4 DEF TypeOK
<1>16. ASSUME NEW w \in Worker, Release(w) PROVE TypeOK'
  <2>1. WorkerTypeOK'
    BY <1>16 DEF TypeOK, WorkerTypeOK, Release, Goto
  <2>2. CancelTypeOK'
    BY <1>16 DEF TypeOK, CancelTypeOK, Release, ReleaseEntry
  <2>3. DbTypeOK' /\ BoundTypeOK' /\ HistoryTypeOK'
    BY <1>16 DEF TypeOK, DbTypeOK, BoundTypeOK, HistoryTypeOK, Release
  <2>4. QED
    BY <2>1, <2>2, <2>3 DEF TypeOK
<1>17. ASSUME NEW w \in Worker, RecordCrash(w) PROVE TypeOK'
  <2>1. DbTypeOK' /\ basis' \in [Sub -> 0..MaxFixes]
    <3>1. job[w] \in Sub
      BY <1>17 DEF TypeOK, WorkerTypeOK, RecordCrash
    <3>2. Outcome(0, 1, {}, IE) \in Outcomes
      BY NoRunType
    <3>3. QED
      BY <1>17, <3>1, <3>2, WriteOutcomeType DEF TypeOK, RecordCrash
  <2>2. WorkerTypeOK'
    BY <1>17 DEF TypeOK, WorkerTypeOK, RecordCrash, Goto
  <2>3. HistoryTypeOK'
    BY <1>17, <2>1 DEF TypeOK, HistoryTypeOK, RecordCrash
  <2>4. CancelTypeOK' /\ BoundTypeOK'
    BY <1>17 DEF TypeOK, CancelTypeOK, BoundTypeOK, RecordCrash
  <2>5. QED
    BY <2>1, <2>2, <2>3, <2>4 DEF TypeOK
<1>18. ASSUME NEW w \in Worker, Fault(w) PROVE TypeOK'
  <2>0. job[w] \in Sub
    BY <1>18 DEF TypeOK, WorkerTypeOK, Fault
  <2>1. WorkerTypeOK' /\ CancelTypeOK'
    <3>1. CASE Register(w) /\ Goto(w, "unwinding") /\ UNCHANGED <<job, run>>
      <4>1. WorkerTypeOK'
        BY <1>18, <2>0, <3>1, RegisterType DEF TypeOK, WorkerTypeOK, Goto
      <4>2. CancelTypeOK'
        BY <1>18, <2>0, <3>1, RegisterType DEF TypeOK, CancelTypeOK, Fault
      <4>3. QED
        BY <4>1, <4>2
    <3>2. ASSUME UNCHANGED <<handle, cancelVars>>, run' \in [Worker -> Outcomes],
                 NEW place \in {"crashed", "unwinding", "idle"}, Goto(w, place),
                 job' = job \/ (place = "idle" /\ job' = [job EXCEPT ![w] = NoSub]),
                 \A v \in Worker : v # w => run'[v] = run[v]
          PROVE  WorkerTypeOK' /\ CancelTypeOK'
      <4>1. WorkerTypeOK'
        <5>1. pc' = [pc EXCEPT ![w] = place] /\ pc' \in [Worker -> WorkerPc]
          BY <3>2 DEF TypeOK, WorkerTypeOK, Goto
        <5>2. job' \in [Worker -> Sub \cup {NoSub}]
          BY <2>0, <3>2 DEF TypeOK, WorkerTypeOK
        <5>3. \A v \in Worker : pc'[v] # "idle" => job'[v] \in Sub
          BY <2>0, <3>2, <5>1 DEF TypeOK, WorkerTypeOK
        <5>4. \A v \in Worker : pc'[v] \in {"ready", "loop", "running"} => run'[v].next \in Test
          BY <3>2, <5>1 DEF TypeOK, WorkerTypeOK
        <5>5. QED
          BY <3>2, <5>1, <5>2, <5>3, <5>4 DEF TypeOK, WorkerTypeOK
      <4>2. CancelTypeOK'
        BY <1>18, <3>2 DEF TypeOK, CancelTypeOK, Fault
      <4>3. QED
        BY <4>1, <4>2
    <3>3. run \in [Worker -> Outcomes]
      BY DEF TypeOK, WorkerTypeOK
    <3>4. CASE pc[w] \in {"claimed", "cleared"} /\ Goto(w, "crashed")
                 /\ UNCHANGED <<job, handle, run, cancelVars>>
      BY <3>2, <3>3, <3>4
    <3>5. CASE pc[w] = "storing" /\ Goto(w, "unwinding")
                 /\ run' = [run EXCEPT ![w] = NewRun] /\ UNCHANGED <<job, handle, cancelVars>>
      BY <3>2, <3>3, <3>5, NewRunType
    <3>6. CASE pc[w] = "crashed" /\ Goto(w, "idle") /\ job' = [job EXCEPT ![w] = NoSub]
                 /\ UNCHANGED <<handle, run, cancelVars>>
      BY <3>2, <3>3, <3>6
    <3>7. QED
      BY <1>18, <3>1, <3>4, <3>5, <3>6 DEF Fault
  <2>3. BoundTypeOK'
    BY <1>18 DEF TypeOK, BoundTypeOK, Fault
  <2>4. HistoryTypeOK'
    BY <1>18, <2>0 DEF TypeOK, HistoryTypeOK, Fault
  <2>5. DbTypeOK'
    BY <1>18 DEF TypeOK, DbTypeOK, Fault
  <2>6. QED
    BY <2>1, <2>3, <2>4, <2>5 DEF TypeOK
<1>19. ASSUME NEW h \in Handler, AbortRead(h) PROVE TypeOK'
  <2>1. CancelTypeOK'
    BY <1>19 DEF TypeOK, CancelTypeOK, AbortRead, HandlerGoto
  <2>2. DbTypeOK' /\ WorkerTypeOK' /\ BoundTypeOK' /\ HistoryTypeOK'
    BY <1>19 DEF TypeOK, DbTypeOK, WorkerTypeOK, BoundTypeOK, HistoryTypeOK, AbortRead
  <2>3. QED
    BY <2>1, <2>2 DEF TypeOK
<1>20. ASSUME NEW h \in Handler, AbortRequest(h) PROVE TypeOK'
  <2>1. CancelTypeOK'
    <3>1. target[h] \in Sub
      BY <1>20 DEF TypeOK, CancelTypeOK, AbortRequest
    <3>2. registry' \in [Sub -> Event \cup {NoEvent}] /\ signalled' \in SUBSET Event
      BY <1>20, <3>1, RequestCancelType DEF TypeOK, AbortRequest
    <3>3. QED
      BY <1>20, <3>1, <3>2 DEF TypeOK, CancelTypeOK, AbortRequest, HandlerGoto
  <2>2. HistoryTypeOK'
    BY <1>20 DEF TypeOK, HistoryTypeOK, AbortRequest, CancelTypeOK
  <2>3. DbTypeOK' /\ WorkerTypeOK' /\ BoundTypeOK'
    BY <1>20 DEF TypeOK, DbTypeOK, WorkerTypeOK, BoundTypeOK, AbortRequest
  <2>4. QED
    BY <2>1, <2>2, <2>3 DEF TypeOK
<1>21. ASSUME NEW h \in Handler, AbortSettle(h) PROVE TypeOK'
  <2>1. DbTypeOK'
    BY <1>21 DEF TypeOK, DbTypeOK, AbortSettle, AB
  <2>2. CancelTypeOK'
    BY <1>21 DEF TypeOK, CancelTypeOK, AbortSettle, HandlerGoto
  <2>3. WorkerTypeOK' /\ BoundTypeOK' /\ HistoryTypeOK'
    BY <1>21 DEF TypeOK, WorkerTypeOK, BoundTypeOK, HistoryTypeOK, AbortSettle
  <2>4. QED
    BY <2>1, <2>2, <2>3 DEF TypeOK
<1>22. ASSUME NEW h \in Handler, AbortRelease(h) PROVE TypeOK'
  <2>1. CancelTypeOK'
    BY <1>22 DEF TypeOK, CancelTypeOK, AbortRelease, HandlerGoto, ReleaseEntry
  <2>2. DbTypeOK' /\ WorkerTypeOK' /\ BoundTypeOK' /\ HistoryTypeOK'
    BY <1>22 DEF TypeOK, DbTypeOK, WorkerTypeOK, BoundTypeOK, HistoryTypeOK, AbortRelease
  <2>3. QED
    BY <2>1, <2>2 DEF TypeOK
<1>23. ASSUME NEW h \in Handler, AbortFault(h) PROVE TypeOK'
  <2>1. CancelTypeOK'
    BY <1>23 DEF TypeOK, CancelTypeOK, AbortFault, HandlerGoto
  <2>2. BoundTypeOK'
    BY <1>23 DEF TypeOK, BoundTypeOK, AbortFault
  <2>3. DbTypeOK' /\ WorkerTypeOK' /\ HistoryTypeOK'
    BY <1>23 DEF TypeOK, DbTypeOK, WorkerTypeOK, HistoryTypeOK, AbortFault
  <2>4. QED
    BY <2>1, <2>2, <2>3 DEF TypeOK
<1>24. CASE Crash
  <2>1. WorkerTypeOK'
    BY <1>24, NewRunType DEF TypeOK, WorkerTypeOK, Crash
  <2>2. CancelTypeOK'
    BY <1>24 DEF TypeOK, CancelTypeOK, Crash
  <2>3. BoundTypeOK'
    <3>1. up' \in BOOLEAN
      BY <1>24 DEF Crash
    <3>2. crashes' \in 0..MaxCrashes
      BY <1>24 DEF TypeOK, BoundTypeOK, Crash
    <3>3. UNCHANGED <<created, rejudges, faults>>
      BY <1>24 DEF Crash
    <3>4. QED
      BY <3>1, <3>2, <3>3 DEF TypeOK, BoundTypeOK
  <2>4. HistoryTypeOK'
    BY <1>24 DEF TypeOK, HistoryTypeOK, Crash
  <2>5. DbTypeOK'
    BY <1>24 DEF TypeOK, DbTypeOK, Crash
  <2>6. QED
    BY <2>1, <2>2, <2>3, <2>4, <2>5 DEF TypeOK
<1>25. CASE Restart
  <2>1. DbTypeOK'
    BY <1>25 DEF TypeOK, DbTypeOK, Restart, Stuck, NoTests, PENDING
  <2>2. BoundTypeOK'
    BY <1>25 DEF TypeOK, BoundTypeOK, Restart
  <2>3. HistoryTypeOK'
    BY <1>25 DEF TypeOK, HistoryTypeOK, Restart
  <2>4. WorkerTypeOK' /\ CancelTypeOK'
    BY <1>25 DEF TypeOK, WorkerTypeOK, CancelTypeOK, Restart
  <2>5. QED
    BY <2>1, <2>2, <2>3, <2>4 DEF TypeOK
<1>26. CASE UNCHANGED vars
  BY <1>26 DEF TypeOK, DbTypeOK, WorkerTypeOK, CancelTypeOK, BoundTypeOK, HistoryTypeOK
<1>27. QED
  BY <1>1, <1>2, <1>3, <1>4, <1>5, <1>6, <1>7, <1>8, <1>9, <1>10, <1>11, <1>12,
     <1>13, <1>14, <1>15, <1>16, <1>17, <1>18, <1>19, <1>20, <1>21, <1>22, <1>23,
     <1>24, <1>25, <1>26
     DEF Next, WorkerStep, HandlerStep, RejudgeOne, RejudgeProblem

\* The state the code keeps has the types its schema and its Python say
\* (submissions, submission_tests, the threads' locals, cancel._requests).
THEOREM TypeCorrect == Spec => []TypeOK
<1>1. Init => TypeOK
  BY InitTypeOK
<1>2. TypeOK /\ [Next]_vars => TypeOK'
  BY StepTypeOK
<1>3. QED
  BY <1>1, <1>2, PTL DEF Spec

----------------------------------------------------------------------------
(***************************************************************************)
(* Who judges what.                                                        *)
(***************************************************************************)
USE DEF NoRow, PENDING, JUDGING, AC, WA, CE, IE, AB

\* Why claim_next may trust the verdict column: while a worker has a submission
\* its row says JUDGING, so that nobody else selects it.  The rest keeps a new row
\* from having a worker already and a restart from finding one at work.
ClaimInv ==
    /\ ExclusiveJudging
    /\ \A s \in Sub \ struck : Exists(s) /\ Holders(s) # {} => verdict[s] = JUDGING
    /\ \A w \in Worker : job[w] <= created
    /\ \A s \in Sub : Exists(s) => s <= created
    /\ ~up => \A w \in Worker : pc[w] = "idle"

LEMMA InitClaim == Init => ClaimInv
BY DEF Init, ClaimInv, ExclusiveJudging, Holders, Exists

\* A step that takes no submission and touches no verdict.
LEMMA NoNewHolder ==
    ASSUME TypeOK, ClaimInv, UNCHANGED <<verdict, struck, created, up>>,
           \A v \in Worker : /\ job'[v] \in {job[v], NoSub}
                             /\ pc'[v] \in Judging => pc[v] \in Judging /\ job'[v] = job[v]
                             /\ pc[v] = "idle" => pc'[v] = "idle"
    PROVE  ClaimInv'
<1>1. \A s \in Sub : Holders(s)' \subseteq Holders(s)
  BY DEF Holders
<1>2. ExclusiveJudging'
  BY <1>1 DEF ClaimInv, ExclusiveJudging
<1>3. (\A s \in Sub \ struck : Exists(s) /\ Holders(s) # {} => verdict[s] = JUDGING)'
  BY <1>1 DEF ClaimInv, Exists
<1>4. (\A w \in Worker : job[w] <= created)'
  BY DEF ClaimInv, TypeOK, BoundTypeOK
<1>5. (\A s \in Sub : Exists(s) => s <= created)'
  BY DEF ClaimInv, Exists
<1>6. (~up => \A w \in Worker : pc[w] = "idle")'
  BY DEF ClaimInv
<1>7. QED
  BY <1>2, <1>3, <1>4, <1>5, <1>6 DEF ClaimInv

\* A worker lets its submission go, having written its verdict or not.
LEMMA HolderLeaves ==
    ASSUME TypeOK, ClaimInv, NEW w \in Worker, pc[w] \in Judging,
           UNCHANGED <<struck, created, up>>,
           NEW place \in {"idle", "releasing"}, pc' = [pc EXCEPT ![w] = place],
           job' = [job EXCEPT ![w] = NoSub] \/ job' = job,
           NEW v \in Final, verdict' = Updated(verdict, job[w], v)
    PROVE  ClaimInv'
<1>1. \A s \in Sub : Holders(s)' \subseteq Holders(s) \ {w}
  BY DEF Holders, TypeOK, WorkerTypeOK
<1>2. job[w] \in Sub /\ w \in Holders(job[w])
  BY DEF Holders, TypeOK, WorkerTypeOK
<1>3. ExclusiveJudging'
  BY <1>1 DEF ClaimInv, ExclusiveJudging
<1>4. (\A s \in Sub \ struck : Exists(s) /\ Holders(s) # {} => verdict[s] = JUDGING)'
  <2> SUFFICES ASSUME NEW s \in Sub \ struck, Exists(s)', Holders(s)' # {}
               PROVE  verdict'[s] = JUDGING
    OBVIOUS
  <2>1. s # job[w]
    BY <1>1, <1>2 DEF ClaimInv, ExclusiveJudging
  <2>2. verdict'[s] = verdict[s]
    BY <2>1, <1>2 DEF Updated, TypeOK, DbTypeOK
  <2>3. QED
    BY <1>1, <2>2 DEF ClaimInv, Exists
<1>5. (\A u \in Worker : job[u] <= created)'
  BY DEF ClaimInv, TypeOK, BoundTypeOK, WorkerTypeOK
<1>6. (\A s \in Sub : Exists(s) => s <= created)'
  BY <1>2 DEF ClaimInv, Exists, Updated, TypeOK, DbTypeOK
<1>7. (~up => \A u \in Worker : pc[u] = "idle")'
  BY DEF ClaimInv, TypeOK, WorkerTypeOK
<1>8. QED
  BY <1>3, <1>4, <1>5, <1>6, <1>7 DEF ClaimInv

LEMMA StepClaim == TypeOK /\ ClaimInv /\ [Next]_vars => ClaimInv'
<1> SUFFICES ASSUME TypeOK, ClaimInv, [Next]_vars PROVE ClaimInv'
  OBVIOUS
<1> USE DEF Goto
<1>1. CASE Submit
  <2>1. created + 1 \in Sub /\ created' = created + 1 /\ created \in Nat
    BY <1>1 DEF TypeOK, BoundTypeOK, Submit
  <2>2. \A s \in Sub : s # created + 1 => verdict'[s] = verdict[s]
    BY <1>1 DEF TypeOK, DbTypeOK, Submit
  <2>3. \A s \in Sub : Holders(s)' = Holders(s)
    BY <1>1 DEF Submit, Holders
  <2>4. Holders(created + 1) = {}
    BY <2>1 DEF ClaimInv, Holders, TypeOK, WorkerTypeOK
  <2>5. ExclusiveJudging'
    BY <1>1, <2>3 DEF ClaimInv, ExclusiveJudging, Submit
  <2>6. (\A s \in Sub \ struck : Exists(s) /\ Holders(s) # {} => verdict[s] = JUDGING)'
    BY <1>1, <2>2, <2>3, <2>4 DEF ClaimInv, Exists, Submit
  <2>7. (\A w \in Worker : job[w] <= created)'
    BY <1>1, <2>1 DEF ClaimInv, TypeOK, WorkerTypeOK, Submit
  <2>8. (\A s \in Sub : Exists(s) => s <= created)'
    BY <1>1, <2>1, <2>2 DEF ClaimInv, Exists, Submit
  <2>9. (~up => \A w \in Worker : pc[w] = "idle")'
    BY <1>1 DEF ClaimInv, Submit
  <2>10. QED
    BY <2>5, <2>6, <2>7, <2>8, <2>9 DEF ClaimInv
<1>2. ASSUME NEW S \in SUBSET Sub, Rejudge(S) PROVE ClaimInv'
  <2>1. \A s \in Sub : Holders(s)' = Holders(s)
    BY <1>2 DEF Rejudge, Holders
  <2>2. \A s \in Sub \ struck' : s \notin struck /\ (s \in S => Holders(s) = {})
    BY <1>2 DEF Rejudge
  <2>3. ExclusiveJudging'
    BY <2>1, <2>2 DEF ClaimInv, ExclusiveJudging
  <2>4. (\A s \in Sub \ struck : Exists(s) /\ Holders(s) # {} => verdict[s] = JUDGING)'
    BY <1>2, <2>1, <2>2 DEF ClaimInv, Exists, Rejudge
  <2>5. (\A w \in Worker : job[w] <= created)'
    BY <1>2 DEF ClaimInv, Rejudge
  <2>6. (\A s \in Sub : Exists(s) => s <= created)'
    BY <1>2 DEF ClaimInv, Exists, Rejudge
  <2>7. (~up => \A w \in Worker : pc[w] = "idle")'
    BY <1>2 DEF ClaimInv, Rejudge
  <2>8. QED
    BY <2>3, <2>4, <2>5, <2>6, <2>7 DEF ClaimInv
<1>3. CASE DeleteProblem
  <2>1. \A s \in Sub : Holders(s)' = Holders(s) /\ ~Exists(s)'
    BY <1>3 DEF DeleteProblem, Holders, Exists
  <2>2. ExclusiveJudging'
    BY <1>3, <2>1 DEF ClaimInv, ExclusiveJudging, DeleteProblem
  <2>3. UNCHANGED <<job, pc, created, up>>
    BY <1>3 DEF DeleteProblem
  <2>4. QED
    BY <2>1, <2>2, <2>3 DEF ClaimInv
<1>4. ASSUME NEW w \in Worker, Claim(w) PROVE ClaimInv'
  <2>1. PICK s \in Sub : /\ verdict[s] = PENDING
                         /\ verdict' = [verdict EXCEPT ![s] = JUDGING]
                         /\ job' = [job EXCEPT ![w] = s]
    BY <1>4 DEF Claim, OldestPending, MarkJudging
  <2>2. /\ pc[w] = "idle" /\ pc' = [pc EXCEPT ![w] = "claimed"] /\ up
        /\ UNCHANGED <<struck, created, up>>
    BY <1>4 DEF Claim
  <2>3. \A q \in Sub : q # s => Holders(q)' = Holders(q)
    BY <2>1, <2>2 DEF Holders, TypeOK, WorkerTypeOK
  <2>4. Holders(s)' = Holders(s) \cup {w}
    BY <2>1, <2>2 DEF Holders, TypeOK, WorkerTypeOK
  <2>5. s \notin struck => Holders(s) = {}
    BY <2>1 DEF ClaimInv, Exists
  <2>6. ExclusiveJudging'
    <3> SUFFICES ASSUME NEW q \in Sub \ struck, NEW u \in Holders(q)', NEW v \in Holders(q)'
                 PROVE  u = v
      BY <2>2 DEF ExclusiveJudging
    <3>1. CASE q = s
      BY <3>1, <2>4, <2>5
    <3>2. CASE q # s
      BY <3>2, <2>3 DEF ClaimInv, ExclusiveJudging
    <3>3. QED
      BY <3>1, <3>2
  <2>7. (\A q \in Sub \ struck : Exists(q) /\ Holders(q) # {} => verdict[q] = JUDGING)'
    <3> SUFFICES ASSUME NEW q \in Sub \ struck, Exists(q)', Holders(q)' # {}
                 PROVE  verdict'[q] = JUDGING
      BY <2>2
    <3>1. CASE q = s
      BY <3>1, <2>1 DEF TypeOK, DbTypeOK
    <3>2. CASE q # s
      BY <3>2, <2>1, <2>3 DEF ClaimInv, Exists, TypeOK, DbTypeOK
    <3>3. QED
      BY <3>1, <3>2
  <2>8. (\A v \in Worker : job[v] <= created)'
    BY <2>1, <2>2 DEF ClaimInv, Exists, TypeOK, WorkerTypeOK
  <2>9. (\A q \in Sub : Exists(q) => q <= created)'
    BY <2>1, <2>2 DEF ClaimInv, Exists, TypeOK, DbTypeOK
  <2>10. (~up => \A v \in Worker : pc[v] = "idle")'
    BY <2>2
  <2>11. QED
    BY <2>6, <2>7, <2>8, <2>9, <2>10 DEF ClaimInv
<1>5. ASSUME NEW h \in Handler, AbortSettle(h) PROVE ClaimInv'
  <2>1. CASE UNCHANGED verdict
    BY <1>5, <2>1, NoNewHolder DEF AbortSettle
  <2>2. CASE StillQueued(target[h]) /\ verdict' = [verdict EXCEPT ![target[h]] = AB]
    <3>1. target[h] \in Sub
      BY <1>5 DEF AbortSettle, TypeOK, CancelTypeOK
    <3>2. \A s \in Sub : Holders(s)' = Holders(s)
      BY <1>5 DEF AbortSettle, Holders
    <3>3. target[h] \notin struck => Holders(target[h]) = {}
      BY <2>2, <3>1 DEF ClaimInv, Exists, StillQueued
    <3>4. ExclusiveJudging'
      BY <1>5, <3>2 DEF ClaimInv, ExclusiveJudging, AbortSettle
    <3>5. (\A s \in Sub \ struck : Exists(s) /\ Holders(s) # {} => verdict[s] = JUDGING)'
      BY <1>5, <2>2, <3>1, <3>2, <3>3 DEF ClaimInv, Exists, AbortSettle, TypeOK, DbTypeOK
    <3>6. (\A s \in Sub : Exists(s) => s <= created)'
      BY <1>5, <2>2, <3>1 DEF ClaimInv, Exists, StillQueued, AbortSettle, TypeOK, DbTypeOK
    <3>7. UNCHANGED <<job, pc, created, up>>
      BY <1>5 DEF AbortSettle
    <3>8. QED
      BY <3>4, <3>5, <3>6, <3>7 DEF ClaimInv
  <2>3. QED
    BY <1>5, <2>1, <2>2 DEF AbortSettle
<1>6. ASSUME NEW w \in Worker, Store(w) PROVE ClaimInv'
  <2>1. CASE WriteOutcome(job[w], run[w]) /\ Goto(w, "releasing")
    <3>1. run[w].verdict \in Final /\ pc[w] \in Judging
      BY <1>6 DEF Store, TypeOK, WorkerTypeOK, Outcomes
    <3>2. UNCHANGED <<struck, created, up, job>>
      BY <1>6 DEF Store
    <3>3. verdict' = Updated(verdict, job[w], run[w].verdict)
      BY <2>1 DEF WriteOutcome
    <3>4. QED
      BY <2>1, <3>1, <3>2, <3>3, HolderLeaves
  <2>2. CASE UNCHANGED verdict /\ Goto(w, "unwinding")
    <3>1. UNCHANGED <<verdict, struck, created, up, job>> /\ pc[w] = "storing"
      BY <1>6, <2>2 DEF Store
    <3>2. QED
      BY <2>2, <3>1, NoNewHolder DEF TypeOK, WorkerTypeOK
  <2>3. QED
    BY <1>6, <2>1, <2>2 DEF Store
<1>7. ASSUME NEW w \in Worker, RecordCrash(w) PROVE ClaimInv'
  <2>1. /\ pc[w] = "crashed" /\ Goto(w, "idle") /\ job' = [job EXCEPT ![w] = NoSub]
        /\ UNCHANGED <<struck, created, up>>
    BY <1>7 DEF RecordCrash
  <2>2. verdict' = Updated(verdict, job[w], IE)
    BY <1>7 DEF RecordCrash, WriteOutcome, Outcome
  <2>3. QED
    BY <2>1, <2>2, HolderLeaves
<1>8. CASE Crash
  <2>1. \A s \in Sub : Holders(s)' = {}
    BY <1>8 DEF Crash, Holders
  <2>2. ExclusiveJudging'
    BY <2>1 DEF ExclusiveJudging
  <2>3. (\A w \in Worker : job[w] <= created)' /\ (~up => \A w \in Worker : pc[w] = "idle")'
    BY <1>8 DEF Crash, TypeOK, BoundTypeOK
  <2>4. (\A s \in Sub : Exists(s) => s <= created)'
    BY <1>8 DEF Crash, ClaimInv, Exists
  <2>5. QED
    BY <2>1, <2>2, <2>3, <2>4 DEF ClaimInv
<1>9. CASE Restart
  <2>1. \A s \in Sub : Holders(s)' = {}
    BY <1>9 DEF Restart, Holders, ClaimInv
  <2>2. ExclusiveJudging'
    BY <2>1 DEF ExclusiveJudging
  <2>3. UNCHANGED <<job, created>> /\ up'
    BY <1>9 DEF Restart
  <2>4. (\A s \in Sub : Exists(s) => s <= created)'
    BY <1>9 DEF Restart, Stuck, ClaimInv, Exists
  <2>5. QED
    BY <2>1, <2>2, <2>3, <2>4 DEF ClaimInv
<1>10. ASSUME NEW w \in Worker,
              \/ Reset(w) \/ Vanished(w) \/ Load(w) \/ Compiled(w) \/ BeginTest(w)
              \/ Cancelled(w) \/ Breaks(w) \/ Release(w) \/ Fault(w)
              \/ \E v \in {CE, IE} : Refuse(w, v)
              \/ \E ok, published \in BOOLEAN : EndTest(w, ok, published)
       PROVE  ClaimInv'
  <2>1. UNCHANGED <<verdict, struck, created, up>>
    BY <1>10 DEF Reset, Vanished, Load, Compiled, BeginTest, Cancelled, Breaks, Release,
                 Fault, Refuse, EndTest
  <2>2. \E place \in WorkerPc :
           /\ pc' = [pc EXCEPT ![w] = place]
           /\ pc[w] # "idle"
           /\ pc[w] = "releasing" => place = "idle"
           /\ job' = job \/ (job' = [job EXCEPT ![w] = NoSub] /\ place = "idle")
    BY <1>10 DEF Reset, Vanished, Load, Compiled, BeginTest, Cancelled, Breaks, Release,
                 Fault, Refuse, EndTest
  <2>3. QED
    BY <2>1, <2>2, NoNewHolder DEF TypeOK, WorkerTypeOK
<1>11. CASE \/ FixTests
            \/ \E h \in Handler :
                 AbortRead(h) \/ AbortRequest(h) \/ AbortRelease(h) \/ AbortFault(h)
            \/ UNCHANGED vars
  <2>1. UNCHANGED <<verdict, struck, created, up, job, pc>>
    BY <1>11 DEF FixTests, AbortRead, AbortRequest, AbortRelease, AbortFault
  <2>2. QED
    BY <2>1, NoNewHolder
<1>12. QED
  BY <1>1, <1>2, <1>3, <1>4, <1>5, <1>6, <1>7, <1>8, <1>9, <1>10, <1>11
     DEF Next, WorkerStep, HandlerStep, RejudgeOne, RejudgeProblem

\* claim_next's promise: no submission is judged by two workers at once, through
\* every interleaving of faults, crashes, cancellations and deletions, unless a
\* rejudge strikes while it is being judged.
THEOREM Exclusive == Spec => []ExclusiveJudging
<1>1. Init => TypeOK /\ ClaimInv
  BY InitTypeOK, InitClaim
<1>2. TypeOK /\ ClaimInv /\ [Next]_vars => (TypeOK /\ ClaimInv)'
  BY StepTypeOK, StepClaim
<1>3. ClaimInv => ExclusiveJudging
  BY DEF ClaimInv
<1>4. QED
  BY <1>1, <1>2, <1>3, PTL DEF Spec

-----------------------------------------------------------------------------
(***************************************************************************)
(* Results stand.                                                          *)
(***************************************************************************)

\* What a worker writes, it writes to a row that is not final.
LEMMA OwnRow ==
    ASSUME TypeOK, ClaimInv, NEW w \in Worker, pc[w] \in Judging,
           NEW s \in Sub \ struck, verdict[s] \in Final
    PROVE  job[w] \in Sub /\ job[w] # s
<1>1. job[w] \in Sub
  BY DEF TypeOK, WorkerTypeOK
<1>2. job[w] = s => w \in Holders(s) /\ Exists(s)
  BY DEF Holders, Exists
<1>3. QED
  BY <1>1, <1>2 DEF ClaimInv

LEMMA StepResultStands ==
    ASSUME TypeOK, ClaimInv, [Next]_vars, NEW s \in Sub
    PROVE  ResultStands(s)
<1> SUFFICES ASSUME verdict[s] \in Final, s \notin struck', verdict'[s] # NoRow
             PROVE  /\ UNCHANGED <<score[s], earned[s], rows[s]>>
                    /\ verdict'[s] # verdict[s] => rejudges' # rejudges
  BY DEF ResultStands
<1>1. CASE Submit
  <2>1. s # created + 1
    BY DEF ClaimInv, Exists, TypeOK, BoundTypeOK
  <2>2. QED
    BY <1>1, <2>1 DEF Submit, TypeOK, DbTypeOK
<1>2. ASSUME NEW S \in SUBSET Sub, Rejudge(S)
      PROVE  /\ UNCHANGED <<score[s], earned[s], rows[s]>>
             /\ rejudges' # rejudges
  BY <1>2 DEF Rejudge, TypeOK, BoundTypeOK
<1>3. CASE DeleteProblem
  BY <1>3 DEF DeleteProblem
<1>4. ASSUME NEW w \in Worker, Claim(w)
      PROVE  UNCHANGED <<score, earned, rows, verdict[s]>>
  <2>1. PICK q \in Sub : verdict[q] = PENDING /\ verdict' = [verdict EXCEPT ![q] = JUDGING]
    BY <1>4 DEF Claim, OldestPending, MarkJudging
  <2>2. QED
    BY <1>4, <2>1 DEF Claim, TypeOK, DbTypeOK
<1>5. ASSUME NEW w \in Worker, Reset(w)
      PROVE  UNCHANGED <<score[s], earned[s], rows[s], verdict[s]>>
  <2>1. pc[w] \in Judging /\ UNCHANGED <<struck, verdict, earned>>
    BY <1>5 DEF Reset
  <2>2. job[w] \in Sub /\ job[w] # s
    BY <2>1, OwnRow
  <2>3. QED
    BY <1>5, <2>1, <2>2 DEF Reset, ClearEarlierRun, TypeOK, DbTypeOK
<1>6. ASSUME NEW w \in Worker, NEW ok \in BOOLEAN, NEW published \in BOOLEAN,
             EndTest(w, ok, published)
      PROVE  UNCHANGED <<score[s], earned[s], rows[s], verdict[s]>>
  <2>1. pc[w] \in Judging /\ UNCHANGED <<struck, verdict, earned>>
    BY <1>6 DEF EndTest
  <2>2. job[w] \in Sub /\ job[w] # s
    BY <2>1, OwnRow
  <2>3. CASE Publish(job[w], run[w].next, ok)
    BY <2>1, <2>2, <2>3 DEF Publish, Updated, TypeOK, DbTypeOK
  <2>4. CASE UNCHANGED <<rows, score>>
    BY <2>1, <2>4
  <2>5. QED
    BY <1>6, <2>3, <2>4 DEF EndTest
<1>7. ASSUME NEW q \in Sub, q # s, NEW r, WriteOutcome(q, r)
      PROVE  UNCHANGED <<score[s], earned[s], rows[s], verdict[s]>>
  BY <1>7 DEF WriteOutcome, RowsOf, Updated, TypeOK, DbTypeOK
<1>8. ASSUME NEW w \in Worker, Store(w)
      PROVE  UNCHANGED <<score[s], earned[s], rows[s], verdict[s]>>
  <2>1. pc[w] \in Judging /\ UNCHANGED struck
    BY <1>8 DEF Store
  <2>2. job[w] \in Sub /\ job[w] # s
    BY <2>1, OwnRow
  <2>3. CASE WriteOutcome(job[w], run[w])
    BY <1>7, <2>2, <2>3
  <2>4. CASE UNCHANGED dbVars
    BY <2>4
  <2>5. QED
    BY <1>8, <2>3, <2>4 DEF Store
<1>9. ASSUME NEW w \in Worker, RecordCrash(w)
      PROVE  UNCHANGED <<score[s], earned[s], rows[s], verdict[s]>>
  <2>1. pc[w] \in Judging /\ UNCHANGED struck
    BY <1>9 DEF RecordCrash
  <2>2. job[w] \in Sub /\ job[w] # s
    BY <2>1, OwnRow
  <2>3. QED
    BY <1>7, <1>9, <2>2 DEF RecordCrash
<1>10. ASSUME NEW h \in Handler, AbortSettle(h)
       PROVE  UNCHANGED <<score, earned, rows, verdict[s]>>
  BY <1>10 DEF AbortSettle, StillQueued, TypeOK, DbTypeOK
<1>11. CASE Restart
  BY <1>11 DEF Restart, Stuck
<1>12. ASSUME NEW w \in Worker,
              \/ Vanished(w) \/ Load(w) \/ Compiled(w) \/ BeginTest(w)
              \/ Cancelled(w) \/ Breaks(w) \/ Release(w) \/ Fault(w)
              \/ \E v \in {CE, IE} : Refuse(w, v)
       PROVE  UNCHANGED dbVars
  BY <1>12 DEF Vanished, Load, Compiled, BeginTest, Cancelled, Breaks, Release, Fault, Refuse
<1>13. CASE \/ FixTests \/ Crash
            \/ \E h \in Handler :
                 AbortRead(h) \/ AbortRequest(h) \/ AbortRelease(h) \/ AbortFault(h)
            \/ UNCHANGED vars
  <2>1. UNCHANGED dbVars
    BY <1>13 DEF FixTests, Crash, AbortRead, AbortRequest, AbortRelease, AbortFault
  <2>2. QED
    BY <2>1
<1>14. QED
  BY <1>1, <1>2, <1>3, <1>4, <1>5, <1>6, <1>8, <1>9, <1>10, <1>11, <1>12, <1>13
     DEF Next, WorkerStep, HandlerStep, RejudgeOne, RejudgeProblem

\* A final result changes only by a rejudge, which changes no more than the
\* verdict: not by a late worker, a late cancellation or a restart
\* (store_outcome, abort_submission, requeue_stuck).
THEOREM ResultsKept == Spec => ResultsStand
<1>1. Init => TypeOK /\ ClaimInv
  BY InitTypeOK, InitClaim
<1>2. TypeOK /\ ClaimInv /\ [Next]_vars => (TypeOK /\ ClaimInv)'
  BY StepTypeOK, StepClaim
<1>3. TypeOK /\ ClaimInv /\ [Next]_vars => [\A s \in Sub : ResultStands(s)]_vars
  BY StepResultStands
<1>4. QED
  BY <1>1, <1>2, <1>3, PTL DEF Spec, ResultsStand

-----------------------------------------------------------------------------
(***************************************************************************)
(* No row is left behind.                                                  *)
(***************************************************************************)

\* A step after which whoever judged something still does.
LEMMA KeepsHolders ==
    ASSUME TypeOK, NoZombieRow, UNCHANGED <<verdict, up, orphaned>>,
           \A v \in Worker : pc[v] \in Judging => pc'[v] \in Judging /\ job'[v] = job[v]
    PROVE  NoZombieRow'
<1>1. \A s \in Sub : Holders(s) \subseteq Holders(s)'
  BY DEF Holders
<1>2. QED
  BY <1>1 DEF NoZombieRow

\* A step by which w lets its submission go and the row says so, or is gone.
LEMMA RowSettled ==
    ASSUME TypeOK, NoZombieRow, NEW w \in Worker, UNCHANGED up,
           \A v \in Worker \ {w} : pc'[v] = pc[v] /\ job'[v] = job[v],
           \A s \in Sub : s # job[w] => verdict'[s] = verdict[s],
           orphaned \subseteq orphaned',
           job[w] \in Sub \ orphaned' => verdict'[job[w]] # JUDGING
    PROVE  NoZombieRow'
<1>1. \A s \in Sub : s # job[w] => Holders(s) \subseteq Holders(s)'
  BY DEF Holders
<1>2. QED
  BY <1>1 DEF NoZombieRow

LEMMA StepNoZombieRow == TypeOK /\ NoZombieRow /\ [Next]_vars => NoZombieRow'
<1> SUFFICES ASSUME TypeOK, NoZombieRow, [Next]_vars PROVE NoZombieRow'
  OBVIOUS
<1> USE DEF Goto
<1>1. CASE Submit
  <2>1. \A s \in Sub : Holders(s)' = Holders(s)
    BY <1>1 DEF Submit, Holders
  <2>2. QED
    BY <1>1, <2>1 DEF Submit, NoZombieRow, TypeOK, DbTypeOK
<1>2. ASSUME NEW S \in SUBSET Sub, Rejudge(S) PROVE NoZombieRow'
  <2>1. \A s \in Sub : Holders(s)' = Holders(s)
    BY <1>2 DEF Rejudge, Holders
  <2>2. QED
    BY <1>2, <2>1 DEF Rejudge, NoZombieRow
<1>3. CASE DeleteProblem
  BY <1>3 DEF DeleteProblem, NoZombieRow
<1>4. ASSUME NEW w \in Worker, Claim(w) PROVE NoZombieRow'
  <2>1. PICK s \in Sub : /\ verdict' = [verdict EXCEPT ![s] = JUDGING]
                         /\ job' = [job EXCEPT ![w] = s]
    BY <1>4 DEF Claim, MarkJudging
  <2>2. /\ pc[w] = "idle" /\ pc' = [pc EXCEPT ![w] = "claimed"]
        /\ UNCHANGED <<up, orphaned>>
    BY <1>4 DEF Claim
  <2>3. \A q \in Sub : Holders(q) \subseteq Holders(q)'
    BY <2>1, <2>2 DEF Holders, TypeOK, WorkerTypeOK
  <2>4. w \in Holders(s)'
    BY <2>1, <2>2 DEF Holders, TypeOK, WorkerTypeOK
  <2>5. \A q \in Sub : q # s => verdict'[q] = verdict[q]
    BY <2>1 DEF TypeOK, DbTypeOK
  <2>6. QED
    BY <2>2, <2>3, <2>4, <2>5 DEF NoZombieRow
<1>5. ASSUME NEW h \in Handler, AbortSettle(h) PROVE NoZombieRow'
  <2>1. \A s \in Sub : Holders(s)' = Holders(s)
    BY <1>5 DEF AbortSettle, Holders
  <2>2. \A s \in Sub : verdict'[s] = JUDGING => verdict[s] = JUDGING
    BY <1>5 DEF AbortSettle, TypeOK, DbTypeOK
  <2>3. UNCHANGED <<up, orphaned>>
    BY <1>5 DEF AbortSettle
  <2>4. QED
    BY <2>1, <2>2, <2>3 DEF NoZombieRow
<1>6. ASSUME NEW w \in Worker, NEW r \in Outcomes, pc[w] \in Judging,
             WriteOutcome(job[w], r), UNCHANGED <<up, orphaned>>,
             NEW place \in WorkerPc, pc' = [pc EXCEPT ![w] = place],
             job' = [job EXCEPT ![w] = NoSub] \/ job' = job
      PROVE  NoZombieRow'
  <2>1. job[w] \in Sub
    BY <1>6 DEF TypeOK, WorkerTypeOK
  <2>2. \A s \in Sub : s # job[w] => verdict'[s] = verdict[s]
    BY <1>6, <2>1 DEF WriteOutcome, Updated, TypeOK, DbTypeOK
  <2>3. verdict'[job[w]] # JUDGING
    BY <1>6, <2>1 DEF WriteOutcome, Updated, Exists, Outcomes, TypeOK, DbTypeOK
  <2>4. \A v \in Worker \ {w} : pc'[v] = pc[v] /\ job'[v] = job[v]
    BY <1>6 DEF TypeOK, WorkerTypeOK
  <2>5. QED
    BY <1>6, <2>2, <2>3, <2>4, RowSettled
<1>7. ASSUME NEW w \in Worker, Store(w) PROVE NoZombieRow'
  <2>1. pc[w] = "storing" /\ run[w] \in Outcomes /\ UNCHANGED <<up, orphaned, job>>
    BY <1>7 DEF Store, TypeOK, WorkerTypeOK
  <2>2. CASE WriteOutcome(job[w], run[w]) /\ Goto(w, "releasing")
    BY <1>6, <2>1, <2>2
  <2>3. CASE UNCHANGED verdict /\ Goto(w, "unwinding")
    BY <2>1, <2>3, KeepsHolders DEF TypeOK, WorkerTypeOK
  <2>4. QED
    BY <1>7, <2>2, <2>3 DEF Store
<1>8. ASSUME NEW w \in Worker, RecordCrash(w) PROVE NoZombieRow'
  <2>1. Outcome(0, 1, {}, IE) \in Outcomes
    BY NoRunType
  <2>2. QED
    BY <1>6, <1>8, <2>1 DEF RecordCrash
<1>9. ASSUME NEW w \in Worker, Vanished(w) PROVE NoZombieRow'
  <2>1. job[w] \in Sub /\ verdict[job[w]] # JUDGING
    BY <1>9 DEF Vanished, Exists, TypeOK, WorkerTypeOK
  <2>2. \A v \in Worker \ {w} : pc'[v] = pc[v] /\ job'[v] = job[v]
    BY <1>9 DEF Vanished, TypeOK, WorkerTypeOK
  <2>3. UNCHANGED <<verdict, up, orphaned>>
    BY <1>9 DEF Vanished
  <2>4. QED
    BY <2>1, <2>2, <2>3, RowSettled
<1>10. ASSUME NEW w \in Worker, Fault(w) PROVE NoZombieRow'
  <2>1. UNCHANGED <<verdict, up>>
    BY <1>10 DEF Fault
  <2>2. CASE /\ Goto(w, "idle") /\ job' = [job EXCEPT ![w] = NoSub]
             /\ orphaned' = orphaned \cup {job[w]}
    <3>1. \A v \in Worker \ {w} : pc'[v] = pc[v] /\ job'[v] = job[v]
      BY <2>2 DEF TypeOK, WorkerTypeOK
    <3>2. QED
      BY <2>1, <2>2, <3>1, RowSettled
  <2>3. CASE UNCHANGED <<job, orphaned>> /\ (Goto(w, "crashed") \/ Goto(w, "unwinding"))
    BY <2>1, <2>3, KeepsHolders DEF TypeOK, WorkerTypeOK
  <2>4. QED
    BY <1>10, <2>2, <2>3 DEF Fault
<1>11. ASSUME NEW w \in Worker,
              \/ Reset(w) \/ Load(w) \/ Compiled(w) \/ BeginTest(w)
              \/ Cancelled(w) \/ Breaks(w) \/ Release(w)
              \/ \E v \in {CE, IE} : Refuse(w, v)
              \/ \E ok, published \in BOOLEAN : EndTest(w, ok, published)
       PROVE  NoZombieRow'
  <2>1. UNCHANGED <<verdict, up, orphaned>>
    BY <1>11 DEF Reset, Load, Compiled, BeginTest, Cancelled, Breaks, Release, Refuse, EndTest
  <2>2. \E place \in WorkerPc :
           /\ pc' = [pc EXCEPT ![w] = place]
           /\ \/ place \in Judging /\ job' = job
              \/ pc[w] = "releasing" /\ job' = [job EXCEPT ![w] = NoSub]
    BY <1>11 DEF Reset, Load, Compiled, BeginTest, Cancelled, Breaks, Release, Refuse, EndTest
  <2>3. QED
    BY <2>1, <2>2, KeepsHolders DEF TypeOK, WorkerTypeOK
<1>12. CASE Crash
  BY <1>12 DEF Crash, NoZombieRow
<1>13. CASE Restart
  BY <1>13 DEF Restart, Stuck, NoZombieRow
<1>14. CASE \/ FixTests
            \/ \E h \in Handler :
                 AbortRead(h) \/ AbortRequest(h) \/ AbortRelease(h) \/ AbortFault(h)
            \/ UNCHANGED vars
  <2>1. UNCHANGED <<verdict, up, orphaned, job, pc>>
    BY <1>14 DEF FixTests, AbortRead, AbortRequest, AbortRelease, AbortFault
  <2>2. QED
    BY <2>1, KeepsHolders
<1>15. QED
  BY <1>1, <1>2, <1>3, <1>4, <1>5, <1>7, <1>8, <1>9, <1>10, <1>11, <1>12, <1>13, <1>14
     DEF Next, WorkerStep, HandlerStep, RejudgeOne, RejudgeProblem

\* While the judge runs, a row says JUDGING only if some worker has it, or the
\* worker that had it could not write (run()'s crash path, requeue_stuck).
THEOREM NoRowLeft == Spec => []NoZombieRow
<1>1. Init => TypeOK /\ NoZombieRow
  BY InitTypeOK DEF Init, NoZombieRow
<1>2. TypeOK /\ NoZombieRow /\ [Next]_vars => (TypeOK /\ NoZombieRow)'
  BY StepTypeOK, StepNoZombieRow
<1>3. QED
  BY <1>1, <1>2, PTL DEF Spec

-----------------------------------------------------------------------------
(***************************************************************************)
(* A rejudge takes effect.                                                 *)
(***************************************************************************)

\* A run that may still end in a grade, of a submission no rejudge struck, was
\* loaded from test data at least as new as the enqueueing asks for.
FreshRuns ==
    \A w \in Worker :
        job[w] \in Sub \ struck =>
            /\ pc[w] \in {"ready", "loop", "running"} => run[w].ver >= want[job[w]]
            /\ pc[w] = "storing" /\ run[w].verdict \in {AC, WA} =>
                 run[w].ver >= want[job[w]]

FreshInv ==
    /\ FreshVerdict
    /\ FreshRuns
    /\ \A s \in Sub : want[s] <= data

LEMMA InitFresh == Init => FreshInv
BY DEF Init, FreshInv, FreshVerdict, FreshRuns, NewRun, Outcome

\* A step that grades nothing, enqueues nothing and loads nothing.
LEMMA NothingGraded ==
    ASSUME TypeOK, FreshInv, UNCHANGED <<struck, want, basis>>, data' = data \/ data' = data + 1,
           \A s \in Sub : verdict'[s] \in {AC, WA} => verdict[s] \in {AC, WA},
           \A w \in Worker :
             \/ job'[w] = job[w] /\ run'[w] = run[w]
                  /\ (pc'[w] = pc[w] \/ pc'[w] \notin {"ready", "loop", "running", "storing"})
             \/ pc'[w] \notin {"ready", "loop", "running", "storing"}
    PROVE  FreshInv'
<1>1. FreshVerdict'
  BY DEF FreshInv, FreshVerdict
<1>2. FreshRuns'
  BY DEF FreshInv, FreshRuns
<1>3. (\A s \in Sub : want[s] <= data)'
  BY DEF FreshInv, TypeOK, DbTypeOK, HistoryTypeOK
<1>4. QED
  BY <1>1, <1>2, <1>3 DEF FreshInv

\* A step of w's run that leaves the database's verdicts alone.
LEMMA RunMoves ==
    ASSUME TypeOK, FreshInv, NEW w \in Worker, NEW r \in Outcomes, NEW place \in WorkerPc,
           run' = [run EXCEPT ![w] = r], pc' = [pc EXCEPT ![w] = place],
           UNCHANGED <<verdict, struck, want, basis, data, job>>,
           job[w] \in Sub \ struck =>
             \/ place \notin {"ready", "loop", "running", "storing"}
             \/ place = "storing" /\ r.verdict \notin {AC, WA}
             \/ r.ver >= want[job[w]]
    PROVE  FreshInv'
<1>1. FreshVerdict'
  BY DEF FreshInv, FreshVerdict
<1>2. FreshRuns'
  <2> SUFFICES ASSUME NEW v \in Worker, job[v] \in Sub \ struck
               PROVE  /\ pc'[v] \in {"ready", "loop", "running"} => run'[v].ver >= want[job[v]]
                      /\ pc'[v] = "storing" /\ run'[v].verdict \in {AC, WA} =>
                           run'[v].ver >= want[job[v]]
    BY DEF FreshRuns
  <2>1. CASE v = w
    BY <2>1 DEF TypeOK, WorkerTypeOK
  <2>2. CASE v # w
    BY <2>2 DEF FreshInv, FreshRuns, TypeOK, WorkerTypeOK
  <2>3. QED
    BY <2>1, <2>2
<1>3. QED
  BY <1>1, <1>2 DEF FreshInv

LEMMA StepFresh == TypeOK /\ ClaimInv /\ FreshInv /\ [Next]_vars => FreshInv'
<1> SUFFICES ASSUME TypeOK, ClaimInv, FreshInv, [Next]_vars PROVE FreshInv'
  OBVIOUS
<1> USE DEF Goto
<1>1. CASE Submit
  <2>1. created + 1 \in Sub
    BY <1>1 DEF Submit, TypeOK, BoundTypeOK
  <2>2. \A w \in Worker : job[w] # created + 1
    BY DEF ClaimInv, TypeOK, BoundTypeOK, WorkerTypeOK
  <2>3. /\ UNCHANGED <<pc, job, run, struck, basis, data>>
        /\ verdict' = [verdict EXCEPT ![created + 1] = PENDING]
        /\ want' = [want EXCEPT ![created + 1] = data]
    BY <1>1 DEF Submit
  <2>4. FreshVerdict'
    BY <2>1, <2>3 DEF FreshInv, FreshVerdict, TypeOK, DbTypeOK, HistoryTypeOK
  <2>5. FreshRuns'
    BY <2>1, <2>2, <2>3 DEF FreshInv, FreshRuns, TypeOK, HistoryTypeOK
  <2>6. (\A s \in Sub : want[s] <= data)'
    BY <2>1, <2>3 DEF FreshInv, TypeOK, HistoryTypeOK, DbTypeOK
  <2>7. QED
    BY <2>4, <2>5, <2>6 DEF FreshInv
<1>2. ASSUME NEW S \in SUBSET Sub, Rejudge(S) PROVE FreshInv'
  <2>1. /\ UNCHANGED <<pc, job, run, basis, data>>
        /\ verdict' = [s \in Sub |-> IF s \in S THEN PENDING ELSE verdict[s]]
        /\ want' = [s \in Sub |-> IF s \in S THEN data ELSE want[s]]
        /\ \A s \in Sub \ struck' : s \notin struck /\ (s \in S => Holders(s) = {})
    BY <1>2 DEF Rejudge
  <2>2. FreshVerdict'
    BY <2>1 DEF FreshInv, FreshVerdict
  <2>3. FreshRuns'
    <3> SUFFICES ASSUME NEW w \in Worker, job[w] \in Sub \ struck', pc[w] \in Judging
                 PROVE  want'[job[w]] = want[job[w]] /\ job[w] \notin struck
      BY <2>1 DEF FreshInv, FreshRuns
    <3>1. w \in Holders(job[w])
      BY DEF Holders
    <3>2. QED
      BY <2>1, <3>1
  <2>4. (\A s \in Sub : want[s] <= data)'
    BY <2>1 DEF FreshInv, TypeOK, DbTypeOK
  <2>5. QED
    BY <2>2, <2>3, <2>4 DEF FreshInv
<1>3. ASSUME NEW w \in Worker, Claim(w) PROVE FreshInv'
  <2>1. PICK s \in Sub : verdict' = [verdict EXCEPT ![s] = JUDGING]
    BY <1>3 DEF Claim, MarkJudging
  <2>2. /\ UNCHANGED <<struck, want, basis, data, run>> /\ pc' = [pc EXCEPT ![w] = "claimed"]
        /\ \A v \in Worker : v # w => job'[v] = job[v]
    BY <1>3 DEF Claim, TypeOK, WorkerTypeOK
  <2>3. \A q \in Sub : verdict'[q] \in {AC, WA} => verdict[q] \in {AC, WA}
    BY <2>1 DEF TypeOK, DbTypeOK
  <2>4. QED
    BY <2>2, <2>3, NothingGraded DEF TypeOK, WorkerTypeOK
<1>4. ASSUME NEW w \in Worker, Load(w) PROVE FreshInv'
  <2>1. UNCHANGED <<verdict, struck, want, basis, data, job>>
    BY <1>4 DEF Load
  <2>2. CASE /\ run' = [run EXCEPT ![w] = Outcome(LoadedTests, 1, {}, AC)]
             /\ Goto(w, "ready")
    <3>1. Outcome(LoadedTests, 1, {}, AC) \in Outcomes
      BY NoRunType DEF LoadedTests, TypeOK, DbTypeOK
    <3>2. job[w] \in Sub => Outcome(LoadedTests, 1, {}, AC).ver >= want[job[w]]
      BY DEF Outcome, LoadedTests, FreshInv, TypeOK, DbTypeOK, HistoryTypeOK
    <3>3. QED
      BY <2>1, <2>2, <3>1, <3>2, RunMoves
  <2>3. CASE /\ run' = [run EXCEPT ![w] = Outcome(0, 1, {}, IE)]
             /\ Goto(w, "storing")
    <3>1. Outcome(0, 1, {}, IE) \in Outcomes
      BY NoRunType
    <3>2. Outcome(0, 1, {}, IE).verdict \notin {AC, WA}
      BY DEF Outcome
    <3>3. QED
      BY <2>1, <2>3, <3>1, <3>2, RunMoves
  <2>4. QED
    BY <1>4, <2>2, <2>3 DEF Load
<1>5. ASSUME NEW w \in Worker, NEW r \in Outcomes, r.ver = run[w].ver,
             pc[w] \in {"ready", "loop", "running"}, run' = [run EXCEPT ![w] = r],
             NEW place \in WorkerPc, Goto(w, place),
             UNCHANGED <<verdict, struck, want, basis, data, job>>
      PROVE  FreshInv'
  <2>1. job[w] \in Sub \ struck => r.ver >= want[job[w]]
    BY <1>5 DEF FreshInv, FreshRuns
  <2>2. QED
    BY <1>5, <2>1, RunMoves
<1>6. ASSUME NEW w \in Worker,
             \/ Compiled(w) \/ BeginTest(w) \/ Cancelled(w) \/ Breaks(w)
             \/ \E v \in {CE, IE} : Refuse(w, v)
             \/ \E ok, published \in BOOLEAN : EndTest(w, ok, published)
      PROVE  FreshInv'
  <2>1. run[w] \in Outcomes /\ pc[w] \in {"ready", "loop", "running"}
    BY <1>6 DEF Compiled, BeginTest, Cancelled, Breaks, Refuse, EndTest, TypeOK, WorkerTypeOK
  <2>2. /\ UNCHANGED <<verdict, struck, want, basis, data, job>>
        /\ \E place \in WorkerPc : Goto(w, place)
    BY <1>6 DEF Compiled, BeginTest, Cancelled, Breaks, Refuse, EndTest, Ends
  <2>3. \E r \in Outcomes : r.ver = run[w].ver /\ run' = [run EXCEPT ![w] = r]
    <3>1. CASE Compiled(w) \/ BeginTest(w)
      <4>1. run' = [run EXCEPT ![w] = run[w]]
        BY <3>1 DEF Compiled, BeginTest, TypeOK, WorkerTypeOK
      <4>2. QED
        BY <2>1, <4>1
    <3>2. CASE Cancelled(w)
      <4> DEFINE r == Outcome(run[w].ver, run[w].next, run[w].passed, AB)
      <4>1. r \in Outcomes /\ r.ver = run[w].ver
        BY <2>1, OutcomeType DEF Outcomes, Outcome
      <4>2. QED
        BY <3>2, <4>1 DEF Cancelled
    <3>3. CASE Breaks(w) \/ \E v \in {CE, IE} : Refuse(w, v)
      <4>1. PICK v \in {CE, IE} : run' = [run EXCEPT ![w] = Outcome(run[w].ver, 1, {}, v)]
        BY <3>3 DEF Breaks, Refuse
      <4> DEFINE r == Outcome(run[w].ver, 1, {}, v)
      <4>2. r \in Outcomes /\ r.ver = run[w].ver
        BY <2>1, NoRunType DEF Outcomes, Outcome
      <4>3. QED
        BY <4>1, <4>2
    <3>4. ASSUME NEW ok \in BOOLEAN, NEW published \in BOOLEAN, EndTest(w, ok, published)
          PROVE  \E r \in Outcomes : r.ver = run[w].ver /\ run' = [run EXCEPT ![w] = r]
      <4> DEFINE i == run[w].next
                 r == Outcome(run[w].ver, i + 1,
                              IF ok THEN run[w].passed \cup {i} ELSE run[w].passed,
                              IF ok THEN run[w].verdict ELSE WA)
      <4>1. i \in Test
        BY <3>4 DEF EndTest, TypeOK, WorkerTypeOK
      <4>2. r \in Outcomes /\ r.ver = run[w].ver
        BY <2>1, <4>1, OutcomeType DEF Outcomes, Outcome
      <4>3. run' = [run EXCEPT ![w] = r]
        BY <3>4 DEF EndTest
      <4>4. QED
        BY <4>2, <4>3
    <3>5. QED
      BY <1>6, <3>1, <3>2, <3>3, <3>4
  <2>4. QED
    BY <1>5, <2>1, <2>2, <2>3
<1>7. ASSUME NEW w \in Worker, Store(w) PROVE FreshInv'
  <2>1. /\ pc[w] = "storing" /\ job[w] \in Sub /\ run[w] \in Outcomes
        /\ UNCHANGED <<struck, want, data, job>> /\ run' = [run EXCEPT ![w] = NewRun]
    BY <1>7 DEF Store, TypeOK, WorkerTypeOK
  <2>2. \E place \in {"releasing", "unwinding"} : Goto(w, place)
    BY <1>7 DEF Store
  <2>3. FreshRuns'
    BY <2>1, <2>2 DEF FreshInv, FreshRuns, TypeOK, WorkerTypeOK
  <2>4. FreshVerdict'
    <3>1. CASE WriteOutcome(job[w], run[w])
      <4>1. \A s \in Sub : s # job[w] => verdict'[s] = verdict[s] /\ basis'[s] = basis[s]
        BY <2>1, <3>1 DEF WriteOutcome, Updated, TypeOK, DbTypeOK, HistoryTypeOK
      <4>2. verdict'[job[w]] \in {AC, WA} => run[w].verdict \in {AC, WA}
        BY <2>1, <3>1 DEF WriteOutcome, Updated, Exists, TypeOK, DbTypeOK
      <4>3. basis'[job[w]] = run[w].ver
        BY <2>1, <3>1 DEF WriteOutcome, TypeOK, HistoryTypeOK
      <4>4. QED
        BY <2>1, <4>1, <4>2, <4>3 DEF FreshInv, FreshVerdict, FreshRuns
    <3>2. CASE UNCHANGED <<dbVars, basis>>
      BY <2>1, <3>2 DEF FreshInv, FreshVerdict
    <3>3. QED
      BY <1>7, <3>1, <3>2 DEF Store
  <2>5. QED
    BY <2>1, <2>3, <2>4 DEF FreshInv
<1>8. ASSUME NEW w \in Worker, RecordCrash(w) PROVE FreshInv'
  <2>1. /\ pc[w] = "crashed" /\ job[w] \in Sub
        /\ UNCHANGED <<struck, want, data, run>> /\ Goto(w, "idle")
        /\ job' = [job EXCEPT ![w] = NoSub]
    BY <1>8 DEF RecordCrash, TypeOK, WorkerTypeOK
  <2>2. FreshRuns'
    BY <2>1 DEF FreshInv, FreshRuns, TypeOK, WorkerTypeOK
  <2>3. \A s \in Sub : s # job[w] => verdict'[s] = verdict[s] /\ basis'[s] = basis[s]
    BY <1>8, <2>1 DEF RecordCrash, WriteOutcome, Updated, TypeOK, DbTypeOK, HistoryTypeOK
  <2>4. verdict'[job[w]] \notin {AC, WA}
    BY <1>8, <2>1 DEF RecordCrash, WriteOutcome, Outcome, Updated, Exists, TypeOK, DbTypeOK
  <2>5. FreshVerdict'
    BY <2>1, <2>3, <2>4 DEF FreshInv, FreshVerdict
  <2>6. QED
    BY <2>1, <2>2, <2>5 DEF FreshInv
<1>9. ASSUME NEW w \in Worker, Reset(w) \/ Vanished(w) \/ Release(w) \/ Fault(w)
      PROVE  FreshInv'
  <2>1. UNCHANGED <<verdict, struck, want, basis, data>>
    BY <1>9 DEF Reset, Vanished, Release, Fault
  <2>2. \E place \in WorkerPc \ {"ready", "loop", "running", "storing"} : Goto(w, place)
    BY <1>9 DEF Reset, Vanished, Release, Fault
  <2>3. \A v \in Worker \ {w} : job'[v] = job[v] /\ run'[v] = run[v]
    BY <1>9 DEF Reset, Vanished, Release, Fault, TypeOK, WorkerTypeOK
  <2>4. QED
    BY <2>1, <2>2, <2>3, NothingGraded DEF TypeOK, WorkerTypeOK
<1>10. ASSUME NEW h \in Handler, AbortSettle(h) PROVE FreshInv'
  <2>1. UNCHANGED <<struck, want, basis, data, job, pc, run>>
    BY <1>10 DEF AbortSettle
  <2>2. \A s \in Sub : verdict'[s] \in {AC, WA} => verdict[s] \in {AC, WA}
    BY <1>10 DEF AbortSettle, TypeOK, DbTypeOK
  <2>3. QED
    BY <2>1, <2>2, NothingGraded
<1>11. CASE DeleteProblem \/ Crash \/ Restart \/ FixTests
  <2>1. UNCHANGED <<struck, want, basis>> /\ (data' = data \/ data' = data + 1)
    BY <1>11 DEF DeleteProblem, Crash, Restart, FixTests
  <2>2. \A s \in Sub : verdict'[s] \in {AC, WA} => verdict[s] \in {AC, WA}
    BY <1>11 DEF DeleteProblem, Crash, Restart, FixTests
  <2>3. \A w \in Worker : \/ UNCHANGED <<job, run, pc>>
                          \/ pc'[w] = "idle"
    BY <1>11 DEF DeleteProblem, Crash, Restart, FixTests
  <2>4. QED
    BY <2>1, <2>2, <2>3, NothingGraded
<1>12. CASE \/ \E h \in Handler :
                 AbortRead(h) \/ AbortRequest(h) \/ AbortRelease(h) \/ AbortFault(h)
            \/ UNCHANGED vars
  <2>1. UNCHANGED <<verdict, struck, want, basis, data, job, pc, run>>
    BY <1>12 DEF AbortRead, AbortRequest, AbortRelease, AbortFault
  <2>2. QED
    BY <2>1, NothingGraded
<1>13. QED
  BY <1>1, <1>2, <1>3, <1>4, <1>6, <1>7, <1>8, <1>9, <1>10, <1>11, <1>12
     DEF Next, WorkerStep, HandlerStep, RejudgeOne, RejudgeProblem

\* "Send submissions back through the judge, e.g. after fixing test data": what
\* is graded was graded against test data no older than its last enqueueing,
\* unless the rejudge struck while it was being judged (load_tests, rejudge).
THEOREM Fresh == Spec => []FreshVerdict
<1>1. Init => TypeOK /\ ClaimInv /\ FreshInv
  BY InitTypeOK, InitClaim, InitFresh
<1>2. TypeOK /\ ClaimInv /\ FreshInv /\ [Next]_vars => (TypeOK /\ ClaimInv /\ FreshInv)'
  BY StepTypeOK, StepClaim, StepFresh
<1>3. FreshInv => FreshVerdict
  BY DEF FreshInv
<1>4. QED
  BY <1>1, <1>2, <1>3, PTL DEF Spec
-----------------------------------------------------------------------------
(***************************************************************************)
(* The queue implements JudgeService as long as nobody rejudges what a     *)
(* worker is judging: every step is a step of the service, or a stutter.   *)
(***************************************************************************)

\* What holds in every careful behaviour.
CarefulInv == TypeOK /\ ClaimInv /\ struck = {}

-----------------------------------------------------------------------------
(***************************************************************************)
(* The mapping, submission by submission and worker by worker.             *)
(***************************************************************************)

LEMMA PhaseUnchanged ==
    ASSUME NEW s \in Sub, verdict'[s] = verdict[s], created' = created,
           Holders(s)' = {} <=> Holders(s) = {}
    PROVE  PhaseOf(s)' = PhaseOf(s)
BY DEF PhaseOf

LEMMA RunningUnchanged ==
    ASSUME TypeOK, NEW w \in Worker, verdict' = verdict,
           job'[w] = job[w], pc'[w] \in Judging <=> pc[w] \in Judging
    PROVE  RunningOf(w)' = RunningOf(w)
BY DEF RunningOf, Exists

\* A step that moves threads without anybody starting or ceasing to judge.
LEMMA Stutters ==
    ASSUME TypeOK, UNCHANGED <<verdict, created>>,
           \A w \in Worker : /\ pc'[w] \in Judging <=> pc[w] \in Judging
                             /\ pc[w] \in Judging => job'[w] = job[w]
    PROVE  UNCHANGED Service!svars
<1>1. \A s \in Sub : Holders(s)' = Holders(s)
  BY DEF Holders
<1>2. \A s \in Sub : PhaseOf(s)' = PhaseOf(s)
  BY <1>1, PhaseUnchanged
<1>3. \A w \in Worker : RunningOf(w)' = RunningOf(w)
  BY DEF RunningOf, Exists
<1>4. QED
  BY <1>2, <1>3 DEF Service!svars, ServicePhase, ServiceRunning

\* A worker lets its submission go: the service's Leave if the row is there.
LEMMA LeavesService ==
    ASSUME CarefulInv, NEW w \in Worker, pc[w] \in Judging, created' = created,
           NEW place \in {"idle", "releasing"}, pc' = [pc EXCEPT ![w] = place],
           job' = [job EXCEPT ![w] = NoSub] \/ job' = job,
           \A s \in Sub : s # job[w] => verdict'[s] = verdict[s],
           ~Exists(job[w]) => verdict'[job[w]] = NoRow,
           Exists(job[w]) => verdict'[job[w]] \in Final \cup {JUDGING}
    PROVE  [Service!Next]_(Service!svars)
<1> PICK s \in Sub : s = job[w]
  BY DEF CarefulInv, TypeOK, WorkerTypeOK
<1>1. w \in Holders(s)
  BY DEF Holders
<1>2. Holders(s)' = {}
  <2>1. \A v \in Holders(s) : v = w
    BY <1>1 DEF CarefulInv, ClaimInv, ExclusiveJudging
  <2>2. Holders(s)' \subseteq Holders(s) \ {w}
    BY DEF Holders, CarefulInv, TypeOK, WorkerTypeOK
  <2>3. QED
    BY <2>1, <2>2
<1>3. \A q \in Sub : q # s => Holders(q)' = Holders(q)
  BY DEF Holders, CarefulInv, TypeOK, WorkerTypeOK
<1>4. \A q \in Sub : q # s => PhaseOf(q)' = PhaseOf(q)
  BY <1>3, PhaseUnchanged
<1>5. \A v \in Worker : v # w => pc'[v] = pc[v] /\ job'[v] = job[v]
  BY DEF CarefulInv, TypeOK, WorkerTypeOK
<1>6. \A v \in Worker : v # w => RunningOf(v)' = RunningOf(v)
  <2> SUFFICES ASSUME NEW v \in Worker, v # w, pc[v] \in Judging
               PROVE  Exists(job[v])' <=> Exists(job[v])
    BY <1>5 DEF RunningOf, Exists
  <2>1. job[v] \in Sub
    BY DEF CarefulInv, TypeOK, WorkerTypeOK
  <2>2. job[v] # s
    BY <1>1, <2>1 DEF Holders, CarefulInv, ClaimInv, ExclusiveJudging
  <2>3. QED
    BY <1>5, <2>1, <2>2 DEF Exists
<1>7. RunningOf(w)' = NoSub
  BY DEF RunningOf, CarefulInv, TypeOK, WorkerTypeOK
<1>8. CASE Exists(s)
  <2>1. RunningOf(w) = s /\ s # NoSub
    BY <1>1, <1>8 DEF RunningOf
  <2>2. PICK end \in {"done", "abandoned"} : PhaseOf(s)' = end
    BY <1>2, <1>8 DEF PhaseOf
  <2>3. ServicePhase' = [ServicePhase EXCEPT ![s] = end]
    BY <1>4, <2>2 DEF ServicePhase
  <2>4. ServiceRunning' = [ServiceRunning EXCEPT ![w] = NoSub]
    BY <1>6, <1>7 DEF ServiceRunning
  <2>5. ServiceRunning[w] = s
    BY <2>1 DEF ServiceRunning
  <2>6. Service!Leave(w, end)
    BY <2>1, <2>3, <2>4, <2>5 DEF Service!Leave, Service!Free
  <2>7. QED
    BY <2>6 DEF Service!Next
<1>9. CASE ~Exists(s)
  <2>1. PhaseOf(s)' = PhaseOf(s)
    BY <1>9 DEF PhaseOf, Exists
  <2>2. RunningOf(w) = NoSub
    BY <1>9 DEF RunningOf
  <2>3. \A q \in Sub : PhaseOf(q)' = PhaseOf(q)
    BY <1>4, <2>1
  <2>4. \A v \in Worker : RunningOf(v)' = RunningOf(v)
    BY <1>6, <1>7, <2>2
  <2>5. UNCHANGED Service!svars
    BY <2>3, <2>4 DEF Service!svars, ServicePhase, ServiceRunning
  <2>6. QED
    BY <2>5
<1>10. QED
  BY <1>8, <1>9

-----------------------------------------------------------------------------
LEMMA InitService == Init => Service!Init
<1> SUFFICES ASSUME Init PROVE Service!Init
  OBVIOUS
<1>1. \A s \in Sub : PhaseOf(s) = "absent"
  BY DEF Init, PhaseOf
<1>2. \A w \in Worker : RunningOf(w) = NoSub
  BY DEF Init, RunningOf
<1>3. QED
  BY <1>1, <1>2 DEF Service!Init, Service!Sub, Service!Free, ServicePhase, ServiceRunning

LEMMA SubmitService == CarefulInv /\ Submit => Service!Next
<1> SUFFICES ASSUME CarefulInv, Submit PROVE Service!Next
  OBVIOUS
<1> PICK n \in Sub : n = created + 1
  BY DEF Submit, CarefulInv, TypeOK, BoundTypeOK
<1>1. created \in Nat /\ created' = n
  BY DEF Submit, CarefulInv, TypeOK, BoundTypeOK
<1>2. verdict[n] = NoRow /\ verdict'[n] = PENDING /\ UNCHANGED <<pc, job>>
  BY <1>1 DEF Submit, CarefulInv, ClaimInv, Exists, TypeOK, DbTypeOK
<1>3. \A s \in Sub : s # n => verdict'[s] = verdict[s]
  BY DEF Submit, CarefulInv, TypeOK, DbTypeOK
<1>4. PhaseOf(n) = "absent" /\ PhaseOf(n)' = "queued"
  BY <1>1, <1>2 DEF PhaseOf
<1>5. \A s \in Sub : s # n => PhaseOf(s)' = PhaseOf(s)
  <2> SUFFICES ASSUME NEW s \in Sub, s # n PROVE PhaseOf(s)' = PhaseOf(s)
    OBVIOUS
  <2>1. Holders(s)' = Holders(s)
    BY <1>2 DEF Holders
  <2>2. s <= created' <=> s <= created
    BY <1>1
  <2>3. QED
    BY <1>3, <2>1, <2>2 DEF PhaseOf
<1>6. \A w \in Worker : RunningOf(w)' = RunningOf(w)
  <2> SUFFICES ASSUME NEW w \in Worker, pc[w] \in Judging
               PROVE  Exists(job[w])' <=> Exists(job[w])
    BY <1>2 DEF RunningOf
  <2>1. job[w] \in Sub /\ job[w] # n
    BY <1>1 DEF CarefulInv, ClaimInv, TypeOK, WorkerTypeOK
  <2>2. QED
    BY <1>2, <1>3, <2>1 DEF Exists
<1>7. Service!Submit(n)
  BY <1>1, <1>4, <1>5, <1>6 DEF Service!Submit, ServicePhase, ServiceRunning
<1>8. QED
  BY <1>1, <1>7 DEF Service!Next, Service!Sub

LEMMA RejudgeService ==
    ASSUME CarefulInv, NEW S \in SUBSET Sub, Rejudge(S), UNCHANGED struck
    PROVE  Service!Next
<1>1. \A s \in S : Exists(s) /\ Holders(s) = {}
  BY DEF Rejudge, CarefulInv
<1>2. UNCHANGED <<pc, job, created>>
  BY DEF Rejudge
<1>3. \A s \in Sub : Holders(s)' = Holders(s)
  BY <1>2 DEF Holders
<1>4. \A s \in Sub : verdict'[s] = IF s \in S THEN PENDING ELSE verdict[s]
  BY DEF Rejudge
<1>5. \A s \in S : PhaseOf(s) \notin {"absent", "running", "gone"}
  BY <1>1 DEF PhaseOf, Exists
<1>6. \A s \in Sub : PhaseOf(s)' = IF s \in S THEN "queued" ELSE PhaseOf(s)
  BY <1>2, <1>3, <1>4 DEF PhaseOf
<1>7. \A w \in Worker : RunningOf(w)' = RunningOf(w)
  <2> SUFFICES ASSUME NEW w \in Worker, pc[w] \in Judging
               PROVE  Exists(job[w])' <=> Exists(job[w])
    BY <1>2 DEF RunningOf
  <2>1. job[w] \in Sub
    BY DEF CarefulInv, TypeOK, WorkerTypeOK
  <2>2. QED
    BY <1>1, <1>2, <1>4, <2>1 DEF Exists
<1>8. Service!Rejudge(S)
  BY <1>5, <1>6, <1>7 DEF Service!Rejudge, Service!Sub, ServicePhase, ServiceRunning
<1>9. QED
  BY <1>8 DEF Service!Next, Service!Sub

LEMMA ClaimService ==
    ASSUME CarefulInv, NEW w \in Worker, Claim(w)
    PROVE  Service!Next
<1>1. PICK s \in Sub : /\ OldestPending(s)
                       /\ verdict' = [verdict EXCEPT ![s] = JUDGING]
                       /\ job' = [job EXCEPT ![w] = s]
  BY DEF Claim, MarkJudging
<1>2. pc[w] = "idle" /\ pc' = [pc EXCEPT ![w] = "claimed"] /\ created' = created
  BY DEF Claim, Goto
<1>3. verdict[s] = PENDING /\ \A q \in Sub : verdict[q] = PENDING => s <= q
  BY <1>1 DEF OldestPending
<1>4. \A q \in Sub : q # s => PhaseOf(q)' = PhaseOf(q)
  <2>1. \A q \in Sub : q # s => Holders(q)' = Holders(q) /\ verdict'[q] = verdict[q]
    BY <1>1, <1>2 DEF Holders, CarefulInv, TypeOK, DbTypeOK, WorkerTypeOK
  <2>2. QED
    BY <1>2, <2>1, PhaseUnchanged
<1>5. PhaseOf(s) = "queued" /\ PhaseOf(s)' = "running"
  <2>1. w \in Holders(s)' /\ verdict'[s] = JUDGING
    BY <1>1, <1>2 DEF Holders, CarefulInv, TypeOK, DbTypeOK, WorkerTypeOK
  <2>2. QED
    BY <1>3, <2>1 DEF PhaseOf
<1>6. RunningOf(w) = NoSub /\ RunningOf(w)' = s
  BY <1>1, <1>2 DEF RunningOf, Exists, CarefulInv, TypeOK, DbTypeOK, WorkerTypeOK
<1>7. \A v \in Worker : v # w => RunningOf(v)' = RunningOf(v)
  <2> SUFFICES ASSUME NEW v \in Worker, v # w, pc[v] \in Judging
               PROVE  RunningOf(v)' = RunningOf(v)
    BY <1>1, <1>2 DEF RunningOf, CarefulInv, TypeOK, WorkerTypeOK
  <2>1. job[v] \in Sub /\ job'[v] = job[v] /\ pc'[v] = pc[v]
    BY <1>1, <1>2 DEF CarefulInv, TypeOK, WorkerTypeOK
  <2>2. Exists(job[v])' <=> Exists(job[v])
    BY <1>1, <1>3, <2>1 DEF Exists, CarefulInv, TypeOK, DbTypeOK
  <2>3. QED
    BY <2>1, <2>2 DEF RunningOf
<1>8. \A q \in Sub : PhaseOf(q) = "queued" => s <= q
  BY <1>3 DEF PhaseOf
<1>9. Service!Take(w, s)
  BY <1>4, <1>5, <1>6, <1>7, <1>8
     DEF Service!Take, Service!Sub, Service!Free, ServicePhase, ServiceRunning
<1>10. QED
  BY <1>9 DEF Service!Next, Service!Sub

LEMMA SettleService ==
    ASSUME CarefulInv, NEW h \in Handler, AbortSettle(h)
    PROVE  [Service!Next]_(Service!svars)
<1>1. CASE UNCHANGED verdict
  <2>1. UNCHANGED <<verdict, created, pc, job>>
    BY <1>1 DEF AbortSettle
  <2>2. QED
    BY <2>1, Stutters DEF CarefulInv
<1>2. CASE StillQueued(target[h]) /\ verdict' = [verdict EXCEPT ![target[h]] = AB]
  <2> PICK s \in Sub : s = target[h]
    BY DEF AbortSettle, CarefulInv, TypeOK, CancelTypeOK
  <2>2. UNCHANGED <<pc, job, created>>
    BY DEF AbortSettle
  <2>3. \A q \in Sub : Holders(q)' = Holders(q)
    BY <2>2 DEF Holders
  <2>4. verdict[s] = PENDING /\ verdict'[s] = AB /\ \A q \in Sub : q # s => verdict'[q] = verdict[q]
    BY <1>2 DEF StillQueued, CarefulInv, TypeOK, DbTypeOK
  <2>5. PhaseOf(s) = "queued" /\ PhaseOf(s)' = "done"
    BY <2>4 DEF PhaseOf
  <2>6. \A q \in Sub : q # s => PhaseOf(q)' = PhaseOf(q)
    BY <2>2, <2>3, <2>4, PhaseUnchanged
  <2>7. \A w \in Worker : RunningOf(w)' = RunningOf(w)
    <3> SUFFICES ASSUME NEW w \in Worker, pc[w] \in Judging
                 PROVE  Exists(job[w])' <=> Exists(job[w])
      BY <2>2 DEF RunningOf
    <3>1. job[w] \in Sub
      BY DEF CarefulInv, TypeOK, WorkerTypeOK
    <3>2. QED
      BY <2>2, <2>4, <3>1 DEF Exists
  <2>8. Service!Cancel(s)
    BY <2>5, <2>6, <2>7 DEF Service!Cancel, ServicePhase, ServiceRunning
  <2>9. QED
    BY <2>8 DEF Service!Next, Service!Sub
<1>3. QED
  BY <1>1, <1>2 DEF AbortSettle

LEMMA DeleteService == CarefulInv /\ DeleteProblem => Service!Next
<1> SUFFICES ASSUME CarefulInv, DeleteProblem PROVE Service!Next
  OBVIOUS
<1>1. created' = created /\ UNCHANGED <<pc, job>> /\ \A s \in Sub : verdict'[s] = NoRow
  BY DEF DeleteProblem
<1>2. \A s \in Sub : PhaseOf(s) = "absent" <=> ~(s <= created)
  BY DEF PhaseOf, CarefulInv, ClaimInv, Exists
<1>3. \A s \in Sub : PhaseOf(s)' = IF PhaseOf(s) = "absent" THEN "absent" ELSE "gone"
  BY <1>1, <1>2 DEF PhaseOf
<1>4. \A w \in Worker : RunningOf(w)' = NoSub
  BY <1>1 DEF RunningOf, Exists, CarefulInv, TypeOK, WorkerTypeOK
<1>5. Service!Delete
  BY <1>3, <1>4 DEF Service!Delete, Service!Sub, Service!Free, ServicePhase, ServiceRunning
<1>6. QED
  BY <1>5 DEF Service!Next

LEMMA CrashService == CarefulInv /\ Crash => Service!Next
<1> SUFFICES ASSUME CarefulInv, Crash PROVE Service!Next
  OBVIOUS
<1>1. UNCHANGED <<verdict, created>> /\ \A w \in Worker : pc'[w] = "idle"
  BY DEF Crash
<1>2. \A s \in Sub : Holders(s)' = {}
  BY <1>1 DEF Holders
<1>3. \A s \in Sub : PhaseOf(s)' = IF PhaseOf(s) = "running" THEN "abandoned" ELSE PhaseOf(s)
  BY <1>1, <1>2 DEF PhaseOf
<1>4. \A w \in Worker : RunningOf(w)' = NoSub
  BY <1>1 DEF RunningOf
<1>5. Service!Stop
  BY <1>3, <1>4 DEF Service!Stop, Service!Sub, Service!Free, ServicePhase, ServiceRunning
<1>6. QED
  BY <1>5 DEF Service!Next

LEMMA RestartService == CarefulInv /\ Restart => Service!Next
<1> SUFFICES ASSUME CarefulInv, Restart PROVE Service!Next
  OBVIOUS
<1>1. UNCHANGED <<pc, job, created>> /\ \A w \in Worker : pc[w] = "idle"
  BY DEF Restart, CarefulInv, ClaimInv
<1>2. \A s \in Sub : Holders(s) = {} /\ Holders(s)' = {}
  BY <1>1 DEF Holders
<1>3. \A s \in Sub : verdict'[s] = IF verdict[s] = JUDGING THEN PENDING ELSE verdict[s]
  BY DEF Restart, Stuck
<1>4. \A s \in Sub : PhaseOf(s)' = IF PhaseOf(s) = "abandoned" THEN "queued" ELSE PhaseOf(s)
  BY <1>1, <1>2, <1>3 DEF PhaseOf
<1>5. \A w \in Worker : RunningOf(w)' = RunningOf(w)
  BY <1>1 DEF RunningOf
<1>6. Service!Recover
  BY <1>4, <1>5 DEF Service!Recover, Service!Sub, ServicePhase, ServiceRunning
<1>7. QED
  BY <1>6 DEF Service!Next

\* The three steps by which a worker lets its submission go.
LEMMA LeaveService ==
    ASSUME CarefulInv, NEW w \in Worker, Store(w) \/ RecordCrash(w) \/ Vanished(w)
    PROVE  [Service!Next]_(Service!svars)
<1>1. job[w] \in Sub /\ run[w].verdict \in Final /\ created' = created
  BY DEF Store, RecordCrash, Vanished, CarefulInv, TypeOK, WorkerTypeOK, Outcomes
<1>2. ASSUME NEW v \in Final, verdict' = Updated(verdict, job[w], v)
      PROVE  /\ \A s \in Sub : s # job[w] => verdict'[s] = verdict[s]
             /\ ~Exists(job[w]) => verdict'[job[w]] = NoRow
             /\ Exists(job[w]) => verdict'[job[w]] \in Final
  BY <1>1, <1>2 DEF Updated, Exists, CarefulInv, TypeOK, DbTypeOK
<1>3. CASE Store(w)
  <2>1. pc[w] = "storing" /\ UNCHANGED job
    BY <1>3 DEF Store
  <2>2. CASE WriteOutcome(job[w], run[w]) /\ Goto(w, "releasing")
    <3>1. verdict' = Updated(verdict, job[w], run[w].verdict)
      BY <2>2 DEF WriteOutcome
    <3>2. QED
      BY <1>1, <1>2, <2>1, <2>2, <3>1, LeavesService DEF Goto
  <2>3. CASE UNCHANGED verdict /\ Goto(w, "unwinding")
    BY <1>1, <2>1, <2>3, Stutters DEF Goto, CarefulInv, TypeOK, WorkerTypeOK
  <2>4. QED
    BY <1>3, <2>2, <2>3 DEF Store
<1>4. CASE RecordCrash(w)
  <2>1. /\ pc[w] = "crashed" /\ pc' = [pc EXCEPT ![w] = "idle"]
        /\ job' = [job EXCEPT ![w] = NoSub]
    BY <1>4 DEF RecordCrash, Goto
  <2>2. verdict' = Updated(verdict, job[w], IE)
    BY <1>4 DEF RecordCrash, WriteOutcome, Outcome
  <2>3. QED
    BY <1>1, <1>2, <2>1, <2>2, LeavesService
<1>5. CASE Vanished(w)
  <2>1. /\ pc[w] = "claimed" /\ pc' = [pc EXCEPT ![w] = "idle"]
        /\ job' = [job EXCEPT ![w] = NoSub] /\ verdict' = verdict /\ ~Exists(job[w])
    BY <1>5 DEF Vanished, Goto
  <2>2. QED
    BY <1>1, <2>1, LeavesService DEF Exists
<1>6. QED
  BY <1>3, <1>4, <1>5

LEMMA FaultService ==
    ASSUME CarefulInv, NEW w \in Worker, Fault(w)
    PROVE  [Service!Next]_(Service!svars)
<1>1. UNCHANGED <<verdict, created>>
  BY DEF Fault
<1>2. CASE pc[w] = "crashed" /\ Goto(w, "idle") /\ job' = [job EXCEPT ![w] = NoSub]
  <2>1. job[w] \in Sub /\ w \in Holders(job[w])
    BY <1>2 DEF Holders, CarefulInv, TypeOK, WorkerTypeOK
  <2>2. Exists(job[w]) => verdict[job[w]] = JUDGING
    BY <2>1 DEF CarefulInv, ClaimInv
  <2>3. QED
    BY <1>1, <1>2, <2>2, LeavesService DEF Goto, Exists
<1>3. CASE /\ pc[w] \in {"claimed", "cleared", "storing"} /\ job' = job
           /\ Goto(w, "crashed") \/ Goto(w, "unwinding")
  BY <1>1, <1>3, Stutters DEF Goto, CarefulInv, TypeOK, WorkerTypeOK
<1>4. QED
  BY <1>2, <1>3 DEF Fault

LEMMA StepService ==
    CarefulInv /\ [CarefulNext]_vars => [Service!Next]_(Service!svars)
<1> SUFFICES ASSUME CarefulInv, [CarefulNext]_vars PROVE [Service!Next]_(Service!svars)
  OBVIOUS
<1>1. CASE UNCHANGED vars
  BY <1>1, Stutters DEF CarefulInv
<1>2. CASE Submit \/ DeleteProblem \/ Crash \/ Restart
  BY <1>2, SubmitService, DeleteService, CrashService, RestartService
<1>3. ASSUME NEW S \in SUBSET Sub, Rejudge(S), UNCHANGED struck PROVE Service!Next
  BY <1>3, RejudgeService
<1>4. ASSUME NEW w \in Worker, Claim(w) PROVE Service!Next
  BY <1>4, ClaimService
<1>5. ASSUME NEW w \in Worker, Store(w) \/ RecordCrash(w) \/ Vanished(w) \/ Fault(w)
      PROVE  [Service!Next]_(Service!svars)
  BY <1>5, LeaveService, FaultService
<1>6. ASSUME NEW w \in Worker,
             \/ Reset(w) \/ Load(w) \/ Compiled(w) \/ BeginTest(w) \/ Cancelled(w)
             \/ Breaks(w) \/ Release(w)
             \/ \E v \in {CE, IE} : Refuse(w, v)
             \/ \E ok, published \in BOOLEAN : EndTest(w, ok, published)
      PROVE  UNCHANGED Service!svars
  <2>1. UNCHANGED <<verdict, created>>
    BY <1>6 DEF Reset, Load, Compiled, BeginTest, Cancelled, Breaks, Release, Refuse, EndTest
  <2>2. \E place \in WorkerPc :
           /\ pc' = [pc EXCEPT ![w] = place]
           /\ \/ pc[w] \in Judging /\ place \in Judging /\ job' = job
              \/ /\ pc[w] = "releasing" /\ place = "idle"
                 /\ job' = [job EXCEPT ![w] = NoSub]
    BY <1>6 DEF Reset, Load, Compiled, BeginTest, Cancelled, Breaks, Release, Refuse,
                EndTest, Goto
  <2>3. QED
    BY <2>1, <2>2, Stutters DEF CarefulInv, TypeOK, WorkerTypeOK
<1>7. ASSUME NEW h \in Handler, AbortSettle(h) PROVE [Service!Next]_(Service!svars)
  BY <1>7, SettleService
<1>8. CASE \/ FixTests
           \/ \E h \in Handler :
                AbortRead(h) \/ AbortRequest(h) \/ AbortRelease(h) \/ AbortFault(h)
  <2>1. UNCHANGED <<verdict, created, pc, job>>
    BY <1>8 DEF FixTests, AbortRead, AbortRequest, AbortRelease, AbortFault
  <2>2. QED
    BY <2>1, Stutters DEF CarefulInv
<1>9. QED
  BY <1>1, <1>2, <1>3, <1>4, <1>5, <1>6, <1>7, <1>8
     DEF CarefulNext, Next, WorkerStep, HandlerStep, RejudgeOne, RejudgeProblem

\* worker.py keeps what JudgeService promises: first come first judged, one worker
\* at a time, back to the queue only on request or after a restart, as long as
\* nobody rejudges a submission that is being judged.
THEOREM Implements == CarefulSpec => ImplementsService
<1>1. Init => CarefulInv
  BY InitTypeOK, InitClaim DEF CarefulInv, Init
<1>2. CarefulInv /\ [CarefulNext]_vars => CarefulInv'
  <2> SUFFICES ASSUME CarefulInv, [CarefulNext]_vars PROVE CarefulInv'
    OBVIOUS
  <2>1. [Next]_vars /\ UNCHANGED struck
    BY DEF CarefulNext
  <2>2. QED
    BY <2>1, StepTypeOK, StepClaim DEF CarefulInv
<1>3. QED
  BY <1>1, <1>2, InitService, StepService, PTL DEF CarefulSpec, ImplementsService, Service!Spec
=============================================================================
