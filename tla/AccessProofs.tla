--------------------------- MODULE AccessProofs ---------------------------
(***************************************************************************)
(* Proofs about Access: its types, and the six properties that Access.cfg  *)
(* checks on an instance, for every number of users, problems, contests,   *)
(* submissions and edits, whatever the contests' terms are and whatever    *)
(* the judge finds.  Boards, ranks and scores are counted (module          *)
(* Counting), so that facts about finite sets take the place of an         *)
(* induction.                                                              *)
(***************************************************************************)
EXTENDS Access, CountingProofs, TLAPS, FiniteSetTheorems, FunctionTheorems, SequenceTheorems

----------------------------------------------------------------------------
(* Types. *)

LEMMA InitTyped == Init => TypeOK
<1> SUFFICES ASSUME Init PROVE TypeOK
  OBVIOUS
<1>1. 0 \in 0..MaxTime /\ 0 \in 0..MaxEdits /\ 0 <= MaxSubs
  BY BoundsAssumption
<1>2. <<>> \in Seq(Submissions) /\ Len(<<>>) = 0
  OBVIOUS
<1>3. QED
  BY <1>1, <1>2, FirstAssumption DEF Init, TypeOK

LEMMA TickTyped == ASSUME TypeOK, Tick PROVE TypeOK'
<1>1. now' \in 0..MaxTime
  BY BoundsAssumption DEF TypeOK, Tick
<1>2. QED
  BY <1>1 DEF TypeOK, Tick

LEMMA ConfirmTyped == ASSUME TypeOK, NEW u \in User, Confirm(u) PROVE TypeOK'
<1>1. confirmed' \subseteq User /\ confirmed \subseteq confirmed'
  BY DEF TypeOK, Confirm
<1>2. entered' \subseteq {c \in Contest : Terms[c].rated} \X confirmed'
  BY <1>1 DEF TypeOK, Confirm
<1>3. QED
  BY <1>1, <1>2 DEF TypeOK, Confirm

LEMMA SubmitTyped ==
    ASSUME TypeOK, NEW u \in User, NEW viewAs \in BOOLEAN, NEW p \in Problem,
           NEW c \in Contest \cup {NoContest}, Submit(u, viewAs, p, c)
    PROVE  TypeOK'
<1> DEFINE new == [user |-> u, problem |-> p, contest |-> c,
                   at |-> IF c = NoContest THEN 0 ELSE now, verdict |-> "PE", earned |-> 0, share |-> 0]
<1>1. CurrentUser(u, viewAs).id = u
  BY DEF Submit, CurrentUser
<1>2. subs' = Append(subs, new)
  BY <1>1 DEF Submit, SubmitAs
<1>3. new \in Submissions
  <2>1. now \in 0..MaxTime /\ 0 \in 0..MaxTime /\ 0 \in 0..100
    BY BoundsAssumption DEF TypeOK
  <2> QED  BY <2>1 DEF Submissions, InFlight
<1> HIDE DEF new
<1>4. subs \in Seq(Submissions) /\ Len(subs) \in Nat /\ Len(subs) < MaxSubs
  BY DEF TypeOK, Submit
<1>5. subs' \in Seq(Submissions) /\ Len(subs') = Len(subs) + 1
  BY <1>2, <1>3, <1>4
<1>6. Len(subs') <= MaxSubs
  BY <1>4, <1>5, BoundsAssumption
<1>7. QED
  BY <1>5, <1>6 DEF TypeOK, Submit

\* One submission gets another verdict.
LEMMA VerdictTyped ==
    ASSUME TypeOK, NEW i \in Sub, NEW t \in Submissions, NEW s, s = [subs EXCEPT ![i] = t]
    PROVE  s \in Seq(Submissions) /\ Len(s) = Len(subs)
<1>1. subs \in Seq(Submissions) /\ Len(subs) \in Nat /\ DOMAIN subs = 1..Len(subs)
  BY DEF TypeOK
<1>2. \A j \in DOMAIN subs : subs[j] \in Submissions
  BY <1>1
<1>3. DOMAIN s = DOMAIN subs
  OBVIOUS
<1>4. \A j \in DOMAIN subs : s[j] \in Submissions
  BY <1>2
<1>5. s \in [1..Len(subs) -> Submissions]
  <2>1. s = [j \in DOMAIN subs |-> s[j]]
    OBVIOUS
  <2> QED  BY <2>1, <1>1, <1>4
<1>6. QED
  BY <1>1, <1>5

LEMMA EachSubTyped == ASSUME TypeOK, NEW i \in Sub PROVE subs[i] \in Submissions
<1>1. subs \in Seq(Submissions)
  BY DEF TypeOK
<1>2. QED
  BY <1>1 DEF Sub

LEMMA JudgeTyped ==
    ASSUME TypeOK, NEW i \in Sub, NEW r \in Results, Judge(i, r) PROVE TypeOK'
<1> DEFINE t == [subs[i] EXCEPT !.verdict = r.verdict, !.earned = r.earned, !.share = r.share]
<1>1. r.earned \in 0..100 /\ r.share \in 0..100
  BY ResultsAssumption
<1>2. t \in Submissions
  <2>1. subs[i] \in Submissions
    BY EachSubTyped
  <2>2. r.verdict \in {x.verdict : x \in Results} \cup InFlight
    OBVIOUS
  <2> DEFINE t1 == [subs[i] EXCEPT !.verdict = r.verdict]
             t2 == [t1 EXCEPT !.earned = r.earned]
  <2>3. t1 \in Submissions
    BY <2>1, <2>2 DEF Submissions
  <2>4. t2 \in Submissions
    <3> HIDE DEF t1
    <3> QED  BY <1>1, <2>3 DEF Submissions
  <2>5. [t2 EXCEPT !.share = r.share] \in Submissions
    <3> HIDE DEF t2
    <3> QED  BY <1>1, <2>4 DEF Submissions
  <2>6. t = [t2 EXCEPT !.share = r.share]
    OBVIOUS
  <2> QED  BY <2>5, <2>6
<1>3. subs' = [subs EXCEPT ![i] = t]
  <2>1. subs' = [subs EXCEPT ![i].verdict = r.verdict, ![i].earned = r.earned,
                            ![i].share = r.share]
    BY DEF Judge
  <2> QED  BY <2>1
<1>4. subs' \in Seq(Submissions) /\ Len(subs') = Len(subs)
  <2> HIDE DEF t
  <2> QED  BY <1>2, <1>3, VerdictTyped
<1>5. QED
  BY <1>4 DEF TypeOK, Judge

LEMMA RejudgeTyped == ASSUME TypeOK, NEW i \in Sub, Rejudge(i) PROVE TypeOK'
<1> DEFINE t == [subs[i] EXCEPT !.verdict = "PE"]
<1>1. subs' \in Seq(Submissions) /\ Len(subs') = Len(subs)
  <2>1. t \in Submissions
    BY EachSubTyped DEF Submissions, InFlight
  <2>2. subs' = [subs EXCEPT ![i] = t]
    BY DEF Rejudge
  <2> HIDE DEF t
  <2> QED  BY <2>1, <2>2, VerdictTyped
<1>2. edits' \in 0..MaxEdits
  BY BoundsAssumption DEF TypeOK, Rejudge
<1>3. QED
  BY <1>1, <1>2 DEF TypeOK, Rejudge

LEMMA EnterTyped ==
    ASSUME TypeOK, NEW u \in User, NEW c \in Contest, Enter(u, c) PROVE TypeOK'
<1>1. CurrentUser(u, FALSE).id = u
  BY DEF Enter, CurrentUser
<1>2. entered' = entered \cup {<<c, u>>} /\ Terms[c].rated /\ u \in confirmed
  BY <1>1 DEF Enter, Enters
<1>3. entered' \subseteq {d \in Contest : Terms[d].rated} \X confirmed
  BY <1>2 DEF TypeOK
<1>4. QED
  BY <1>3 DEF TypeOK, Enter

LEMMA PublishTyped ==
    ASSUME TypeOK, NEW p \in Problem, NEW flag \in BOOLEAN, Publish(p, flag) PROVE TypeOK'
<1>1. visible' \in [Problem -> BOOLEAN]
  BY DEF TypeOK, Publish
<1>2. edits' \in 0..MaxEdits
  BY BoundsAssumption DEF TypeOK, Publish
<1>3. QED
  BY <1>1, <1>2 DEF TypeOK, Publish

LEMMA SetProblemsTyped ==
    ASSUME TypeOK, NEW c \in Contest, NEW problems \in NewSets, SetProblems(c, problems)
    PROVE  TypeOK'
<1>1. set' \in [Contest -> SUBSET Problem]
  BY FirstAssumption DEF TypeOK, SetProblems
<1>2. edits' \in 0..MaxEdits
  BY BoundsAssumption DEF TypeOK, SetProblems
<1>3. QED
  BY <1>1, <1>2 DEF TypeOK, SetProblems

LEMMA NextTyped == TypeOK /\ [Next]_vars => TypeOK'
<1> SUFFICES ASSUME TypeOK, [Next]_vars PROVE TypeOK'
  OBVIOUS
<1>1. CASE Tick
  BY <1>1, TickTyped
<1>2. CASE \E u \in User : Confirm(u)
  BY <1>2, ConfirmTyped
<1>3. CASE \E u \in User, viewAs \in BOOLEAN, p \in Problem, c \in Contest \cup {NoContest} :
              Submit(u, viewAs, p, c)
  BY <1>3, SubmitTyped
<1>4. CASE \E i \in Sub, r \in Results : Judge(i, r)
  BY <1>4, JudgeTyped
<1>5. CASE \E i \in Sub : Rejudge(i)
  BY <1>5, RejudgeTyped
<1>6. CASE \E u \in User, c \in Contest : Enter(u, c)
  BY <1>6, EnterTyped
<1>7. CASE \E p \in Problem, flag \in BOOLEAN : Publish(p, flag)
  BY <1>7, PublishTyped
<1>8. CASE \E c \in Contest, problems \in NewSets : SetProblems(c, problems)
  BY <1>8, SetProblemsTyped
<1>9. CASE UNCHANGED vars
  BY <1>9 DEF TypeOK, vars
<1>10. QED
  BY <1>1, <1>2, <1>3, <1>4, <1>5, <1>6, <1>7, <1>8, <1>9 DEF Next

\* Every variable keeps its type; who entered a contest is confirmed, and entered contests
\* are rated (enter_contest, whoever confirms, edits or submits meanwhile).
THEOREM AccessTyped == Spec => []TypeOK
<1>1. Init => TypeOK
  BY InitTyped
<1>2. TypeOK /\ [Next]_vars => TypeOK'
  BY NextTyped
<1>3. QED
  BY <1>1, <1>2, PTL DEF Spec

----------------------------------------------------------------------------
(* Who may read what. *)

\* The three copies of the rule about a submission agree, in every state.
LEMMA CopiesAgree == ListAgreesWithById
<1> SUFFICES ASSUME NEW v \in Viewers, NEW i \in Sub
             PROVE  /\ Lists(i, v) => MayRead(i, v)
                    /\ MayRead(i, v) /\ ~Lists(i, v) =>
                         Own(i, v) /\ ~visible[subs[i].problem] /\ subs[i].contest = NoContest
                    /\ ~Own(i, v) => (Counts(i, v) <=> MayRead(i, v))
  BY DEF ListAgreesWithById
<1>1. QED
  BY DEF Lists, MayRead, Counts

\* list_submissions, may_read_submission and submission_activity, each with its own copy of
\* the rule, show a viewer the same submissions of others.
THEOREM RoutesAgree == Spec => []ListAgreesWithById
BY CopiesAgree, PTL

----------------------------------------------------------------------------
(* What is kept from whom. *)

LEMMA SubTyped ==
    ASSUME TypeOK
    PROVE  /\ Sub \subseteq Nat /\ IsFiniteSet(Sub)
           /\ \A i \in Sub : /\ subs[i] \in Submissions
                             /\ subs[i].user \in User /\ subs[i].problem \in Problem
                             /\ subs[i].contest \in Contest \cup {NoContest}
                             /\ subs[i].at \in Nat /\ subs[i].at <= MaxTime
                             /\ subs[i].earned \in 0..100 /\ subs[i].share \in 0..100
                             /\ Gained(subs[i]) \in 0..100
<1>1. subs \in Seq(Submissions) /\ Sub = 1..Len(subs) /\ Len(subs) \in Nat
  BY DEF TypeOK, Sub
<1>2. IsFiniteSet(Sub) /\ Sub \subseteq Nat
  BY <1>1, FS_Interval
<1>3. \A i \in Sub : subs[i] \in Submissions
  BY <1>1
<1>4. \A s \in Submissions : /\ s.user \in User /\ s.problem \in Problem
                             /\ s.contest \in Contest \cup {NoContest}
                             /\ s.at \in Nat /\ s.at <= MaxTime
                             /\ s.earned \in 0..100 /\ s.share \in 0..100
                             /\ Gained(s) \in 0..100
  BY BoundsAssumption DEF Submissions, Gained
<1>5. QED
  BY <1>2, <1>3, <1>4

\* A problem that is not published is on nobody's profile.
LEMMA HiddenUnsolved ==
    ASSUME NEW all, NEW u, NEW p \in Problem, ~visible[p]
    PROVE  p \notin SolvedOn(all, u)
<1>1. Scored(all, u, p) = {}
  BY DEF Scored
<1>2. {0} \cup {all[i].earned : i \in Scored(all, u, p)} = {0}
  BY <1>1
<1>3. IsFiniteSet({0})
  BY FS_Singleton
<1>4. Max({0}) = 0
  <2>1. {0} \subseteq Nat /\ {0} # {}
    OBVIOUS
  <2> QED  BY <1>3, <2>1, MaxOf
<1>5. Best(all, u, p) = 0
  BY <1>2, <1>4 DEF Best
<1>6. QED
  BY <1>5 DEF SolvedOn, MinEarned

\* A contest is ahead, or runs, or is over.
LEMMA Times ==
    ASSUME TypeOK, NEW c \in Contest
    PROVE  /\ now \in Nat /\ Terms[c].starts \in Nat /\ Terms[c].ends \in Nat
           /\ Terms[c].freeze \in Nat /\ Terms[c].penalty \in Nat
           /\ Terms[c].rated \in BOOLEAN /\ Terms[c].ioi \in BOOLEAN
           /\ Running(c) <=> ~Before(c) /\ ~Ended(c)
  BY TermsAssumption, BoundsAssumption DEF TypeOK, Running

LEMMA SealKept == ASSUME TypeOK PROVE SealHolds
<1> SUFFICES ASSUME NEW p \in Problem, NEW v \in Viewers
             PROVE
      /\ Sealed(p, v) =>
            /\ p \notin ListedProblems(v)
            /\ \A c \in Contest : p \notin DetailProblems(c, v) \cup BoardProblems(c, v)
            /\ \A u \in User : p \notin SolvedOn(subs, u)
            /\ \A i \in Sub : subs[i].problem = p =>
                  /\ ~Ranks(i, v)
                  /\ Lists(i, v) => LET c == subs[i].contest
                                    IN  Own(i, v) \/ Before(c) \/ p \notin set[c]
      /\ ~visible[p] /\ v \in Members /\ (\E c \in Contest : p \in set[c] /\ Running(c)) =>
            /\ ~ProblemPage(p, v).points /\ ProblemPage(p, v).contests = {}
            /\ p \notin ListedProblems(v) /\ \A u \in User : p \notin SolvedOn(subs, u)
  BY DEF SealHolds
<1>1. ASSUME Sealed(p, v)
      PROVE  /\ p \notin ListedProblems(v)
             /\ \A c \in Contest : p \notin DetailProblems(c, v) \cup BoardProblems(c, v)
             /\ \A u \in User : p \notin SolvedOn(subs, u)
             /\ \A i \in Sub : subs[i].problem = p =>
                   /\ ~Ranks(i, v)
                   /\ Lists(i, v) => LET c == subs[i].contest
                                     IN  Own(i, v) \/ Before(c) \/ p \notin set[c]
  <2>1. ~visible[p] /\ ~v.admin
    BY <1>1 DEF Sealed, VisibleTo
  <2>2. \A c \in Contest : p \in set[c] => ~Ended(c) /\ (Running(c) => LockedOut(c, v))
    BY <1>1 DEF Sealed, VisibleTo, ContestsWith
  <2>3. p \notin ListedProblems(v)
    BY <2>1 DEF ListedProblems
  <2>4. ASSUME NEW c \in Contest PROVE p \notin DetailProblems(c, v) \cup BoardProblems(c, v)
    BY <2>1, <2>2, Times DEF DetailProblems, BoardProblems
  <2>5. \A u \in User : p \notin SolvedOn(subs, u)
    BY <2>1, HiddenUnsolved
  <2>6. ASSUME NEW i \in Sub, subs[i].problem = p
        PROVE  /\ ~Ranks(i, v)
               /\ Lists(i, v) => LET c == subs[i].contest
                                 IN  Own(i, v) \/ Before(c) \/ p \notin set[c]
    <3>1. ~Ranks(i, v)
      BY <1>1, <2>6 DEF Ranks, Sealed
    <3>2. ASSUME Lists(i, v), ~Own(i, v), p \in set[subs[i].contest]
          PROVE  Before(subs[i].contest)
      <4>1. subs[i].contest # NoContest /\ subs[i].contest \notin Live
        BY <3>2, <2>1, <2>6 DEF Lists
      <4>2. subs[i].contest \in Contest
        BY <4>1, SubTyped
      <4>3. ~Running(subs[i].contest) /\ ~Ended(subs[i].contest)
        BY <4>1, <4>2, <3>2, <2>2 DEF Live
      <4> QED  BY <4>3 DEF Running
    <3> QED  BY <3>1, <3>2
  <2> QED  BY <2>3, <2>4, <2>5, <2>6
<1>2. ASSUME ~visible[p], v \in Members, NEW c \in Contest, p \in set[c], Running(c)
      PROVE  /\ ~ProblemPage(p, v).points /\ ProblemPage(p, v).contests = {}
             /\ p \notin ListedProblems(v) /\ \A u \in User : p \notin SolvedOn(subs, u)
  <2>1. ~v.admin
    BY <1>2 DEF Members
  <2>2. MetadataSealed(p, v)
    BY <1>2, <2>1 DEF MetadataSealed, ContestsWith
  <2>3. ~ProblemPage(p, v).points /\ ProblemPage(p, v).contests = {}
    BY <2>2 DEF ProblemPage
  <2>4. p \notin ListedProblems(v)
    BY <1>2, <2>1 DEF ListedProblems
  <2> QED  BY <2>3, <2>4, <1>2, HiddenUnsolved
<1>3. QED
  BY <1>1, <1>2

\* Whichever contests start, are entered, end or change their sets, the pages keep to
\* themselves what problem_visible_to and metadata_sealed keep from the viewer.
THEOREM SealIsKept == Spec => []SealHolds
BY AccessTyped, SealKept, PTL

----------------------------------------------------------------------------
(* The best of some results. *)

\* Nothing, or the most of what the submissions J earned.
Top(all, J) == Max({0} \cup {all[i].earned : i \in J})

LEMMA TopOf ==
    ASSUME NEW all, NEW J, \A i \in J : all[i].earned \in 0..100
    PROVE  /\ Top(all, J) \in 0..100
           /\ \A i \in J : all[i].earned <= Top(all, J)
           /\ Top(all, J) = 0 \/ \E i \in J : all[i].earned = Top(all, J)
<1> DEFINE G == {0} \cup {all[i].earned : i \in J}
<1>1. G \in SUBSET (0..100) /\ 0 \in G
  OBVIOUS
<1>2. G \subseteq Nat /\ G # {} /\ IsFiniteSet(G)
  <2>1. IsFiniteSet(0..100)
    <3>1. 0 \in Int /\ 100 \in Int
      OBVIOUS
    <3> QED  BY <3>1, FS_Interval
  <2>2. 0..100 \subseteq Nat
    OBVIOUS
  <2> HIDE DEF G
  <2> QED  BY <1>1, <2>1, <2>2, FS_Subset
<1>3. Max(G) \in G /\ \A g \in G : g <= Max(G)
  <2> HIDE DEF G
  <2> QED  BY <1>2, MaxOf
<1>4. Max(G) \in 0..100
  <2> HIDE DEF G
  <2> QED  BY <1>1, <1>3
<1>5. \A i \in J : all[i].earned \in G
  OBVIOUS
<1>6. Max(G) = 0 \/ \E i \in J : all[i].earned = Max(G)
  BY <1>3
<1>7. QED
  <2>1. \A i \in J : all[i].earned <= Max(G)
    <3> HIDE DEF G
    <3> QED  BY <1>3, <1>5
  <2>2. Top(all, J) = Max(G)
    BY DEF Top
  <2> HIDE DEF G
  <2> QED  BY <1>4, <1>6, <2>1, <2>2

\* Where each result that counts is matched by one that is no less, the best is no less.
LEMMA TopMonotone ==
    ASSUME NEW all, NEW J, \A i \in J : all[i].earned \in 0..100,
           NEW more, NEW K, \A i \in K : more[i].earned \in 0..100,
           \A i \in J : all[i].earned = 0 \/ \E j \in K : more[j].earned >= all[i].earned
    PROVE  Top(all, J) <= Top(more, K)
<1> DEFINE m == Top(all, J)
           n == Top(more, K)
<1>1. m \in 0..100 /\ (m = 0 \/ \E i \in J : all[i].earned = m)
  BY TopOf
<1>2. n \in 0..100 /\ \A i \in K : more[i].earned <= n
  BY TopOf
<1> SUFFICES m <= n
  OBVIOUS
<1> HIDE DEF m, n
<1>3. CASE m = 0
  BY <1>2, <1>3
<1>4. CASE m # 0
  <2>1. PICK i \in J : all[i].earned = m
    BY <1>1, <1>4
  <2>2. PICK j \in K : more[j].earned >= all[i].earned
    BY <2>1, <1>4
  <2>3. more[j].earned <= n /\ more[j].earned \in 0..100
    BY <1>2
  <2> QED  BY <1>1, <1>2, <2>1, <2>2, <2>3
<1>5. QED
  BY <1>3, <1>4

\* Nothing, or the most that a board pays for the submissions J.
Most(all, J) == Max({0} \cup {Gained(all[i]) : i \in J})

LEMMA MostOf ==
    ASSUME NEW all, NEW J, \A i \in J : Gained(all[i]) \in 0..100
    PROVE  /\ Most(all, J) \in 0..100
           /\ \A i \in J : Gained(all[i]) <= Most(all, J)
           /\ Most(all, J) = 0 \/ \E i \in J : Gained(all[i]) = Most(all, J)
<1> DEFINE paid == [i \in J |-> [earned |-> Gained(all[i])]]
<1>1. \A i \in J : paid[i].earned = Gained(all[i])
  OBVIOUS
<1> HIDE DEF paid
<1>2. {paid[i].earned : i \in J} = {Gained(all[i]) : i \in J}
  BY <1>1
<1>3. Top(paid, J) = Most(all, J)
  BY <1>2 DEF Top, Most
<1>4. \A i \in J : paid[i].earned \in 0..100
  BY <1>1
<1>5. /\ Top(paid, J) \in 0..100
      /\ \A i \in J : paid[i].earned <= Top(paid, J)
      /\ Top(paid, J) = 0 \/ \E i \in J : paid[i].earned = Top(paid, J)
  BY <1>4, TopOf
<1>6. QED
  BY <1>1, <1>3, <1>5

----------------------------------------------------------------------------
(* The board and the profile. *)

LEMMA RowIs ==
    ASSUME NEW c, NEW reveal, NEW all, NEW row \in Rows(c, reveal, all)
    PROVE  /\ row.user \in {all[i].user : i \in Entries(c, all)}
           /\ row = Row(c, reveal, all, row.user)
           /\ row.cells = Cells(c, reveal, all, row.user)
           /\ row.key = Key(c, row.cells)
BY DEF Rows, Row

\* A board that is revealed keeps nothing back.
LEMMA NothingFrozen ==
    ASSUME TypeOK, NEW c, NEW i \in Sub
    PROVE  subs[i].at < FrozenFrom(c, TRUE)
<1>1. FrozenFrom(c, TRUE) = MaxTime + 1
  BY DEF FrozenFrom
<1>2. subs[i].at \in Nat /\ subs[i].at <= MaxTime
  BY SubTyped
<1>3. MaxTime \in Nat
  BY BoundsAssumption
<1>4. subs[i].at < MaxTime + 1
  BY <1>2, <1>3
<1>5. QED
  BY <1>1, <1>4

LEMMA OneNumber == ASSUME TypeOK PROVE BoardAgreesWithProfile
<1> SUFFICES
      ASSUME NEW c \in Contest, Terms[c].ioi,
             NEW row \in Rows(c, TRUE, subs), NEW p \in Problem, visible[p]
      PROVE  PaysAsProfile(c, row, p)
  BY DEF BoardAgreesWithProfile
<1> DEFINE theirs == {i \in Sub : subs[i].user = row.user /\ subs[i].problem = p}
           counted == {i \in theirs \cap Entries(c, subs) : Judged(subs[i])}
           judged == {i \in Attempts(c, subs, row.user, p) :
                        subs[i].at < FrozenFrom(c, TRUE) /\ Judged(subs[i])}
           scored == Scored(subs, row.user, p)
           paid == row.cells[p].result.score
           given == Best(subs, row.user, p)
<1>1. paid = Most(subs, judged)
  <2>1. row.cells = Cells(c, TRUE, subs, row.user)
    BY RowIs
  <2>2. Cells(c, TRUE, subs, row.user)[p]
          = Cell(c, FrozenFrom(c, TRUE), subs, Attempts(c, subs, row.user, p))
    BY DEF Cells
  <2>3. row.cells[p] = Cell(c, FrozenFrom(c, TRUE), subs, Attempts(c, subs, row.user, p))
    BY <2>1, <2>2
  <2>4. row.cells[p].result = IoiCell(c, subs, judged)
    BY <2>3 DEF Cell, Result
  <2> HIDE DEF judged
  <2> QED  BY <2>4 DEF IoiCell, Most
<1>2. given = Top(subs, scored)
  BY DEF Best, Top
<1>3. judged = counted /\ counted \subseteq theirs /\ theirs \subseteq Sub
  <2>1. \A i \in Entries(c, subs) : i \in Sub /\ subs[i].at < FrozenFrom(c, TRUE)
    BY NothingFrozen DEF Entries, Sub
  <2>2. Attempts(c, subs, row.user, p) = theirs \cap Entries(c, subs)
    BY <2>1 DEF Attempts
  <2> QED  BY <2>1, <2>2
<1>4. \A i \in Sub : /\ subs[i].earned \in 0..100 /\ subs[i].share \in 0..100
                     /\ Gained(subs[i]) \in 0..100
  BY SubTyped
<1>5. \A i \in theirs : subs[i].earned >= 1 => i \in scored
  BY DEF Scored, MinEarned, Sub
<1>6. \A i \in scored : i \in theirs /\ subs[i].earned >= 1
  BY DEF Scored, MinEarned, Sub
<1> HIDE DEF theirs, counted, judged, scored, paid, given
<1>7. /\ given \in 0..100 /\ \A i \in scored : subs[i].earned <= given
      /\ given = 0 \/ \E i \in scored : subs[i].earned = given
  <2>1. \A i \in scored : subs[i].earned \in 0..100
    BY <1>3, <1>4, <1>6
  <2> QED  BY <1>2, <2>1, TopOf
<1>8. /\ paid \in 0..100 /\ \A i \in counted : Gained(subs[i]) <= paid
      /\ paid = 0 \/ \E i \in counted : Gained(subs[i]) = paid
  <2>1. \A i \in counted : Gained(subs[i]) \in 0..100
    BY <1>3, <1>4
  <2> QED  BY <1>1, <1>3, <2>1, MostOf
<1>9. ASSUME theirs = counted PROVE paid >= given
  <2>1. CASE given = 0
    BY <1>8, <2>1
  <2>2. CASE given # 0
    <3>1. PICK i \in scored : subs[i].earned = given
      BY <1>7, <2>2
    <3>2. Gained(subs[i]) = given /\ i \in counted
      BY <3>1, <2>2, <1>6, <1>9 DEF Gained
    <3> QED  BY <3>2, <1>7, <1>8
  <2> QED  BY <2>1, <2>2
<1>10. ASSUME paid > given
       PROVE  \E i \in counted : subs[i].earned = 0 /\ subs[i].share = paid
  <2>1. PICK i \in counted : Gained(subs[i]) = paid
    BY <1>7, <1>8, <1>10
  <2>2. i \in theirs /\ subs[i].earned \in 0..100
    BY <1>3, <1>4
  <2>3. subs[i].earned = 0
    <3>1. ASSUME subs[i].earned # 0 PROVE FALSE
      <4>1. i \in scored /\ subs[i].earned = paid
        BY <2>1, <2>2, <3>1, <1>5 DEF Gained
      <4> QED  BY <4>1, <2>2, <1>7, <1>8, <1>10
    <3> QED  BY <3>1
  <2> QED  BY <2>1, <2>3 DEF Gained
<1>11. QED
  BY <1>9, <1>10 DEF PaysAsProfile, theirs, counted, paid, given

\* The cell of an IOI board is no less than the profile gives, once all of the competitor's
\* attempts were made in the contest and are judged, and it is more only by an attempt that
\* earned nothing and is paid its share of the tests' points.
THEOREM BoardAndProfileAgree == Spec => []BoardAgreesWithProfile
BY AccessTyped, OneNumber, PTL

----------------------------------------------------------------------------
(* Ranks. *)

\* Keys are pairs of numbers, and a user has one row.
Rankable(rows) ==
    /\ IsFiniteSet(rows)
    /\ \A r \in rows : r.user \in User /\ r.key \in Int \X Int
    /\ \A r, s \in rows : r.user = s.user => r = s

LEMMA RowsOrdered ==
    ASSUME NEW rows, Rankable(rows)
    PROVE  Orders({x \in rows \X rows : Above(x[1], x[2])}, rows)
<1> DEFINE R == {x \in rows \X rows : Above(x[1], x[2])}
<1>1. \A r, s \in rows : <<r, s>> \in R <=> Above(r, s)
  OBVIOUS
<1>2. \A r \in rows : /\ r.key[1] \in Int /\ r.key[2] \in Int /\ r.key = <<r.key[1], r.key[2]>>
                      /\ Name[r.user] \in Nat
  BY NameAssumption DEF Rankable
<1>3. \A r, s \in rows : r # s => Name[r.user] # Name[s.user]
  BY NameAssumption DEF Rankable
<1>4. \A r, s \in rows : r.key[1] = s.key[1] /\ r.key[2] = s.key[2] => r.key = s.key
  BY <1>2
<1> HIDE DEF R
<1>5. \A r, s \in rows : r # s => <<r, s>> \in R \/ <<s, r>> \in R
  <2> SUFFICES ASSUME NEW r \in rows, NEW s \in rows, r # s PROVE Above(r, s) \/ Above(s, r)
    BY <1>1
  <2> QED  BY <1>2, <1>3, <1>4 DEF Above, Better
<1>6. \A r \in rows : <<r, r>> \notin R
  <2> SUFFICES ASSUME NEW r \in rows PROVE ~Above(r, r)
    BY <1>1
  <2> QED  BY <1>2 DEF Above, Better
<1>7. \A r, s, t \in rows : <<r, s>> \in R /\ <<s, t>> \in R => <<r, t>> \in R
  <2> SUFFICES ASSUME NEW r \in rows, NEW s \in rows, NEW t \in rows, Above(r, s), Above(s, t)
               PROVE  Above(r, t)
    BY <1>1
  <2>1. Better(r.key, s.key) \/ (r.key = s.key /\ Name[r.user] < Name[s.user])
    BY DEF Above
  <2>2. Better(s.key, t.key) \/ (s.key = t.key /\ Name[s.user] < Name[t.user])
    BY DEF Above
  <2>3. CASE Better(r.key, s.key)
    <3>1. Better(r.key, t.key)
      BY <2>2, <2>3, <1>2 DEF Better
    <3> QED  BY <3>1 DEF Above
  <2>4. CASE r.key = s.key /\ Name[r.user] < Name[s.user]
    <3>1. CASE Better(s.key, t.key)
      BY <2>4, <3>1 DEF Above
    <3>2. CASE s.key = t.key /\ Name[s.user] < Name[t.user]
      BY <2>4, <3>2, <1>2 DEF Above
    <3> QED  BY <2>2, <3>1, <3>2
  <2> QED  BY <2>1, <2>3, <2>4
<1>8. Orders(R, rows)
  BY <1>5, <1>6, <1>7 DEF Orders
<1>9. QED
  BY <1>8 DEF R

\* The position of the first row with a key is one more than the rows that are better.
LEMMA RankIs ==
    ASSUME NEW rows, Rankable(rows), NEW r \in rows
    PROVE  Min({i \in DOMAIN InOrder(rows) : InOrder(rows)[i].key = r.key})
             = 1 + Cardinality({s \in rows : Better(s.key, r.key)})
<1> DEFINE R == {x \in rows \X rows : Above(x[1], x[2])}
           order == Sorted(rows, R)
           same == {i \in DOMAIN order : order[i].key = r.key}
           better == {s \in rows : Better(s.key, r.key)}
<1>1. Orders(R, rows) /\ IsFiniteSet(rows)
  BY RowsOrdered DEF Rankable
<1>2. \A s, t \in rows : <<s, t>> \in R <=> Above(s, t)
  OBVIOUS
<1>3. InOrder(rows) = order
  BY DEF InOrder
<1> HIDE DEF R
<1>4. /\ Cardinality(rows) \in Nat
      /\ DOMAIN order = 1..Cardinality(rows)
      /\ \A i \in DOMAIN order : order[i] \in rows /\ Cardinality(UpTo(rows, R, order[i])) = i
      /\ \A s \in rows : /\ Cardinality(UpTo(rows, R, s)) \in DOMAIN order
                         /\ order[Cardinality(UpTo(rows, R, s))] = s
  BY <1>1, SortedWhole
<1> HIDE DEF order
<1>5. same \subseteq Nat /\ same # {}
  BY <1>4
<1> DEFINE m == Min(same)
<1>6. m \in same /\ \A i \in same : m <= i
  <2> HIDE DEF same
  <2> QED  BY <1>5, MinOf
<1> DEFINE first == order[m]
<1>7. first \in rows /\ first.key = r.key /\ Cardinality(UpTo(rows, R, first)) = m /\ m \in Nat
  BY <1>4, <1>5, <1>6
<1> HIDE DEF m
<1> HIDE DEF first
<1>8. \A s \in rows : /\ s.key[1] \in Int /\ s.key[2] \in Int
                      /\ Name[s.user] \in Nat
  BY NameAssumption DEF Rankable
<1>9. UpTo(rows, R, first) = better \cup {first}
  <2>1. ASSUME NEW s \in rows, s \in UpTo(rows, R, first), s # first PROVE s \in better
    <3>1. ~Above(first, s)
      BY <2>1, <1>2, <1>7 DEF UpTo
    <3>2. Above(s, first)
      BY <2>1, <3>1, <1>1, <1>2, <1>7 DEF Orders
    <3>3. ASSUME s.key = first.key PROVE FALSE
      <4>1. Cardinality(UpTo(rows, R, s)) < Cardinality(UpTo(rows, R, first))
        BY <3>2, <1>1, <1>2, <1>7, SortedInOrder
      <4>2. Cardinality(UpTo(rows, R, s)) \in same
        BY <3>3, <1>4, <1>7
      <4>3. m <= Cardinality(UpTo(rows, R, s)) /\ Cardinality(UpTo(rows, R, s)) \in Nat
        <5> HIDE DEF same
        <5> QED  BY <4>2, <1>5, <1>6 DEF m
      <4> QED  BY <4>1, <4>3, <1>7
    <3>4. Better(s.key, first.key)
      BY <3>2, <3>3 DEF Above
    <3> QED  BY <3>4, <1>7
  <2>2. ASSUME NEW s \in rows, s \in better PROVE s \in UpTo(rows, R, first)
    <3>1. Better(s.key, first.key)
      BY <2>2, <1>7
    <3>2. ~Above(first, s)
      BY <3>1, <1>7, <1>8 DEF Above, Better
    <3> QED  BY <3>2, <1>2, <1>7 DEF UpTo
  <2>3. first \in UpTo(rows, R, first)
    BY <1>1, <1>7 DEF UpTo, Orders
  <2>4. UpTo(rows, R, first) \subseteq rows /\ better \subseteq rows
    BY DEF UpTo
  <2> HIDE DEF better
  <2> QED  BY <2>1, <2>2, <2>3, <2>4, <1>7
<1>10. first \notin better
  BY <1>7, <1>8 DEF Better
<1>11. IsFiniteSet(better)
  <2>1. better \in SUBSET rows
    OBVIOUS
  <2> HIDE DEF better
  <2> QED  BY <2>1, <1>1, FS_Subset
<1>12. Cardinality(better \cup {first}) = Cardinality(better) + 1
  <2> HIDE DEF better
  <2> QED  BY <1>10, <1>11, FS_AddElement
<1>13. Cardinality(better) \in Nat
  <2> HIDE DEF better
  <2> QED  BY <1>11, FS_CardinalityType
<1>14. m = 1 + Cardinality(better)
  <2> HIDE DEF better
  <2> QED  BY <1>7, <1>9, <1>12, <1>13
<1>15. QED
  BY <1>3, <1>14 DEF m

----------------------------------------------------------------------------
(* Scores and keys are numbers. *)

\* What a function makes of a finite set is a finite set.
LEMMA ImageFinite ==
    ASSUME NEW S, IsFiniteSet(S), NEW f, DOMAIN f = S
    PROVE  IsFiniteSet({f[x] : x \in S})
<1> DEFINE T == {f[x] : x \in S}
           g == [x \in S |-> f[x]]
<1>1. g \in Surjection(S, T)
  BY DEF Surjection
<1>2. QED
  BY <1>1, FS_Surjection

LEMMA TripleFinite ==
    ASSUME NEW x, NEW a \in Int, NEW b \in Int
    PROVE  IsFiniteSet({x} \X (1..a) \X (1..b))
<1> DEFINE A == 1..a
           B == 1..b
           pairs == A \X B
           f == [z \in pairs |-> <<x, z[1], z[2]>>]
<1>1. IsFiniteSet(A) /\ IsFiniteSet(B)
  BY FS_Interval
<1>2. IsFiniteSet(pairs)
  <2> HIDE DEF A, B
  <2> QED  BY <1>1, FS_Product
<1>3. IsFiniteSet({f[z] : z \in pairs})
  <2>1. DOMAIN f = pairs
    OBVIOUS
  <2> HIDE DEF f, pairs
  <2> QED  BY <1>2, <2>1, ImageFinite
<1>4. {x} \X A \X B \in SUBSET {f[z] : z \in pairs}
  <2> SUFFICES ASSUME NEW t \in {x} \X A \X B PROVE \E z \in pairs : f[z] = t
    OBVIOUS
  <2>1. PICK i \in A, j \in B : t = <<x, i, j>>
    <3> HIDE DEF A, B
    <3> QED  OBVIOUS
  <2>2. <<i, j>> \in pairs /\ f[<<i, j>>] = t
    <3> HIDE DEF A, B
    <3> QED  BY <2>1
  <2> QED  BY <2>2
<1>5. QED
  <2> HIDE DEF f, pairs
  <2>1. IsFiniteSet({x} \X A \X B)
    BY <1>3, <1>4, FS_Subset
  <2> QED  BY <2>1

\* The triples that a score counts.
Units(worth) == UNION {{k} \X (1..worth[k]) \X (1..Weight(k)) : k \in DOMAIN worth}

LEMMA UnitsFinite ==
    ASSUME NEW worth, IsFiniteSet(DOMAIN worth),
           \A k \in DOMAIN worth : worth[k] \in Int /\ Weight(k) \in Int
    PROVE  IsFiniteSet(Units(worth))
<1> DEFINE K == DOMAIN worth
           f == [k \in K |-> {k} \X (1..worth[k]) \X (1..Weight(k))]
           T == {f[k] : k \in K}
<1>1. IsFiniteSet(T)
  <2>1. DOMAIN f = K
    OBVIOUS
  <2> HIDE DEF f
  <2> QED  BY <2>1, ImageFinite
<1>2. \A k \in K : IsFiniteSet(f[k])
  BY TripleFinite
<1>3. IsFiniteSet(UNION T)
  <2> HIDE DEF f
  <2>1. \A t \in T : IsFiniteSet(t)
    BY <1>2
  <2> HIDE DEF T
  <2> QED  BY <1>1, <2>1, FS_UNION
<1>4. T = {{k} \X (1..worth[k]) \X (1..Weight(k)) : k \in K}
  OBVIOUS
<1>5. QED
  BY <1>3, <1>4 DEF Units

LEMMA RoundedNat == ASSUME NEW a \in Nat PROVE Rounded(a, 100) \in Nat
BY DEF Rounded

\* Rounding keeps the order.
LEMMA RoundedMonotone ==
    ASSUME NEW a \in Nat, NEW b \in Nat, a <= b
    PROVE  Rounded(a, 100) <= Rounded(b, 100)
<1> DEFINE q == (2 * a + 100) \div 200
           r == (2 * b + 100) \div 200
<1>1. q \in Nat /\ r \in Nat /\ q <= r
  OBVIOUS
<1>2. Rounded(a, 100) = IF (2 * a + 100) % 200 = 0 /\ q % 2 = 1 THEN q - 1 ELSE q
  BY DEF Rounded
<1>3. Rounded(b, 100) = IF (2 * b + 100) % 200 = 0 /\ r % 2 = 1 THEN r - 1 ELSE r
  BY DEF Rounded
<1>4. 200 * q <= 2 * a + 100 /\ ((2 * b + 100) % 200 = 0 => 2 * b + 100 = 200 * r)
  OBVIOUS
<1>5. CASE q < r
  <2> HIDE DEF q, r
  <2> QED  BY <1>1, <1>2, <1>3, <1>5
<1>6. CASE q = r /\ (2 * b + 100) % 200 = 0
  <2>1. a = b
    <3> HIDE DEF q, r
    <3> QED  BY <1>1, <1>4, <1>6
  <2> QED  BY <2>1, <1>1, <1>2
<1>7. CASE q = r /\ (2 * b + 100) % 200 # 0
  <2> HIDE DEF q, r
  <2> QED  BY <1>1, <1>2, <1>3, <1>7
<1>8. QED
  BY <1>1, <1>5, <1>6, <1>7

----------------------------------------------------------------------------
(* What is solved, by worth. *)

\* Problems with the natural numbers they earned.
Valued(e) == DOMAIN e \subseteq Problem /\ \A p \in DOMAIN e : e[p] \in Nat

LEMMA ByWorthOrders ==
    ASSUME NEW e, Valued(e)
    PROVE  Orders(ByWorth(e), DOMAIN e) /\ IsFiniteSet(DOMAIN e)
<1> DEFINE D == DOMAIN e
           R == ByWorth(e)
<1>1. \A p, q \in D : <<p, q>> \in R <=> MoreWorth(e, p, q)
  BY DEF ByWorth
<1>2. \A p \in D : e[p] \in Nat /\ Name[p] \in Nat
  BY NameAssumption DEF Valued
<1>3. \A p, q \in D : p # q => Name[p] # Name[q]
  BY NameAssumption DEF Valued
<1>4. IsFiniteSet(D)
  <2>1. D \in SUBSET Problem
    BY DEF Valued
  <2> QED  BY <2>1, WorthAssumption, FS_Subset
<1> HIDE DEF R, D
<1>5. \A p, q \in D : p # q => <<p, q>> \in R \/ <<q, p>> \in R
  BY <1>1, <1>2, <1>3 DEF MoreWorth
<1>6. \A p \in D : <<p, p>> \notin R
  BY <1>1, <1>2 DEF MoreWorth
<1>7. \A p, q, s \in D : <<p, q>> \in R /\ <<q, s>> \in R => <<p, s>> \in R
  BY <1>1, <1>2 DEF MoreWorth
<1>8. Orders(R, D)
  BY <1>5, <1>6, <1>7 DEF Orders
<1>9. QED
  BY <1>4, <1>8 DEF R, D

\* With more problems, each worth no less, the k-th best is worth no less.
LEMMA KthMonotone ==
    ASSUME NEW e, Valued(e), NEW f, Valued(f),
           DOMAIN e \subseteq DOMAIN f, \A p \in DOMAIN e : e[p] <= f[p],
           NEW k \in 1..Cardinality(DOMAIN e)
    PROVE  /\ k \in 1..Cardinality(DOMAIN f)
           /\ e[Sorted(DOMAIN e, ByWorth(e))[k]] <= f[Sorted(DOMAIN f, ByWorth(f))[k]]
<1> DEFINE D == DOMAIN e
           E == DOMAIN f
           p == Sorted(D, ByWorth(e))[k]
           q == Sorted(E, ByWorth(f))[k]
           above == UpTo(D, ByWorth(e), p)
           beyond == UpTo(E, ByWorth(f), q)
<1>1. /\ Orders(ByWorth(e), D) /\ IsFiniteSet(D)
      /\ Orders(ByWorth(f), E) /\ IsFiniteSet(E)
  BY ByWorthOrders
<1>2. D \subseteq E /\ \A x \in D : e[x] <= f[x] /\ e[x] \in Nat
  BY DEF Valued
<1>3. \A x \in E : f[x] \in Nat
  BY DEF Valued
<1>4. \A x, y \in D : <<x, y>> \in ByWorth(e) <=> MoreWorth(e, x, y)
  BY DEF ByWorth
<1>5. \A x, y \in E : <<x, y>> \in ByWorth(f) <=> MoreWorth(f, x, y)
  BY DEF ByWorth
<1>6. k \in 1..Cardinality(E) /\ k \in Nat /\ Cardinality(E) \in Nat
  <2>1. Cardinality(D) <= Cardinality(E)
    BY <1>1, FS_Subset
  <2>2. Cardinality(D) \in Nat /\ Cardinality(E) \in Nat
    BY <1>1, FS_CardinalityType
  <2> QED  BY <2>1, <2>2
<1>7. p \in D /\ Cardinality(above) = k
  BY <1>1, SortedWhole
<1>8. q \in E /\ Cardinality(beyond) = k
  BY <1>1, <1>6, SortedWhole
<1> HIDE DEF p, q, D, E
<1>9. ASSUME e[p] > f[q] PROVE FALSE
  <2>1. \A x \in above : x \in D /\ e[x] >= e[p]
    <3> SUFFICES ASSUME NEW x \in above PROVE x \in D /\ e[x] >= e[p]
      OBVIOUS
    <3>1. x \in D /\ <<p, x>> \notin ByWorth(e)
      BY DEF UpTo
    <3>2. ~MoreWorth(e, p, x)
      BY <3>1, <1>4, <1>7
    <3> QED  BY <3>1, <3>2, <1>2, <1>7 DEF MoreWorth
  <2>2. \A x \in above : x \in E /\ f[x] > f[q]
    BY <2>1, <1>2, <1>3, <1>7, <1>8, <1>9
  <2>3. \A x \in above : x \in beyond /\ x # q
    <3> SUFFICES ASSUME NEW x \in above PROVE x \in beyond /\ x # q
      OBVIOUS
    <3>1. x \in E /\ f[x] > f[q] /\ f[x] \in Nat /\ f[q] \in Nat
      BY <2>2, <1>3, <1>8
    <3>2. ~MoreWorth(f, q, x)
      BY <3>1 DEF MoreWorth
    <3>3. <<q, x>> \notin ByWorth(f)
      BY <3>1, <3>2, <1>5, <1>8
    <3> QED  BY <3>1, <3>3 DEF UpTo
  <2>4. q \in beyond /\ IsFiniteSet(beyond) /\ IsFiniteSet(above)
    <3>1. beyond \in SUBSET E /\ above \in SUBSET D
      BY DEF UpTo
    <3>2. q \in beyond
      BY <1>1, <1>8 DEF UpTo, Orders
    <3> HIDE DEF beyond, above
    <3> QED  BY <3>1, <3>2, <1>1, FS_Subset
  <2> HIDE DEF above, beyond
  <2>5. above \in SUBSET beyond
    BY <2>3
  <2>6. above = beyond
    BY <2>4, <2>5, <1>7, <1>8, FS_Subset
  <2> QED  BY <2>3, <2>4, <2>6
<1>10. e[p] \in Nat /\ f[q] \in Nat
  BY <1>2, <1>3, <1>7, <1>8
<1>11. e[p] <= f[q]
  BY <1>9, <1>10
<1>12. QED
  BY <1>6, <1>11 DEF p, q, D, E

\* The submissions all have earned percentages.
Graded(all) == \A i \in DOMAIN all : all[i].earned \in 0..100

LEMMA BestIs ==
    ASSUME NEW all, Graded(all), NEW u, NEW p
    PROVE  /\ Best(all, u, p) = Top(all, Scored(all, u, p))
           /\ Best(all, u, p) \in 0..100
<1>1. Best(all, u, p) = Top(all, Scored(all, u, p))
  BY DEF Best, Top
<1>2. \A i \in Scored(all, u, p) : all[i].earned \in 0..100
  BY DEF Graded, Scored
<1>3. QED
  BY <1>1, <1>2, TopOf

LEMMA EarnedOnIs ==
    ASSUME NEW all, Graded(all), NEW u
    PROVE  /\ Valued(EarnedOn(all, u)) /\ DOMAIN EarnedOn(all, u) = SolvedOn(all, u)
           /\ \A p \in SolvedOn(all, u) : EarnedOn(all, u)[p] = Earned(all, u, p)
<1>1. \A p \in Problem : Earned(all, u, p) \in Nat
  <2> SUFFICES ASSUME NEW p \in Problem PROVE Earned(all, u, p) \in Nat
    OBVIOUS
  <2>1. Best(all, u, p) \in Nat /\ WorthOf[p] \in Nat
    BY BestIs, WorthAssumption
  <2>2. WorthOf[p] * Best(all, u, p) \in Nat
    BY <2>1
  <2> QED  BY <2>2, RoundedNat DEF Earned
<1>2. SolvedOn(all, u) \subseteq Problem
  BY DEF SolvedOn
<1>3. QED
  BY <1>1, <1>2 DEF EarnedOn, Valued

LEMMA PowerInt == ASSUME NEW a \in Nat \ {0}, NEW b \in Nat PROVE a ^ b \in Int
BY Z3

LEMMA WeightInt == ASSUME NEW k \in 1..Cardinality(Problem) PROVE Weight(k) \in Int
<1>1. DECAY[1] \in Nat \ {0} /\ DECAY[2] \in Nat \ {0} /\ Cardinality(Problem) \in Nat
  BY DecayAssumption, WorthAssumption, FS_CardinalityType
<1>2. k - 1 \in Nat /\ Cardinality(Problem) - k \in Nat
  BY <1>1
<1>3. DECAY[1]^(k - 1) \in Int
  BY <1>1, <1>2, PowerInt
<1>4. DECAY[2]^(Cardinality(Problem) - k) \in Int
  BY <1>1, <1>2, PowerInt
<1>5. QED
  BY <1>3, <1>4 DEF Weight

LEMMA WorthIs ==
    ASSUME NEW all, Graded(all), NEW u
    PROVE  LET e == EarnedOn(all, u)
           IN  /\ DOMAIN Worth(all, u) = 1..Cardinality(DOMAIN e)
               /\ \A k \in DOMAIN Worth(all, u) :
                    /\ Worth(all, u)[k] = e[Sorted(DOMAIN e, ByWorth(e))[k]]
                    /\ Worth(all, u)[k] \in Nat
<1> DEFINE e == EarnedOn(all, u)
           order == Sorted(DOMAIN e, ByWorth(e))
<1>1. Valued(e)
  BY EarnedOnIs
<1>2. Worth(all, u) = [k \in DOMAIN order |-> e[order[k]]]
  BY DEF Worth
<1> HIDE DEF e
<1>3. Orders(ByWorth(e), DOMAIN e) /\ IsFiniteSet(DOMAIN e)
  BY <1>1, ByWorthOrders
<1>4. /\ DOMAIN order = 1..Cardinality(DOMAIN e)
      /\ \A k \in DOMAIN order : order[k] \in DOMAIN e
  BY <1>3, SortedWhole
<1>5. \A k \in DOMAIN order : e[order[k]] \in Nat
  BY <1>1, <1>4 DEF Valued
<1>6. QED
  BY <1>2, <1>4, <1>5 DEF e

LEMMA ScoreNat ==
    ASSUME NEW all, Graded(all), NEW u
    PROVE  /\ IsFiniteSet(Units(Worth(all, u)))
           /\ Score(all, u) = Cardinality(Units(Worth(all, u)))
           /\ Score(all, u) \in Nat
<1> DEFINE worth == Worth(all, u)
           D == DOMAIN EarnedOn(all, u)
<1>1. IsFiniteSet(D) /\ D \in SUBSET Problem
  BY EarnedOnIs, ByWorthOrders DEF Valued
<1>2. Cardinality(D) \in Nat /\ Cardinality(D) <= Cardinality(Problem)
      /\ Cardinality(Problem) \in Nat
  BY <1>1, WorthAssumption, FS_Subset, FS_CardinalityType
<1>3. DOMAIN worth = 1..Cardinality(D) /\ \A k \in DOMAIN worth : worth[k] \in Nat
  BY WorthIs
<1> HIDE DEF worth, D
<1>4. \A k \in DOMAIN worth : worth[k] \in Int /\ Weight(k) \in Int
  BY <1>2, <1>3, WeightInt
<1>5. IsFiniteSet(DOMAIN worth)
  BY <1>2, <1>3, FS_Interval
<1>6. IsFiniteSet(Units(worth))
  BY <1>4, <1>5, UnitsFinite
<1>7. Score(all, u) = Cardinality(Units(worth))
  BY DEF Score, Units, worth
<1>8. QED
  BY <1>6, <1>7, FS_CardinalityType DEF worth

----------------------------------------------------------------------------
(* One more result. *)

LEMMA NeverFalls ==
    ASSUME TypeOK, NEW u \in User, NEW p \in Problem, NEW r \in Results
    PROVE  Score(Append(subs, [user |-> u, problem |-> p, earned |-> r.earned]), u)
             >= Score(subs, u)
<1> DEFINE new == [user |-> u, problem |-> p, earned |-> r.earned]
           more == Append(subs, new)
           e == EarnedOn(subs, u)
           f == EarnedOn(more, u)
<1>1. r.earned \in 0..100
  BY ResultsAssumption
<1>2. /\ DOMAIN more = 1..(Len(subs) + 1) /\ Sub = 1..Len(subs) /\ Len(subs) \in Nat
      /\ \A i \in Sub : i \in DOMAIN more /\ more[i] = subs[i]
      /\ more[Len(subs) + 1] = new
  <2>1. subs \in Seq(Submissions)
    BY DEF TypeOK
  <2> HIDE DEF new
  <2> QED  BY <2>1, AppendProperties DEF Sub
<1>3. Graded(subs) /\ Graded(more)
  <2>1. Graded(subs)
    BY SubTyped DEF Graded, Sub
  <2>2. new.earned \in 0..100
    BY <1>1
  <2> HIDE DEF more, new
  <2>3. ASSUME NEW i \in DOMAIN more PROVE more[i].earned \in 0..100
    <3>1. i \in Sub \/ i = Len(subs) + 1
      BY <1>2
    <3> QED  BY <3>1, <1>2, <2>1, <2>2 DEF Graded, Sub
  <2> QED  BY <2>1, <2>3 DEF Graded
<1>4. ASSUME NEW q \in Problem PROVE Best(subs, u, q) <= Best(more, u, q)
  <2>1. \A i \in Scored(subs, u, q) : i \in Scored(more, u, q) /\ more[i] = subs[i]
    <3> HIDE DEF more
    <3> QED  BY <1>2 DEF Scored, Sub
  <2>2. \A i \in Scored(subs, u, q) : subs[i].earned \in 0..100
    BY <1>3 DEF Graded, Scored
  <2>3. \A i \in Scored(more, u, q) : more[i].earned \in 0..100
    <3> HIDE DEF more
    <3> QED  BY <1>3 DEF Graded, Scored
  <2> HIDE DEF more
  <2>4. \A i \in Scored(subs, u, q) : more[i].earned >= subs[i].earned
    BY <2>1, <2>2
  <2>5. Top(subs, Scored(subs, u, q)) <= Top(more, Scored(more, u, q))
    <3>1. \A i \in Scored(subs, u, q) : \/ subs[i].earned = 0
                                        \/ \E j \in Scored(more, u, q) : more[j].earned >= subs[i].earned
      BY <2>1, <2>4
    <3> QED  BY <2>2, <2>3, <3>1, TopMonotone
  <2> QED  BY <2>5, <1>3, BestIs
<1> HIDE DEF more, new
<1>5. ASSUME NEW q \in Problem
      PROVE  /\ Best(subs, u, q) \in Nat /\ Best(more, u, q) \in Nat
             /\ Earned(subs, u, q) <= Earned(more, u, q)
  <2>1. Best(subs, u, q) \in Nat /\ Best(more, u, q) \in Nat /\ WorthOf[q] \in Nat
    BY <1>3, BestIs, WorthAssumption
  <2>2. /\ WorthOf[q] * Best(subs, u, q) \in Nat /\ WorthOf[q] * Best(more, u, q) \in Nat
        /\ WorthOf[q] * Best(subs, u, q) <= WorthOf[q] * Best(more, u, q)
    <3>1. \A a, b, c \in Nat : b <= c => a * b \in Nat /\ a * c \in Nat /\ a * b <= a * c
      OBVIOUS
    <3> QED  BY <2>1, <1>4, <3>1
  <2> QED  BY <2>1, <2>2, RoundedMonotone DEF Earned
<1>6. /\ Valued(e) /\ Valued(f)
      /\ DOMAIN e = SolvedOn(subs, u) /\ DOMAIN f = SolvedOn(more, u)
      /\ \A q \in DOMAIN e : e[q] = Earned(subs, u, q)
      /\ \A q \in DOMAIN f : f[q] = Earned(more, u, q)
  BY <1>3, EarnedOnIs
<1>7. DOMAIN e \subseteq DOMAIN f
  <2> SUFFICES SolvedOn(subs, u) \subseteq SolvedOn(more, u)
    BY <1>6
  <2> QED  BY <1>4, <1>5 DEF SolvedOn, MinEarned
<1>8. \A q \in DOMAIN e : e[q] <= f[q]
  BY <1>5, <1>6, <1>7 DEF Valued
<1> HIDE DEF e, f
<1>9. \A k \in 1..Cardinality(DOMAIN e) :
         /\ k \in 1..Cardinality(DOMAIN f)
         /\ e[Sorted(DOMAIN e, ByWorth(e))[k]] <= f[Sorted(DOMAIN f, ByWorth(f))[k]]
  BY <1>6, <1>7, <1>8, KthMonotone
<1>10. /\ DOMAIN Worth(subs, u) = 1..Cardinality(DOMAIN e)
       /\ \A k \in DOMAIN Worth(subs, u) : /\ Worth(subs, u)[k] = e[Sorted(DOMAIN e, ByWorth(e))[k]]
                                           /\ Worth(subs, u)[k] \in Nat
  BY <1>3, WorthIs DEF e
<1>11. /\ DOMAIN Worth(more, u) = 1..Cardinality(DOMAIN f)
       /\ \A k \in DOMAIN Worth(more, u) : /\ Worth(more, u)[k] = f[Sorted(DOMAIN f, ByWorth(f))[k]]
                                           /\ Worth(more, u)[k] \in Nat
  BY <1>3, WorthIs DEF f
<1>12. \A k \in DOMAIN Worth(subs, u) :
          /\ k \in DOMAIN Worth(more, u)
          /\ Worth(subs, u)[k] \in Nat /\ Worth(more, u)[k] \in Nat
          /\ Worth(subs, u)[k] <= Worth(more, u)[k]
  BY <1>9, <1>10, <1>11
<1>13. Units(Worth(subs, u)) \in SUBSET Units(Worth(more, u))
  <2> DEFINE a == Worth(subs, u)
             b == Worth(more, u)
  <2>1. \A k \in DOMAIN a : k \in DOMAIN b /\ 1..a[k] \subseteq 1..b[k]
    BY <1>12
  <2> HIDE DEF a, b
  <2>2. \A k \in DOMAIN a : {k} \X (1..a[k]) \X (1..Weight(k)) \subseteq {k} \X (1..b[k]) \X (1..Weight(k))
    BY <2>1
  <2>3. Units(a) \subseteq Units(b)
    BY <2>1, <2>2 DEF Units
  <2> QED  BY <2>3 DEF a, b
<1>14. Cardinality(Units(Worth(subs, u))) <= Cardinality(Units(Worth(more, u)))
  BY <1>3, <1>13, ScoreNat, FS_Subset
<1>15. Score(more, u) >= Score(subs, u)
  BY <1>3, <1>14, ScoreNat
<1>16. QED
  BY <1>15 DEF more, new

\* Whatever is submitted to whatever problem and however it is judged, the weighted score of
\* the user is at least what it was (weighted_score, in spite of the ranks that shift).
THEOREM ScoresNeverFall == Spec => []ScoreNeverFalls
<1>1. TypeOK => ScoreNeverFalls
  BY NeverFalls DEF ScoreNeverFalls
<1>2. QED
  BY <1>1, AccessTyped, PTL

----------------------------------------------------------------------------
(* The rows of a board, and of the leaderboard. *)

LEMMA LeadersRankable == ASSUME TypeOK PROVE Rankable(Leaders)
<1> DEFINE W == {w \in User : SolvedOn(subs, w) # {}}
           f == [u \in W |-> Leader(u)]
<1>1. IsFiniteSet(W)
  <2>1. W \in SUBSET User
    OBVIOUS
  <2> QED  BY <2>1, AdminAssumption, FS_Subset
<1>2. Leaders = {f[u] : u \in W}
  BY DEF Leaders
<1>3. IsFiniteSet(Leaders)
  <2>1. DOMAIN f = W
    OBVIOUS
  <2> HIDE DEF f, W
  <2> QED  BY <1>1, <1>2, <2>1, ImageFinite
<1>4. Graded(subs)
  BY SubTyped DEF Graded, Sub
<1>5. \A l \in Leaders : /\ l.user \in User /\ l = Leader(l.user)
                         /\ l.key = <<Score(subs, l.user), 0>>
  BY DEF Leaders, Leader
<1>6. \A l \in Leaders : l.key \in Int \X Int
  BY <1>4, <1>5, ScoreNat
<1>7. QED
  BY <1>3, <1>5, <1>6 DEF Rankable

\* The submissions all, as far as a board looks at them.
Entered(all) ==
    /\ DOMAIN all \subseteq Nat /\ IsFiniteSet(DOMAIN all)
    /\ \A i \in DOMAIN all : /\ all[i].user \in User /\ all[i].at \in Nat
                             /\ Gained(all[i]) \in 0..100

LEMMA SubsEntered == ASSUME TypeOK PROVE Entered(subs)
BY SubTyped DEF Entered, Sub

LEMMA EntriesFinite ==
    ASSUME NEW all, Entered(all), NEW c
    PROVE  IsFiniteSet(Entries(c, all)) /\ Entries(c, all) \subseteq Nat
<1>1. Entries(c, all) \in SUBSET DOMAIN all
  BY DEF Entries
<1>2. QED
  BY <1>1, FS_Subset DEF Entered

\* What the judged attempts of a cell come to is numbers.
LEMMA ResultTyped ==
    ASSUME NEW c \in Contest, NEW all, Entered(all), NEW J \in SUBSET Entries(c, all)
    PROVE  /\ Result(c, all, J).score \in Nat /\ Result(c, all, J).last \in Nat
           /\ Result(c, all, J).penalty \in Nat
<1>1. IsFiniteSet(J) /\ J \subseteq Nat
  BY EntriesFinite, FS_Subset
<1>2. \A i \in J : /\ Gained(all[i]) \in 0..100
                   /\ all[i].at \in Nat /\ all[i].at - Terms[c].starts \in Nat
  <2>1. Terms[c].starts \in Nat
    BY TermsAssumption
  <2> QED  BY <2>1 DEF Entries, Entered
<1>3. CASE Terms[c].ioi
  <2> DEFINE score == Most(all, J)
             best == {i \in J : Gained(all[i]) = score}
             first == Min(best)
  <2>1. score \in Nat /\ (score = 0 \/ best # {})
    BY <1>2, MostOf
  <2>2. best \subseteq Nat
    BY <1>1
  <2>3. score # 0 => first \in J
    <3> SUFFICES ASSUME score # 0 PROVE first \in best
      OBVIOUS
    <3>1. best # {}
      BY <2>1
    <3> HIDE DEF best
    <3> QED  BY <2>2, <3>1, MinOf
  <2>4. Result(c, all, J)
          = [attempts |-> Cardinality(J), solved |-> score = 100, score |-> score, penalty |-> 0,
             last |-> IF score = 0 THEN 0 ELSE all[first].at - Terms[c].starts]
    BY <1>3 DEF Result, IoiCell, Most
  <2> HIDE DEF score, first, best
  <2>5. QED
    BY <2>1, <2>3, <2>4, <1>2
<1>4. CASE ~Terms[c].ioi
  <2> DEFINE accepted == {i \in J : all[i].verdict = "AC"}
             first == Min(accepted)
             attempts == {i \in J : accepted # {} => i <= first}
             time == all[first].at - Terms[c].starts
             rejected == Cardinality(attempts) - 1
  <2>1. accepted # {} => first \in accepted
    <3>1. accepted \subseteq Nat
      BY <1>1
    <3> HIDE DEF accepted
    <3> QED  BY <3>1, MinOf
  <2>2. accepted # {} => first \in attempts /\ first \in J
    <3>1. accepted # {} => first \in J /\ first \in Nat
      <4>1. accepted \subseteq J
        OBVIOUS
      <4> HIDE DEF accepted, first
      <4> QED  BY <2>1, <1>1, <4>1
    <3> HIDE DEF accepted, first
    <3> QED  BY <3>1
  <2>3. IsFiniteSet(attempts) /\ Cardinality(attempts) \in Nat
    <3>1. attempts \in SUBSET J
      OBVIOUS
    <3> HIDE DEF attempts
    <3> QED  BY <3>1, <1>1, FS_Subset, FS_CardinalityType
  <2>4. accepted # {} => Cardinality(attempts) # 0
    <3> HIDE DEF attempts, first
    <3> QED  BY <2>2, <2>3, FS_EmptySet
  <2>5. Result(c, all, J)
          = [attempts |-> Cardinality(attempts), solved |-> accepted # {}, score |-> 0,
             penalty |-> IF accepted = {} THEN 0 ELSE time + Terms[c].penalty * rejected,
             last |-> 0]
    BY <1>4 DEF Result, IcpcCell
  <2>6. accepted # {} => time \in Nat /\ rejected \in Nat
    <3>1. accepted # {} => time \in Nat
      <4> HIDE DEF first, attempts
      <4> QED  BY <1>2, <2>2
    <3> HIDE DEF attempts, accepted, time
    <3> QED  BY <2>3, <2>4, <3>1
  <2>7. accepted # {} => time + Terms[c].penalty * rejected \in Nat
    <3>1. Terms[c].penalty \in Nat
      BY TermsAssumption
    <3> HIDE DEF attempts, accepted, time, rejected
    <3>2. \A a, b, d \in Nat : a + b * d \in Nat
      OBVIOUS
    <3> QED  BY <2>6, <3>1, <3>2
  <2> HIDE DEF attempts, accepted, time, rejected
  <2>8. QED
    BY <2>5, <2>7
<1>5. QED
  BY <1>3, <1>4

\* What counts in a cell.
Judgings(c, reveal, all, u, p) ==
    {i \in Attempts(c, all, u, p) : all[i].at < FrozenFrom(c, reveal) /\ Judged(all[i])}

LEMMA CellIs ==
    ASSUME NEW c, NEW reveal, NEW all, NEW u, NEW p \in Problem
    PROVE  /\ Cells(c, reveal, all, u)[p].result = Result(c, all, Judgings(c, reveal, all, u, p))
           /\ Judgings(c, reveal, all, u, p) \in SUBSET Entries(c, all)
<1>1. Cells(c, reveal, all, u)[p].result = Result(c, all, Judgings(c, reveal, all, u, p))
  BY DEF Cells, Cell, Judgings
<1>2. Judgings(c, reveal, all, u, p) \in SUBSET Entries(c, all)
  BY DEF Judgings, Attempts
<1>3. QED
  BY <1>1, <1>2

\* The key of a row is two natural numbers.
LEMMA KeyTyped ==
    ASSUME NEW c \in Contest, NEW reveal, NEW all, Entered(all), NEW u
    PROVE  Row(c, reveal, all, u).key \in Nat \X Nat
<1> DEFINE cells == Cells(c, reveal, all, u)
           scores == [p \in Problem |-> cells[p].result.score]
           penalties == [p \in Problem |-> cells[p].result.penalty]
           lasts == {0} \cup {cells[p].result.last : p \in Problem}
           solved == {p \in Problem : cells[p].result.solved}
<1>1. \A p \in Problem : /\ cells[p].result.score \in Nat /\ cells[p].result.last \in Nat
                         /\ cells[p].result.penalty \in Nat
  <2> SUFFICES ASSUME NEW p \in Problem
               PROVE  /\ cells[p].result.score \in Nat /\ cells[p].result.last \in Nat
                      /\ cells[p].result.penalty \in Nat
    OBVIOUS
  <2> HIDE DEF cells
  <2> QED  BY CellIs, ResultTyped DEF cells
<1> HIDE DEF cells
<1>2. Total(scores) \in Nat /\ Total(penalties) \in Nat
  <2>1. /\ IsFiniteSet(DOMAIN scores) /\ \A p \in DOMAIN scores : scores[p] \in Nat
        /\ IsFiniteSet(DOMAIN penalties) /\ \A p \in DOMAIN penalties : penalties[p] \in Nat
    BY <1>1, WorthAssumption
  <2> HIDE DEF scores, penalties
  <2> QED  BY <2>1, PointsFinite
<1>3. Max(lasts) \in Nat
  <2> DEFINE f == [p \in Problem |-> cells[p].result.last]
             S == {f[p] : p \in Problem}
  <2>1. IsFiniteSet(S)
    <3>1. DOMAIN f = Problem
      OBVIOUS
    <3> HIDE DEF f
    <3> QED  BY <3>1, WorthAssumption, ImageFinite
  <2>2. lasts = S \cup {0}
    OBVIOUS
  <2>3. IsFiniteSet(lasts)
    <3> HIDE DEF S, lasts
    <3> QED  BY <2>1, <2>2, FS_AddElement
  <2>4. lasts \subseteq Nat /\ lasts # {}
    BY <1>1
  <2> HIDE DEF lasts
  <2> QED  BY <2>3, <2>4, MaxOf
<1>4. Cardinality(solved) \in Nat
  <2>1. solved \in SUBSET Problem
    OBVIOUS
  <2> HIDE DEF solved
  <2> QED  BY <2>1, WorthAssumption, FS_Subset, FS_CardinalityType
<1>5. Row(c, reveal, all, u).key
        = IF Terms[c].ioi THEN <<Total(scores), Max(lasts)>>
          ELSE <<Cardinality(solved), Total(penalties)>>
  BY DEF Row, Key, cells
<1> HIDE DEF scores, penalties, lasts, solved
<1>6. QED
  BY <1>2, <1>3, <1>4, <1>5

LEMMA RowsRankable ==
    ASSUME NEW c \in Contest, NEW reveal, NEW all, Entered(all)
    PROVE  Rankable(Rows(c, reveal, all))
<1> DEFINE rows == Rows(c, reveal, all)
           E == Entries(c, all)
           f == [i \in E |-> Row(c, reveal, all, all[i].user)]
<1>1. IsFiniteSet(rows)
  <2>1. rows = {f[i] : i \in E}
    BY DEF Rows
  <2>2. DOMAIN f = E
    OBVIOUS
  <2>3. IsFiniteSet(E)
    BY EntriesFinite
  <2> HIDE DEF f, E, rows
  <2> QED  BY <2>1, <2>2, <2>3, ImageFinite
<1>2. \A r \in rows : r.user \in {all[i].user : i \in E} /\ r = Row(c, reveal, all, r.user)
  BY RowIs
<1>3. \A r \in rows : r.user \in User
  BY <1>2 DEF Entries, Entered
<1>4. \A r \in rows : r.key \in Int \X Int
  <2> SUFFICES ASSUME NEW r \in rows PROVE r.key \in Int \X Int
    OBVIOUS
  <2>1. r.key = Row(c, reveal, all, r.user).key
    BY <1>2
  <2>2. r.key \in Nat \X Nat
    BY <2>1, KeyTyped
  <2>3. Nat \X Nat \subseteq Int \X Int
    OBVIOUS
  <2> QED  BY <2>2, <2>3
<1>5. QED
  <2> HIDE DEF rows
  <2>1. \A r, s \in rows : r.user = s.user => r = s
    BY <1>2
  <2> QED  BY <1>1, <1>3, <1>4, <2>1 DEF Rankable, rows

LEMMA RankedIs ==
    ASSUME NEW rows, Rankable(rows), NEW x \in Ranked(rows)
    PROVE  x.rank = 1 + Cardinality({s \in rows : Better(s.key, x.key)})
<1>1. PICK r \in rows :
        x = [user |-> r.user, key |-> r.key,
             rank |-> Min({i \in DOMAIN InOrder(rows) : InOrder(rows)[i].key = r.key})]
  BY DEF Ranked
<1>2. x.key = r.key
      /\ x.rank = Min({i \in DOMAIN InOrder(rows) : InOrder(rows)[i].key = r.key})
  BY <1>1
<1>3. QED
  BY <1>2, RankIs

\* On every board and on the leaderboard a rank is one more than the rows that are strictly
\* better (the loops of scoreboard and leaderboard, which compare a row with the one above).
THEOREM RanksAreStandard == Spec => []RanksStandard
<1>1. TypeOK => RanksStandard
  <2> SUFFICES ASSUME TypeOK,
                      NEW rows \in {Leaders} \cup {Rows(c, FALSE, subs) : c \in Contest},
                      NEW r \in Ranked(rows)
               PROVE  r.rank = 1 + Cardinality({s \in rows : Better(s.key, r.key)})
    BY DEF RanksStandard
  <2>1. Rankable(rows)
    BY LeadersRankable, RowsRankable, SubsEntered
  <2> QED  BY <2>1, RankedIs
<1>2. QED
  BY <1>1, AccessTyped, PTL

----------------------------------------------------------------------------
(* The freeze. *)

\* A result depends on the attempts that count, and on nothing else.
LEMMA ResultSame ==
    ASSUME NEW c, NEW all, NEW more, NEW J \in SUBSET Nat,
           \A i \in J : all[i] = more[i] /\ Gained(all[i]) \in 0..100
    PROVE  Result(c, all, J) = Result(c, more, J)
<1>1. CASE Terms[c].ioi
  <2> DEFINE score == Most(all, J)
             best == Min({i \in J : Gained(all[i]) = score})
  <2>1. {Gained(all[i]) : i \in J} = {Gained(more[i]) : i \in J}
    OBVIOUS
  <2>2. Most(more, J) = score
    BY <2>1 DEF Most
  <2>3. score = 0 \/ best \in J
    <3>1. score = 0 \/ {i \in J : Gained(all[i]) = score} # {}
      <4>1. score = 0 \/ \E i \in J : Gained(all[i]) = score
        BY MostOf
      <4> HIDE DEF score
      <4> QED  BY <4>1
    <3>2. {i \in J : Gained(all[i]) = score} \subseteq Nat
      OBVIOUS
    <3> HIDE DEF score
    <3>3. CASE score = 0
      BY <3>3
    <3>4. CASE score # 0
      <4> DEFINE S == {i \in J : Gained(all[i]) = score}
      <4>1. S # {} /\ S \subseteq Nat /\ S \subseteq J
        BY <3>1, <3>2, <3>4
      <4>2. best = Min(S)
        OBVIOUS
      <4> HIDE DEF S, best
      <4> QED  BY <4>1, <4>2, MinOf
    <3> QED  BY <3>3, <3>4
  <2>4. {i \in J : Gained(all[i]) = score} = {i \in J : Gained(more[i]) = score}
    <3> HIDE DEF score
    <3> QED  OBVIOUS
  <2>5. Result(c, all, J)
          = [attempts |-> Cardinality(J), solved |-> score = 100, score |-> score, penalty |-> 0,
             last |-> IF score = 0 THEN 0 ELSE all[best].at - Terms[c].starts]
    BY <1>1 DEF Result, IoiCell, Most
  <2>6. Result(c, more, J)
          = [attempts |-> Cardinality(J), solved |-> score = 100, score |-> score, penalty |-> 0,
             last |-> IF score = 0 THEN 0 ELSE more[best].at - Terms[c].starts]
    <3>1. Result(c, more, J)
            = [attempts |-> Cardinality(J), solved |-> Most(more, J) = 100,
               score |-> Most(more, J), penalty |-> 0,
               last |-> IF Most(more, J) = 0 THEN 0
                        ELSE more[Min({i \in J : Gained(more[i]) = Most(more, J)})].at
                               - Terms[c].starts]
      BY <1>1 DEF Result, IoiCell, Most
    <3> HIDE DEF score
    <3> QED  BY <2>2, <2>4, <3>1
  <2> HIDE DEF score, best
  <2> QED  BY <2>3, <2>5, <2>6
<1>2. CASE ~Terms[c].ioi
  <2> DEFINE accepted == {i \in J : all[i].verdict = "AC"}
             first == Min(accepted)
             attempts == {i \in J : accepted # {} => i <= first}
  <2>1. accepted = {i \in J : more[i].verdict = "AC"}
    OBVIOUS
  <2>2. accepted # {} => first \in J
    <3>1. accepted \subseteq Nat /\ accepted \subseteq J
      OBVIOUS
    <3> HIDE DEF accepted
    <3> QED  BY <3>1, MinOf
  <2>3. Result(c, all, J)
          = [attempts |-> Cardinality(attempts), solved |-> accepted # {}, score |-> 0,
             penalty |-> IF accepted = {} THEN 0
                         ELSE all[first].at - Terms[c].starts
                                + Terms[c].penalty * (Cardinality(attempts) - 1),
             last |-> 0]
    BY <1>2 DEF Result, IcpcCell
  <2>4. Result(c, more, J)
          = [attempts |-> Cardinality(attempts), solved |-> accepted # {}, score |-> 0,
             penalty |-> IF accepted = {} THEN 0
                         ELSE more[first].at - Terms[c].starts
                                + Terms[c].penalty * (Cardinality(attempts) - 1),
             last |-> 0]
    <3> DEFINE theirs == {i \in J : more[i].verdict = "AC"}
    <3>1. Result(c, more, J)
            = [attempts |-> Cardinality({i \in J : theirs # {} => i <= Min(theirs)}),
               solved |-> theirs # {}, score |-> 0,
               penalty |-> IF theirs = {} THEN 0
                           ELSE more[Min(theirs)].at - Terms[c].starts
                                  + Terms[c].penalty
                                      * (Cardinality({i \in J : theirs # {} => i <= Min(theirs)}) - 1),
               last |-> 0]
      BY <1>2 DEF Result, IcpcCell
    <3>2. theirs = accepted
      BY <2>1
    <3> HIDE DEF theirs, accepted
    <3> QED  BY <3>1, <3>2
  <2> HIDE DEF accepted, first, attempts
  <2> QED  BY <2>2, <2>3, <2>4
<1>3. QED
  BY <1>1, <1>2

LEMMA CellSame ==
    ASSUME NEW c, NEW frozen, NEW all, NEW more, NEW A \in SUBSET Nat,
           \A i \in A : /\ all[i].at = more[i].at /\ Gained(all[i]) \in 0..100
                        /\ all[i].at < frozen => all[i] = more[i]
    PROVE  Cell(c, frozen, all, A) = Cell(c, frozen, more, A)
<1> DEFINE J == {i \in A : all[i].at < frozen /\ Judged(all[i])}
<1>1. J = {i \in A : more[i].at < frozen /\ Judged(more[i])}
  OBVIOUS
<1>2. Result(c, all, J) = Result(c, more, J)
  <2>1. J \in SUBSET Nat /\ \A i \in J : all[i] = more[i] /\ Gained(all[i]) \in 0..100
    OBVIOUS
  <2> HIDE DEF J
  <2> QED  BY <2>1, ResultSame
<1>3. (\E i \in A : all[i].at < frozen /\ ~Judged(all[i]))
        <=> (\E i \in A : more[i].at < frozen /\ ~Judged(more[i]))
  OBVIOUS
<1>4. {i \in A : all[i].at >= frozen} = {i \in A : more[i].at >= frozen}
  OBVIOUS
<1>5. Cell(c, frozen, all, A)
        = [result |-> Result(c, all, J),
           pending |-> \E i \in A : all[i].at < frozen /\ ~Judged(all[i]),
           frozen |-> Cardinality({i \in A : all[i].at >= frozen})]
  BY DEF Cell
<1>6. Cell(c, frozen, more, A)
        = [result |-> Result(c, more, {i \in A : more[i].at < frozen /\ Judged(more[i])}),
           pending |-> \E i \in A : more[i].at < frozen /\ ~Judged(more[i]),
           frozen |-> Cardinality({i \in A : more[i].at >= frozen})]
  BY DEF Cell
<1>7. Result(c, more, {i \in A : more[i].at < frozen /\ Judged(more[i])}) = Result(c, all, J)
  <2> HIDE DEF J
  <2> QED  BY <1>1, <1>2
<1>8. QED
  <2> HIDE DEF J
  <2> QED  BY <1>3, <1>4, <1>5, <1>6, <1>7

\* While the board is frozen, its moment is the contest's.
LEMMA FrozenAt ==
    ASSUME TypeOK, NEW c \in Contest, Frozen(c)
    PROVE  /\ FrozenFrom(c, FALSE) = FreezeMoment(c) /\ FreezeMoment(c) \in Int
           /\ Running(c) /\ c \in Live
<1>1. FrozenFrom(c, FALSE) = FreezeMoment(c) /\ Running(c)
  BY DEF Frozen, FrozenFrom, FreezeMoment
<1>2. FreezeMoment(c) \in Int
  BY Times DEF FreezeMoment
<1>3. QED
  BY <1>1, <1>2 DEF Live

\* What is found of a later submission changes nothing on the frozen board.
LEMMA BoardSame ==
    ASSUME TypeOK, NEW c \in Contest, Frozen(c), NEW i \in Sub, InTheFreeze(i, c),
           NEW r \in Results
    PROVE  Board(c, Nobody, subs)
             = Board(c, Nobody, [subs EXCEPT ![i].verdict = r.verdict, ![i].earned = r.earned,
                                            ![i].share = r.share])
<1> DEFINE more == [subs EXCEPT ![i].verdict = r.verdict, ![i].earned = r.earned,
                                            ![i].share = r.share]
           F == FrozenFrom(c, FALSE)
<1>1. /\ DOMAIN more = DOMAIN subs
      /\ \A j \in DOMAIN subs : /\ j # i => more[j] = subs[j]
                                /\ more[j].user = subs[j].user
                                /\ more[j].problem = subs[j].problem
                                /\ more[j].contest = subs[j].contest
                                /\ more[j].at = subs[j].at
  <2>1. \A j \in DOMAIN subs : j # i => more[j] = subs[j]
    OBVIOUS
  <2>2. more[i] = [subs[i] EXCEPT !.verdict = r.verdict, !.earned = r.earned, !.share = r.share]
    BY DEF Sub
  <2>3. subs[i] \in Submissions
    BY SubTyped
  <2>4. /\ more[i].user = subs[i].user /\ more[i].problem = subs[i].problem
        /\ more[i].contest = subs[i].contest /\ more[i].at = subs[i].at
    <3> HIDE DEF more
    <3> QED  BY <2>2, <2>3 DEF Submissions
  <2>5. DOMAIN more = DOMAIN subs
    OBVIOUS
  <2> HIDE DEF more
  <2> QED  BY <2>1, <2>4, <2>5
<1>2. subs[i].at >= F
  BY FrozenAt DEF InTheFreeze
<1>3. \A j \in Sub : subs[j].at \in Nat /\ Gained(subs[j]) \in 0..100 /\ j \in Nat
  BY SubTyped
<1> HIDE DEF more
<1>4. \A j \in DOMAIN subs : subs[j].at < F => more[j] = subs[j]
  <2>1. F \in Int /\ subs[i].at \in Nat
    BY <1>3, FrozenAt
  <2> HIDE DEF F
  <2> QED  BY <1>1, <1>2, <1>3, <2>1 DEF Sub
<1>5. Entries(c, more) = Entries(c, subs)
  BY <1>1 DEF Entries
<1>6. ASSUME NEW u, NEW p PROVE Attempts(c, more, u, p) = Attempts(c, subs, u, p)
  BY <1>1, <1>5 DEF Attempts, Entries
<1>7. ASSUME NEW u PROVE Row(c, FALSE, more, u) = Row(c, FALSE, subs, u)
  <2>1. ASSUME NEW p \in Problem
        PROVE  Cell(c, F, subs, Attempts(c, subs, u, p)) = Cell(c, F, more, Attempts(c, more, u, p))
    <3> DEFINE A == Attempts(c, subs, u, p)
    <3>1. A \in SUBSET Nat /\ \A j \in A : j \in DOMAIN subs
      BY <1>3 DEF Attempts, Entries, Sub
    <3>2. \A j \in A : /\ subs[j].at = more[j].at /\ Gained(subs[j]) \in 0..100
                       /\ subs[j].at < F => subs[j] = more[j]
      <4> HIDE DEF A, F
      <4> QED  BY <3>1, <1>1, <1>3, <1>4 DEF Sub
    <3>3. Cell(c, F, subs, A) = Cell(c, F, more, A)
      <4> HIDE DEF A, F
      <4> QED  BY <3>1, <3>2, CellSame
    <3> QED  BY <3>3, <1>6
  <2>2. Cells(c, FALSE, subs, u) = Cells(c, FALSE, more, u)
    BY <2>1 DEF Cells
  <2> QED  BY <2>2 DEF Row
<1>8. Rows(c, FALSE, more) = Rows(c, FALSE, subs)
  <2>1. \A j \in Entries(c, subs) : more[j].user = subs[j].user
    BY <1>1 DEF Entries
  <2> QED  BY <1>5, <1>7, <2>1 DEF Rows
<1>9. Nobody.admin = FALSE
  BY DEF Nobody
<1>10. Board(c, Nobody, more) = Board(c, Nobody, subs)
  BY <1>8, <1>9 DEF Board
<1>11. QED
  BY <1>10 DEF more

\* Nobody but its author sees one of a contest that runs.
LEMMA LiveHidden ==
    ASSUME NEW i \in Sub, subs[i].contest \in Live, NEW v \in Members, ~Own(i, v)
    PROVE  ~Lists(i, v) /\ ~MayRead(i, v) /\ ~Ranks(i, v) /\ ~Counts(i, v)
BY DEF Members, Lists, MayRead, Ranks, Counts

\* A row whose first key is 0 has 0 for the second, and so has the row of one nothing counts
\* for.
LEMMA ResultZero ==
    ASSUME NEW c \in Contest, NEW all, Entered(all), NEW J \in SUBSET Entries(c, all)
    PROVE  IF Terms[c].ioi
           THEN /\ Result(c, all, J).score = 0 => Result(c, all, J).last = 0
                /\ J = {} => Result(c, all, J).score = 0
           ELSE /\ ~Result(c, all, J).solved => Result(c, all, J).penalty = 0
                /\ J = {} => ~Result(c, all, J).solved
<1>1. CASE Terms[c].ioi
  <2> DEFINE score == Most(all, J)
  <2>1. \A i \in J : Gained(all[i]) \in 0..100
    BY DEF Entries, Entered
  <2>2. J = {} => score = 0
    BY <2>1, MostOf
  <2>3. Result(c, all, J).score = score /\ (score = 0 => Result(c, all, J).last = 0)
    BY <1>1 DEF Result, IoiCell, Most
  <2> HIDE DEF score
  <2> QED  BY <1>1, <2>2, <2>3
<1>2. CASE ~Terms[c].ioi
  BY <1>2 DEF Result, IcpcCell
<1>3. QED
  BY <1>1, <1>2

LEMMA KeyZero ==
    ASSUME NEW c \in Contest, NEW reveal, NEW all, Entered(all), NEW u
    PROVE  /\ Row(c, reveal, all, u).key[1] = 0 => Row(c, reveal, all, u).key[2] = 0
           /\ (\A p \in Problem : Judgings(c, reveal, all, u, p) = {})
                 => Row(c, reveal, all, u).key[1] = 0
<1> DEFINE cells == Cells(c, reveal, all, u)
           scores == [p \in Problem |-> cells[p].result.score]
           penalties == [p \in Problem |-> cells[p].result.penalty]
           lasts == {0} \cup {cells[p].result.last : p \in Problem}
           solved == {p \in Problem : cells[p].result.solved}
           none == \A p \in Problem : Judgings(c, reveal, all, u, p) = {}
<1>1. \A p \in Problem : cells[p].result.score \in Nat /\ cells[p].result.penalty \in Nat
  <2> HIDE DEF cells
  <2> QED  BY CellIs, ResultTyped DEF cells
<1>2. Row(c, reveal, all, u).key
        = IF Terms[c].ioi THEN <<Total(scores), Max(lasts)>>
          ELSE <<Cardinality(solved), Total(penalties)>>
  BY DEF Row, Key
<1>3. CASE Terms[c].ioi
  <2>1. \A p \in Problem : /\ cells[p].result.score = 0 => cells[p].result.last = 0
                           /\ none => cells[p].result.score = 0
    BY <1>3, CellIs, ResultZero
  <2> HIDE DEF cells, none
  <2>2. Total(scores) = 0 <=> \A p \in Problem : cells[p].result.score = 0
    <3>1. /\ DOMAIN scores = Problem /\ IsFiniteSet(DOMAIN scores)
          /\ \A p \in Problem : scores[p] = cells[p].result.score /\ scores[p] \in Nat
      BY <1>1, WorthAssumption
    <3> HIDE DEF scores
    <3> QED  BY <3>1, TotalZero
  <2>3. none => Total(scores) = 0
    BY <2>1, <2>2
  <2>4. Total(scores) = 0 => Max(lasts) = 0
    <3> SUFFICES ASSUME Total(scores) = 0 PROVE Max(lasts) = 0
      OBVIOUS
    <3>1. \A p \in Problem : cells[p].result.last = 0
      BY <2>1, <2>2
    <3>2. lasts = {0}
      BY <3>1
    <3>3. Max({0}) = 0
      <4>1. IsFiniteSet({0})
        BY FS_Singleton
      <4>2. {0} \subseteq Nat /\ {0} # {}
        OBVIOUS
      <4> QED  BY <4>1, <4>2, MaxOf
    <3> HIDE DEF lasts
    <3> QED  BY <3>2, <3>3
  <2> HIDE DEF scores, lasts
  <2> QED  BY <1>2, <1>3, <2>3, <2>4 DEF none
<1>4. CASE ~Terms[c].ioi
  <2>1. \A p \in Problem : /\ ~cells[p].result.solved => cells[p].result.penalty = 0
                           /\ none => ~cells[p].result.solved
    BY <1>4, CellIs, ResultZero
  <2> HIDE DEF cells, none
  <2>2. Cardinality(solved) = 0 <=> solved = {}
    <3>1. IsFiniteSet(solved)
      <4>1. solved \in SUBSET Problem
        OBVIOUS
      <4> HIDE DEF solved
      <4> QED  BY <4>1, WorthAssumption, FS_Subset
    <3> HIDE DEF solved
    <3> QED  BY <3>1, FS_EmptySet
  <2>3. none => Cardinality(solved) = 0
    BY <2>1, <2>2
  <2>4. solved = {} => Total(penalties) = 0
    <3> SUFFICES ASSUME solved = {} PROVE Total(penalties) = 0
      OBVIOUS
    <3>1. /\ DOMAIN penalties = Problem /\ IsFiniteSet(DOMAIN penalties)
          /\ \A p \in Problem : penalties[p] = cells[p].result.penalty /\ penalties[p] \in Nat
      BY <1>1, WorthAssumption
    <3>2. \A p \in Problem : penalties[p] = 0
      BY <2>1, <3>1
    <3> HIDE DEF penalties
    <3> QED  BY <3>1, <3>2, TotalZero
  <2> HIDE DEF solved, penalties
  <2> QED  BY <1>2, <1>4, <2>2, <2>3, <2>4 DEF none
<1>5. QED
  BY <1>3, <1>4

\* The rows that are better, by the users they are of.
LEMMA BetterUsers ==
    ASSUME NEW rows, Rankable(rows), NEW k
    PROVE  Cardinality({s \in rows : Better(s.key, k)})
             = Cardinality({u \in User : \E s \in rows : s.user = u /\ Better(s.key, k)})
<1> DEFINE B == {s \in rows : Better(s.key, k)}
           W == {u \in User : \E s \in rows : s.user = u /\ Better(s.key, k)}
           f == [s \in B |-> s.user]
<1>1. IsFiniteSet(B)
  <2>1. B \in SUBSET rows
    OBVIOUS
  <2> HIDE DEF B
  <2> QED  BY <2>1, FS_Subset DEF Rankable
<1>2. f \in [B -> W]
  BY DEF Rankable
<1>3. \A s, t \in B : f[s] = f[t] => s = t
  BY DEF Rankable
<1>4. \A u \in W : \E s \in B : f[s] = u
  BY DEF Rankable
<1>5. f \in Bijection(B, W)
  <2> HIDE DEF f, B, W
  <2> QED  BY <1>2, <1>3, <1>4 DEF Bijection, Injection, Surjection, IsInjective
<1>6. ExistsBijection(B, W)
  <2> HIDE DEF f, B, W
  <2> QED  BY <1>5 DEF ExistsBijection
<1>7. Cardinality(B) = Cardinality(W)
  <2> HIDE DEF f, B, W
  <2> QED  BY <1>1, <1>6, FS_Bijection
<1>8. QED
  BY <1>7

\* What was submitted before the freeze.
LEMMA EarlierIs ==
    ASSUME TypeOK, NEW c \in Contest, Frozen(c)
    PROVE  /\ Entered(Earlier(c))
           /\ Entries(c, Earlier(c)) = {i \in Entries(c, subs) : subs[i].at < FreezeMoment(c)}
           /\ \A i \in Entries(c, Earlier(c)) : Earlier(c)[i] = subs[i]
<1>1. /\ DOMAIN Earlier(c) = {j \in Sub : subs[j].at < FreezeMoment(c)}
      /\ \A i \in DOMAIN Earlier(c) : i \in Sub /\ Earlier(c)[i] = subs[i]
  BY DEF Earlier
<1>2. DOMAIN Earlier(c) \in SUBSET Sub
  BY <1>1
<1>3. Entered(Earlier(c))
  <2>1. IsFiniteSet(DOMAIN Earlier(c)) /\ DOMAIN Earlier(c) \subseteq Nat
    BY <1>2, SubTyped, FS_Subset
  <2>2. \A i \in DOMAIN Earlier(c) : /\ Earlier(c)[i].user \in User /\ Earlier(c)[i].at \in Nat
                                     /\ Gained(Earlier(c)[i]) \in 0..100
    BY <1>1, SubTyped
  <2> QED  BY <2>1, <2>2 DEF Entered
<1>4. Entries(c, Earlier(c)) = {i \in Entries(c, subs) : subs[i].at < FreezeMoment(c)}
  BY <1>1 DEF Entries, Sub
<1>5. \A i \in Entries(c, Earlier(c)) : Earlier(c)[i] = subs[i]
  BY <1>1 DEF Entries
<1>6. QED
  BY <1>3, <1>4, <1>5

\* What counted when the board froze is what counts on it.
LEMMA EarlierJudgings ==
    ASSUME TypeOK, NEW c \in Contest, Frozen(c), NEW u, NEW p
    PROVE  Judgings(c, TRUE, Earlier(c), u, p) = Judgings(c, FALSE, subs, u, p)
<1> DEFINE E == Entries(c, Earlier(c))
<1>1. /\ \A i \in E : Earlier(c)[i] = subs[i]
      /\ \A i : i \in E <=> i \in Entries(c, subs) /\ subs[i].at < FrozenFrom(c, FALSE)
  BY EarlierIs, FrozenAt
<1>2. \A i \in Entries(c, subs) : subs[i].at < FrozenFrom(c, TRUE)
  BY NothingFrozen DEF Entries, Sub
<1> HIDE DEF E
<1>3. ASSUME NEW i
      PROVE  i \in Judgings(c, TRUE, Earlier(c), u, p) <=> i \in Judgings(c, FALSE, subs, u, p)
  BY <1>1, <1>2 DEF Judgings, Attempts, E
<1>4. QED
  BY <1>3

\* The same rows have the same keys.
LEMMA EarlierKey ==
    ASSUME TypeOK, NEW c \in Contest, Frozen(c), NEW u
    PROVE  Row(c, TRUE, Earlier(c), u).key = Row(c, FALSE, subs, u).key
<1> DEFINE a == Cells(c, TRUE, Earlier(c), u)
           b == Cells(c, FALSE, subs, u)
<1>1. ASSUME NEW p \in Problem PROVE a[p].result = b[p].result
  <2> DEFINE J == Judgings(c, FALSE, subs, u, p)
  <2>1. a[p].result = Result(c, Earlier(c), J) /\ b[p].result = Result(c, subs, J)
    <3>1. Judgings(c, TRUE, Earlier(c), u, p) = J
      BY EarlierJudgings
    <3>2. a[p].result = Result(c, Earlier(c), Judgings(c, TRUE, Earlier(c), u, p))
      BY CellIs
    <3>3. b[p].result = Result(c, subs, J)
      BY CellIs
    <3> QED  BY <3>1, <3>2, <3>3
  <2>2. J \in SUBSET Entries(c, Earlier(c))
    BY CellIs, EarlierJudgings
  <2>3. J \in SUBSET Nat /\ \A i \in J : Earlier(c)[i] = subs[i] /\ Gained(Earlier(c)[i]) \in 0..100
    BY <2>2, EarlierIs, EntriesFinite DEF Entered, Entries
  <2>4. Result(c, Earlier(c), J) = Result(c, subs, J)
    <3> HIDE DEF J
    <3> QED  BY <2>3, ResultSame
  <2> QED  BY <2>1, <2>4
<1> HIDE DEF a, b
<1>2. /\ [p \in Problem |-> a[p].result.score] = [p \in Problem |-> b[p].result.score]
      /\ [p \in Problem |-> a[p].result.penalty] = [p \in Problem |-> b[p].result.penalty]
      /\ {a[p].result.last : p \in Problem} = {b[p].result.last : p \in Problem}
      /\ {p \in Problem : a[p].result.solved} = {p \in Problem : b[p].result.solved}
  BY <1>1
<1>3. Key(c, a) = Key(c, b)
  BY <1>2 DEF Key
<1>4. QED
  BY <1>3 DEF Row, a, b

\* Whoever was on the board is on it, with the same key and the same rank.
LEMMA StandingsKept ==
    ASSUME TypeOK, NEW c \in Contest, Frozen(c)
    PROVE  Ranked(Rows(c, TRUE, Earlier(c))) \subseteq Ranked(Rows(c, FALSE, subs))
<1> DEFINE then == Rows(c, TRUE, Earlier(c))
           rows == Rows(c, FALSE, subs)
           key(u) == Row(c, FALSE, subs, u).key
<1>1. Rankable(then) /\ Rankable(rows)
  BY EarlierIs, SubsEntered, RowsRankable
<1>2. \A s \in then : /\ s.user \in {subs[i].user : i \in Entries(c, Earlier(c))}
                      /\ s.key = key(s.user)
  <2>1. ASSUME NEW s \in then
        PROVE  /\ s.user \in {Earlier(c)[i].user : i \in Entries(c, Earlier(c))}
               /\ s = Row(c, TRUE, Earlier(c), s.user)
    <3>1. PICK i \in Entries(c, Earlier(c)) : s = Row(c, TRUE, Earlier(c), Earlier(c)[i].user)
      BY DEF Rows
    <3>2. s.user = Earlier(c)[i].user
      BY <3>1 DEF Row
    <3> QED  BY <3>1, <3>2
  <2>2. {Earlier(c)[i].user : i \in Entries(c, Earlier(c))}
          = {subs[i].user : i \in Entries(c, Earlier(c))}
    BY EarlierIs
  <2> HIDE DEF then, key
  <2> QED  BY <2>1, <2>2, EarlierKey DEF key
<1>3. ASSUME NEW s \in rows PROVE s.key = key(s.user)
  <2>1. PICK i \in Entries(c, subs) : s = Row(c, FALSE, subs, subs[i].user)
    BY DEF Rows
  <2>2. s.user = subs[i].user
    BY <2>1 DEF Row
  <2> QED  BY <2>1, <2>2
<1>4. \A i \in Entries(c, Earlier(c)) :
         /\ \E s \in then : s.user = subs[i].user
         /\ \E s \in rows : s.user = subs[i].user
  <2> SUFFICES ASSUME NEW i \in Entries(c, Earlier(c))
               PROVE  /\ \E s \in then : s.user = subs[i].user
                      /\ \E s \in rows : s.user = subs[i].user
    OBVIOUS
  <2>1. i \in Entries(c, subs) /\ Earlier(c)[i] = subs[i]
    BY EarlierIs
  <2>2. Row(c, TRUE, Earlier(c), subs[i].user) \in then
    BY <2>1 DEF Rows
  <2>3. Row(c, FALSE, subs, subs[i].user) \in rows
    BY <2>1 DEF Rows
  <2>4. /\ Row(c, TRUE, Earlier(c), subs[i].user).user = subs[i].user
        /\ Row(c, FALSE, subs, subs[i].user).user = subs[i].user
    BY DEF Row
  <2> HIDE DEF then, rows
  <2> QED  BY <2>2, <2>3, <2>4
<1>5. \A u : key(u) \in Nat \X Nat /\ (key(u)[1] = 0 => key(u)[2] = 0)
  BY SubsEntered, KeyTyped, KeyZero
<1>6. ASSUME NEW u, key(u)[1] # 0 PROVE \E s \in then : s.user = u
  <2>1. PICK p \in Problem : Judgings(c, FALSE, subs, u, p) # {}
    BY <1>6, SubsEntered, KeyZero
  <2>2. PICK i : i \in Judgings(c, TRUE, Earlier(c), u, p)
    BY <2>1, EarlierJudgings
  <2>3. i \in Entries(c, Earlier(c)) /\ Earlier(c)[i].user = u
    BY <2>2 DEF Judgings, Attempts
  <2>4. subs[i].user = u
    BY <2>3, EarlierIs
  <2> HIDE DEF then
  <2> QED  BY <1>4, <2>3, <2>4
<1> HIDE DEF then, rows, key
<1>7. ASSUME NEW s \in then
      PROVE  {u \in User : \E t \in then : t.user = u /\ Better(t.key, s.key)}
               = {u \in User : \E t \in rows : t.user = u /\ Better(t.key, s.key)}
  <2>1. s.key \in Nat \X Nat /\ (s.key[1] = 0 => s.key[2] = 0)
    BY <1>2, <1>5
  <2>2. ASSUME NEW t \in then, Better(t.key, s.key)
        PROVE  \E w \in rows : w.user = t.user /\ Better(w.key, s.key)
    <3>1. PICK i \in Entries(c, Earlier(c)) : t.user = subs[i].user
      BY <1>2
    <3>2. PICK w \in rows : w.user = t.user
      BY <1>4, <3>1
    <3>3. w.key = t.key
      BY <1>2, <1>3, <3>2
    <3> QED  BY <2>2, <3>2, <3>3
  <2>3. ASSUME NEW t \in rows, Better(t.key, s.key)
        PROVE  \E w \in then : w.user = t.user /\ Better(w.key, s.key)
    <3>1. t.key = key(t.user)
      BY <1>3
    <3>2. t.key \in Nat \X Nat /\ t.key[1] # 0
      <4>1. t.key \in Nat \X Nat
        BY <3>1, <1>5
      <4> QED  BY <4>1, <2>1, <2>3 DEF Better
    <3>3. PICK w \in then : w.user = t.user
      BY <3>1, <3>2, <1>6
    <3>4. w.key = t.key
      BY <1>2, <1>3, <3>3
    <3> QED  BY <2>3, <3>3, <3>4
  <2> QED  BY <2>2, <2>3
<1>8. ASSUME NEW x \in Ranked(then) PROVE x \in Ranked(rows)
  <2>1. PICK s \in then :
          x = [user |-> s.user, key |-> s.key,
               rank |-> Min({i \in DOMAIN InOrder(then) : InOrder(then)[i].key = s.key})]
    BY DEF Ranked
  <2>2. PICK i \in Entries(c, Earlier(c)) : s.user = subs[i].user
    BY <1>2
  <2>3. PICK t \in rows : t.user = s.user
    BY <1>4, <2>2
  <2>4. t.key = s.key
    BY <1>2, <1>3, <2>3
  <2>5. Min({j \in DOMAIN InOrder(then) : InOrder(then)[j].key = s.key})
          = 1 + Cardinality({u \in User : \E w \in then : w.user = u /\ Better(w.key, s.key)})
    <3>1. Cardinality({w \in then : Better(w.key, s.key)})
            = Cardinality({u \in User : \E w \in then : w.user = u /\ Better(w.key, s.key)})
      BY <1>1, BetterUsers
    <3> QED  BY <1>1, <3>1, RankIs
  <2>6. Min({j \in DOMAIN InOrder(rows) : InOrder(rows)[j].key = t.key})
          = 1 + Cardinality({u \in User : \E w \in rows : w.user = u /\ Better(w.key, t.key)})
    <3>1. Cardinality({w \in rows : Better(w.key, t.key)})
            = Cardinality({u \in User : \E w \in rows : w.user = u /\ Better(w.key, t.key)})
      BY <1>1, BetterUsers
    <3> QED  BY <1>1, <3>1, RankIs
  <2>7. x = [user |-> t.user, key |-> t.key,
             rank |-> Min({j \in DOMAIN InOrder(rows) : InOrder(rows)[j].key = t.key})]
    BY <2>1, <2>3, <2>4, <2>5, <2>6, <1>7
  <2> QED  BY <2>7 DEF Ranked
<1>9. QED
  BY <1>8 DEF then, rows

\* While a board is frozen its ranks and scores are those of the moment it froze, and what is
\* submitted later reaches nobody but its author (scoreboard, live_ids).
THEOREM FreezeIsKept == Spec => []FreezeHolds
<1>1. TypeOK => FreezeHolds
  <2> SUFFICES ASSUME TypeOK, NEW c \in Contest, Frozen(c)
               PROVE  LET board == Board(c, Nobody, subs)
                      IN  /\ Ranked(Rows(c, TRUE, Earlier(c))) \subseteq board.standings
                          /\ \A i \in {j \in Sub : InTheFreeze(j, c)} :
                                /\ \A r \in Results :
                                      board = Board(c, Nobody, [subs EXCEPT ![i].verdict = r.verdict,
                                                                            ![i].earned = r.earned,
                                            ![i].share = r.share])
                                /\ \A v \in Members : ~Own(i, v) =>
                                      ~Lists(i, v) /\ ~MayRead(i, v) /\ ~Ranks(i, v) /\ ~Counts(i, v)
    BY DEF FreezeHolds
  <2>1. Board(c, Nobody, subs).standings = Ranked(Rows(c, FALSE, subs))
    BY DEF Board, Nobody
  <2>2. Ranked(Rows(c, TRUE, Earlier(c))) \subseteq Board(c, Nobody, subs).standings
    BY <2>1, StandingsKept
  <2>3. ASSUME NEW i \in Sub, InTheFreeze(i, c), NEW r \in Results
        PROVE  Board(c, Nobody, subs)
                 = Board(c, Nobody, [subs EXCEPT ![i].verdict = r.verdict, ![i].earned = r.earned,
                                            ![i].share = r.share])
    BY <2>3, BoardSame
  <2>4. ASSUME NEW i \in Sub, InTheFreeze(i, c), NEW v \in Members, ~Own(i, v)
        PROVE  ~Lists(i, v) /\ ~MayRead(i, v) /\ ~Ranks(i, v) /\ ~Counts(i, v)
    BY <2>4, FrozenAt, LiveHidden DEF InTheFreeze
  <2> QED  BY <2>2, <2>3, <2>4
<1>2. QED
  BY <1>1, AccessTyped, PTL
===========================================================================
