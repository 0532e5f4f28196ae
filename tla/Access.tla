------------------------------ MODULE Access ------------------------------
(***************************************************************************)
(* Who is shown what.  The pages read the same rows by different routes:   *)
(* the submission list and one submission by its number, a problem's       *)
(* ranking, the activity calendar, the profile, the contest page and its   *)
(* scoreboard.  Each route decides for itself what a viewer may know while *)
(* a contest is ahead, running, frozen or over, and while a problem is     *)
(* hidden.  The state is what the pages are computed from, the actions are *)
(* what changes it, and the pages are functions of the state and a viewer. *)
(* Names, limits, statements and paging are left out.                      *)
(***************************************************************************)
EXTENDS Integers, Sequences, FiniteSets, FiniteSetsExt, Counting

CONSTANTS User,
          Admin,         \* the users with the role "admin"
          Problem,
          WorthOf,       \* problem -> problems.points
          DECAY,         \* the weight of a problem by that of the one above it: <<n, d>> for n/d
          Name,          \* usernames and slugs, by their places in the alphabet
          Contest,
          FirstConfirmed, FirstVisible, FirstSet,  \* what is found at first
          NewSets,       \* the sets an administrator may give a contest
          Terms,         \* contest -> starts, ends, rated, ioi, freeze, penalty
          Results,       \* what the judge may find: verdict, earned_percent, and the share of
                         \* the tests' points, score of max_score in percent
          MaxTime,       \* bound: the clock
          MaxSubs,       \* bound: submissions
          MaxEdits       \* bound: edits and rejudges by administrators

NoContest == "practice"
ASSUME AdminAssumption == Admin \subseteq User /\ IsFiniteSet(User) /\ "nobody" \notin User
ASSUME TermsAssumption ==
    /\ Terms \in [Contest -> [starts : Nat, ends : Nat, rated : BOOLEAN, ioi : BOOLEAN,
                              freeze : Nat, penalty : Nat]]
    /\ NoContest \notin Contest
ASSUME FirstAssumption ==
    Admin \subseteq FirstConfirmed /\ FirstConfirmed \subseteq User /\ FirstVisible \subseteq Problem
    /\ FirstSet \in [Contest -> SUBSET Problem] /\ NewSets \subseteq SUBSET Problem
ASSUME WorthAssumption == WorthOf \in [Problem -> Nat] /\ IsFiniteSet(Problem)
ASSUME DecayAssumption == DECAY \in (Nat \ {0}) \X (Nat \ {0})
ASSUME NameAssumption ==
    /\ Name \in [User \cup Problem -> Nat]
    /\ \A x, y \in User : Name[x] = Name[y] => x = y
    /\ \A x, y \in Problem : Name[x] = Name[y] => x = y
ASSUME BoundsAssumption == {MaxTime, MaxSubs, MaxEdits} \subseteq Nat
ASSUME ResultsAssumption ==
    \A r \in Results : /\ r.verdict \in {"AC", "WA", "AB"}
                       /\ r.earned \in 0..100 /\ r.share \in 0..100

VARIABLES now,        \* utcnow()
          confirmed,  \* users.email_verified
          visible,    \* problems.visible
          set,        \* contest_problems
          entered,    \* contest_entries
          subs,       \* submissions, by id
          edits       \* edits so far

vars == <<now, confirmed, visible, set, entered, subs, edits>>

InFlight == {"PE", "JG"}
Sub == DOMAIN subs

(***************************************************************************)
(* Viewers                                                                 *)
(***************************************************************************)
\* session_user and current_user: an unconfirmed account is nobody, and the view-as cookie
\* takes an administrator's role away.
Nobody == [id |-> "nobody", admin |-> FALSE]
CurrentUser(u, viewAs) ==
    IF u \in confirmed THEN [id |-> u, admin |-> u \in Admin /\ ~viewAs] ELSE Nobody
Viewers == {Nobody} \cup {CurrentUser(u, viewAs) : u \in User, viewAs \in BOOLEAN}
Members == {v \in Viewers : ~v.admin}

Before(c) == now < Terms[c].starts
Ended(c) == now > Terms[c].ends
Running(c) == ~Before(c) /\ ~Ended(c)
Live == {c \in Contest : Running(c)}
ContestsWith(p) == {c \in Contest : p \in set[c]}

LockedOut(c, v) ==
    Terms[c].rated /\ ~v.admin /\ ~Ended(c) /\ <<c, v.id>> \notin entered

VisibleTo(p, v) ==
    \/ visible[p] \/ v.admin
    \/ \E c \in ContestsWith(p) : Ended(c) \/ (Running(c) /\ ~LockedOut(c, v))

MetadataSealed(p, v) ==
    ~visible[p] /\ ~v.admin /\ \E c \in ContestsWith(p) : Running(c)

(***************************************************************************)
(* Submissions, by each route that shows them                              *)
(***************************************************************************)
Own(i, v) == subs[i].user = v.id

MayRead(i, v) ==
    \/ v.admin \/ Own(i, v)
    \/ /\ visible[subs[i].problem] \/ subs[i].contest # NoContest
       /\ subs[i].contest \notin Live

\* Mutant: the copy of the rule that forgot the contests that run.
ListsLiveToo(i, v) == v.admin \/ visible[subs[i].problem] \/ subs[i].contest # NoContest

Lists(i, v) ==
    \/ v.admin
    \/ /\ visible[subs[i].problem] \/ subs[i].contest # NoContest
       /\ subs[i].contest \notin Live \/ Own(i, v)

\* problem_ranking, of a problem the viewer can open.
Ranks(i, v) ==
    /\ VisibleTo(subs[i].problem, v)
    /\ subs[i].verdict \notin InFlight \cup {"AB"}
    /\ v.admin \/ subs[i].contest \notin Live \/ Own(i, v)

\* submission_activity, on the profile of the submission's author.
Counts(i, v) ==
    \/ Own(i, v) \/ v.admin
    \/ /\ visible[subs[i].problem] \/ subs[i].contest # NoContest
       /\ subs[i].contest \notin Live

(***************************************************************************)
(* The leaderboard and the profile                                         *)
(***************************************************************************)
MinEarned == 1

\* MAX(earned_percent) per user and problem, published problems only; all are submissions by
\* their numbers.
Scored(all, u, p) == {i \in DOMAIN all : /\ all[i].user = u /\ all[i].problem = p
                                         /\ all[i].earned >= MinEarned /\ visible[p]}
Best(all, u, p) == Max({0} \cup {all[i].earned : i \in Scored(all, u, p)})
SolvedOn(all, u) == {p \in Problem : Best(all, u, p) >= MinEarned}

\* round(): halves go to the even neighbour.
Rounded(a, b) == LET q == (2 * a + b) \div (2 * b)
                 IN  IF (2 * a + b) % (2 * b) = 0 /\ q % 2 = 1 THEN q - 1 ELSE q
Earned(all, u, p) == Rounded(WorthOf[p] * Best(all, u, p), 100)

\* What is solved with what it earned: the most first, then by slug.
EarnedOn(all, u) == [p \in SolvedOn(all, u) |-> Earned(all, u, p)]
MoreWorth(earned, p, q) ==
    earned[p] > earned[q] \/ (earned[p] = earned[q] /\ Name[p] < Name[q])
ByWorth(earned) ==
    {x \in (DOMAIN earned) \X (DOMAIN earned) : MoreWorth(earned, x[1], x[2])}

\* Mutant: what is solved is weighted from the least worth on.
WorthAscending(all, u) ==
    LET earned == EarnedOn(all, u)
        order == Sorted(DOMAIN earned, {<<x[2], x[1]>> : x \in ByWorth(earned)})
    IN  [k \in DOMAIN order |-> earned[order[k]]]

Worth(all, u) ==
    LET earned == EarnedOn(all, u)
        order == Sorted(DOMAIN earned, ByWorth(earned))
    IN  [k \in DOMAIN order |-> earned[order[k]]]

\* weighted_score: the k-th best problem counts DECAY^(k-1), Weight(k) units for each of its
\* points, of which d^(n-1) make one point for n problems.
Weight(k) == DECAY[1]^(k - 1) * DECAY[2]^(Cardinality(Problem) - k)
Score(all, u) ==
    LET worth == Worth(all, u)
    IN  Cardinality(UNION {{k} \X (1..worth[k]) \X (1..Weight(k)) : k \in DOMAIN worth})

\* leaderboard: everyone who has scored, by score; equal scores share a rank (and are sorted
\* by their hardest problem first, which is left out).
Leader(u) == [user |-> u, key |-> <<Score(subs, u), 0>>]
Leaders == {Leader(u) : u \in {w \in User : SolvedOn(subs, w) # {}}}

(***************************************************************************)
(* The scoreboard                                                          *)
(***************************************************************************)
\* freeze_at, while it has an effect: MaxTime + 1 for a board that is not frozen.
FrozenFrom(c, reveal) ==
    IF Running(c) /\ ~reveal /\ Terms[c].freeze > 0 THEN Terms[c].ends - Terms[c].freeze
    ELSE MaxTime + 1

\* What of the submissions all is entered on the board: the contest's, in its window, on
\* problems it still has.
Entries(c, all) ==
    {i \in DOMAIN all : /\ all[i].contest = c /\ all[i].problem \in set[c]
                        /\ Terms[c].starts <= all[i].at /\ all[i].at <= Terms[c].ends}

\* Mutant: always the share of the tests' points.
GainedByPoints(s) == s.share

\* _earned: the percentage, or where that is 0 (rows from before there was one have it, and
\* so has a run that completes no subtask) the share of the tests' points.
Gained(s) == IF s.earned # 0 THEN s.earned ELSE s.share

\* What the judged attempts at one problem come to, in each scoring system.  IOI: the best
\* result, and when it was reached.
IoiCell(c, all, judged) ==
    LET score == Max({0} \cup {Gained(all[i]) : i \in judged})
        best == Min({i \in judged : Gained(all[i]) = score})
    IN  [attempts |-> Cardinality(judged), solved |-> score = 100, score |-> score, penalty |-> 0,
         last |-> IF score = 0 THEN 0 ELSE all[best].at - Terms[c].starts]

\* ICPC: the attempts up to the first that is accepted, each rejected one at a price.
IcpcCell(c, all, judged) ==
    LET accepted == {i \in judged : all[i].verdict = "AC"}
        first == Min(accepted)
        attempts == {i \in judged : accepted # {} => i <= first}
    IN  [attempts |-> Cardinality(attempts), solved |-> accepted # {}, score |-> 0,
         penalty |-> IF accepted = {} THEN 0
                     ELSE all[first].at - Terms[c].starts
                              + Terms[c].penalty * (Cardinality(attempts) - 1),
         last |-> 0]

Judged(s) == s.verdict \notin InFlight
Result(c, all, judged) ==
    IF Terms[c].ioi THEN IoiCell(c, all, judged) ELSE IcpcCell(c, all, judged)

\* Mutant: whether an attempt waits is looked at before the freeze is.
CellPendingFirst(c, frozen, all, attempts) ==
    [result |-> Result(c, all, {i \in attempts : all[i].at < frozen /\ Judged(all[i])}),
     pending |-> \E i \in attempts : ~Judged(all[i]),
     frozen |-> Cardinality({i \in attempts : all[i].at >= frozen /\ Judged(all[i])})]

\* A competitor's cell for a problem.  Past the freeze an attempt is counted and nothing
\* else; before it one that waits is marked.
Cell(c, frozen, all, attempts) ==
    [result |-> Result(c, all, {i \in attempts : all[i].at < frozen /\ Judged(all[i])}),
     pending |-> \E i \in attempts : all[i].at < frozen /\ ~Judged(all[i]),
     frozen |-> Cardinality({i \in attempts : all[i].at >= frozen})]

\* The key a row is ranked by: what is more is better in [1], less is better in [2].
Key(c, cells) ==
    IF Terms[c].ioi
    THEN <<Total([p \in Problem |-> cells[p].result.score]),
           Max({0} \cup {cells[p].result.last : p \in Problem})>>
    ELSE <<Cardinality({p \in Problem : cells[p].result.solved}),
           Total([p \in Problem |-> cells[p].result.penalty])>>

Attempts(c, all, u, p) == {i \in Entries(c, all) : all[i].user = u /\ all[i].problem = p}
Cells(c, reveal, all, u) ==
    [p \in Problem |-> Cell(c, FrozenFrom(c, reveal), all, Attempts(c, all, u, p))]
Row(c, reveal, all, u) ==
    LET cells == Cells(c, reveal, all, u)
    IN  [user |-> u, cells |-> cells, key |-> Key(c, cells)]
Rows(c, reveal, all) == {Row(c, reveal, all, all[i].user) : i \in Entries(c, all)}

Better(k, m) == k[1] > m[1] \/ (k[1] = m[1] /\ k[2] < m[2])
Above(r, s) == Better(r.key, s.key) \/ (r.key = s.key /\ Name[r.user] < Name[s.user])
InOrder(rows) == Sorted(rows, {x \in rows \X rows : Above(x[1], x[2])})

\* Mutant: the rank is the position, equal rows or not.
RankedByPosition(rows) ==
    {[user |-> r.user, key |-> r.key,
      rank |-> Min({i \in DOMAIN InOrder(rows) : InOrder(rows)[i] = r})] : r \in rows}

\* The loop over the sorted rows: the rank is the position of the first row with the key.
Ranked(rows) ==
    {[user |-> r.user, key |-> r.key,
      rank |-> Min({i \in DOMAIN InOrder(rows) : InOrder(rows)[i].key = r.key})] : r \in rows}

\* The board the viewer is sent: standings, and the problems unless they are withheld.
Board(c, v, all) == LET rows == Rows(c, v.admin, all)
                    IN  [standings |-> Ranked(rows), rows |-> rows]

\* Mutant: the scoreboard knows the seal before the start, and not the access code.
BoardProblemsUnlocked(c, v) == IF Before(c) /\ ~v.admin THEN {} ELSE set[c]

BoardProblems(c, v) == IF (Before(c) /\ ~v.admin) \/ LockedOut(c, v) THEN {} ELSE set[c]

\* contest_detail
DetailProblems(c, v) == IF (Before(c) /\ ~v.admin) \/ LockedOut(c, v) THEN {} ELSE set[c]

\* list_problems and the page of a problem: whether it opens, whether it gives the points
\* and types, and the contests it names.
ListedProblems(v) == {p \in Problem : v.admin \/ visible[p]}
ProblemPage(p, v) ==
    LET sealed == MetadataSealed(p, v)
    IN  [open |-> VisibleTo(p, v), points |-> ~sealed,
         contests |-> IF sealed THEN {} ELSE {c \in ContestsWith(p) : ~Running(c)}]

(***************************************************************************)
(* What changes the state                                                  *)
(***************************************************************************)
Init ==
    /\ now = 0
    /\ confirmed = FirstConfirmed
    /\ visible = [p \in Problem |-> p \in FirstVisible]
    /\ set = FirstSet
    /\ entered = {}
    /\ subs = <<>>
    /\ edits = 0

Tick ==
    /\ now < MaxTime
    /\ now' = now + 1
    /\ UNCHANGED <<confirmed, visible, set, entered, subs, edits>>

\* confirm_email_token, as the pages see it.
Confirm(u) ==
    /\ u \notin confirmed
    /\ confirmed' = confirmed \cup {u}
    /\ UNCHANGED <<now, visible, set, entered, subs, edits>>

SubmitAs(v, p, c) ==
    /\ VisibleTo(p, v)
    /\ c # NoContest => /\ Running(c) \/ v.admin
                        /\ ~LockedOut(c, v)
                        /\ p \in set[c]
    /\ subs' = Append(subs, [user |-> v.id, problem |-> p, contest |-> c,
                             at |-> IF c = NoContest THEN 0 ELSE now,  \* no page asks
                             verdict |-> "PE", earned |-> 0, share |-> 0])

\* submit, with the view-as cookie or without.
Submit(u, viewAs, p, c) ==
    /\ u \in confirmed /\ (viewAs => u \in Admin)
    /\ Len(subs) < MaxSubs
    /\ SubmitAs(CurrentUser(u, viewAs), p, c)
    /\ UNCHANGED <<now, confirmed, visible, set, entered, edits>>

\* What the judge finds: from the queue a row is claimed, then graded or cancelled.
Judge(i, r) ==
    /\ subs[i].verdict \in InFlight
    /\ subs' = [subs EXCEPT ![i].verdict = r.verdict, ![i].earned = r.earned,
                            ![i].share = r.share]
    /\ UNCHANGED <<now, confirmed, visible, set, entered, edits>>

\* Mutant: the code of a contest that is open to everyone is taken too.
EntersAnyContest(v, c) ==
    /\ ~Ended(c)
    /\ entered' = entered \cup {<<c, v.id>>}

Enters(v, c) ==
    /\ Terms[c].rated /\ ~Ended(c)
    /\ entered' = entered \cup {<<c, v.id>>}

\* enter_contest, with the code the contest has now; a wrong one changes nothing here.
Enter(u, c) ==
    /\ u \in confirmed
    /\ <<c, u>> \notin entered
    /\ Enters(CurrentUser(u, FALSE), c)
    /\ UNCHANGED <<now, confirmed, visible, set, subs, edits>>

\* update_problem, of the flag visible.
Publish(p, flag) ==
    /\ edits < MaxEdits /\ visible[p] # flag
    /\ visible' = [visible EXCEPT ![p] = flag]
    /\ edits' = edits + 1
    /\ UNCHANGED <<now, confirmed, set, entered, subs>>

\* set_contest_problems, at any time, also while the contest runs.
SetProblems(c, problems) ==
    /\ edits < MaxEdits /\ set[c] # problems
    /\ set' = [set EXCEPT ![c] = problems]
    /\ edits' = edits + 1
    /\ UNCHANGED <<now, confirmed, visible, entered, subs>>

\* rejudge, of one submission or of a problem's one after another: back into the queue, with
\* the percentage and the points that were earned.  One that waits stays what it is.
Rejudge(i) ==
    /\ edits < MaxEdits /\ subs[i].verdict \notin InFlight
    /\ subs' = [subs EXCEPT ![i].verdict = "PE"]
    /\ edits' = edits + 1
    /\ UNCHANGED <<now, confirmed, visible, set, entered>>

Next ==
    \/ Tick
    \/ \E u \in User : Confirm(u)
    \/ \E u \in User, viewAs \in BOOLEAN, p \in Problem, c \in Contest \cup {NoContest} :
          Submit(u, viewAs, p, c)
    \/ \E i \in Sub, r \in Results : Judge(i, r)
    \/ \E i \in Sub : Rejudge(i)
    \/ \E u \in User, c \in Contest : Enter(u, c)
    \/ \E p \in Problem, flag \in BOOLEAN : Publish(p, flag)
    \/ \E c \in Contest, problems \in NewSets : SetProblems(c, problems)

Spec == Init /\ [][Next]_vars

(***************************************************************************)
(* Properties                                                              *)
(***************************************************************************)
Submissions ==
    [user : User, problem : Problem, contest : Contest \cup {NoContest}, at : 0..MaxTime,
     verdict : {r.verdict : r \in Results} \cup InFlight,
     earned : 0..100, share : 0..100]

\* Every variable keeps its type; who entered a contest is confirmed, and the contest is a
\* rated one (enter_contest).
TypeOK ==
    /\ now \in 0..MaxTime /\ edits \in 0..MaxEdits
    /\ confirmed \subseteq User
    /\ visible \in [Problem -> BOOLEAN] /\ set \in [Contest -> SUBSET Problem]
    /\ entered \subseteq {c \in Contest : Terms[c].rated} \X confirmed
    /\ Len(subs) <= MaxSubs /\ subs \in Seq(Submissions)

\* The copies of one rule agree (list_submissions, may_read_submission and
\* submission_activity each have their own): what the list shows can be opened by its
\* number, and of another's submissions the list, the page by number and the calendar show
\* the same ones.  Of one's own the list leaves out practice on a hidden problem, which the
\* page by number shows.
ListAgreesWithById ==
    \A v \in Viewers, i \in Sub :
        /\ Lists(i, v) => MayRead(i, v)
        /\ MayRead(i, v) /\ ~Lists(i, v) =>
               Own(i, v) /\ ~visible[subs[i].problem] /\ subs[i].contest = NoContest
        /\ ~Own(i, v) => (Counts(i, v) <=> MayRead(i, v))

FreezeMoment(c) == Terms[c].ends - Terms[c].freeze
Frozen(c) == Running(c) /\ Terms[c].freeze > 0
Earlier(c) == [i \in {j \in Sub : subs[j].at < FreezeMoment(c)} |-> subs[i]]
InTheFreeze(i, c) == subs[i].contest = c /\ subs[i].at >= FreezeMoment(c)

\* While a board is frozen, members see the standings as they were when it froze (scoreboard:
\* "the standings look exactly as they did the moment the board froze"): whoever was on it
\* has the rank and the score that the submissions made before give, and what the judge
\* finds of a later one makes no difference to what anybody but its author is sent, be it
\* the board, the list, the page by number, the ranking of the problem or the calendar
\* (live_ids).  The profile and the leaderboard are not part of this: they count a live
\* result on a published problem at once.
FreezeHolds ==
    \A c \in {d \in Contest : Frozen(d)} :
        LET board == Board(c, Nobody, subs)
        IN  /\ Ranked(Rows(c, TRUE, Earlier(c))) \subseteq board.standings
            /\ \A i \in {j \in Sub : InTheFreeze(j, c)} :
                  /\ \A r \in Results :
                        board = Board(c, Nobody, [subs EXCEPT ![i].verdict = r.verdict,
                                                              ![i].earned = r.earned,
                                                              ![i].share = r.share])
                  /\ \A v \in Members : ~Own(i, v) =>
                        ~Lists(i, v) /\ ~MayRead(i, v) /\ ~Ranks(i, v) /\ ~Counts(i, v)

Sealed(p, v) == ~VisibleTo(p, v)

\* A problem its page keeps from a viewer is kept from them by every other page too
\* (problem_visible_to, contest_detail, scoreboard, problem_ranking, solved_problems,
\* list_submissions): a contest that is ahead, or one that runs and whose code they have
\* not entered, does not give away its hidden problems.  Left are one's own submissions,
\* those of a setter who tries a contest before it starts, and those to a problem that was
\* taken out of its contest afterwards: the list shows these with the problem's title.
\* And to those who compete, while the contest runs, neither its page nor a profile tells
\* what a hidden problem is worth or that it has been set before (metadata_sealed,
\* contest_appearances); the problem's ranking sends its points all the same.
SealHolds ==
    \A p \in Problem, v \in Viewers :
        /\ Sealed(p, v) =>
              /\ p \notin ListedProblems(v)
              /\ \A c \in Contest : p \notin DetailProblems(c, v) \cup BoardProblems(c, v)
              /\ \A u \in User : p \notin SolvedOn(subs, u)
              /\ \A i \in Sub : subs[i].problem = p =>
                    /\ ~Ranks(i, v)
                    /\ Lists(i, v) => LET c == subs[i].contest
                                      IN  Own(i, v) \/ Before(c) \/ p \notin set[c]
        /\ ~visible[p] /\ v \in Members /\ (\E c \in Contest : p \in set[c] /\ Running(c)) =>
              /\ ~ProblemPage(p, v).points /\ ProblemPage(p, v).contests = {}
              /\ p \notin ListedProblems(v) /\ \A u \in User : p \notin SolvedOn(subs, u)

\* One competitor's cell for one problem beside the profile.
PaysAsProfile(c, row, p) ==
    LET theirs == {i \in Sub : subs[i].user = row.user /\ subs[i].problem = p}
        counted == {i \in theirs \cap Entries(c, subs) : Judged(subs[i])}
        paid == row.cells[p].result.score
        given == Best(subs, row.user, p)
    IN  /\ theirs = counted => paid >= given
        /\ paid > given => \E i \in counted : subs[i].earned = 0 /\ subs[i].share = paid

\* The board and the profile take what a submission is worth from different columns
\* (contest._earned, _solved_points_by_user), and each has its own best of several.  The cell
\* of an IOI board, once nothing is withheld, pays no less than the profile gives for the
\* problem, when all that the competitor submitted to it was submitted in this contest's
\* window and is judged; and it pays more only by a judged attempt of the competitor's in this
\* contest that earned 0 percent, at its share of the tests' points.  One that is rejudged is
\* on the profile all the while, with what it had earned.
BoardAgreesWithProfile ==
    \A c \in {d \in Contest : Terms[d].ioi} :
        \A row \in Rows(c, TRUE, subs), p \in {q \in Problem : visible[q]} :
            PaysAsProfile(c, row, p)

\* Ranks are standard competition ranks, on a board and on the leaderboard: one more than
\* the number of rows that are strictly better, equal rows sharing one.
RanksStandard ==
    \A rows \in {Leaders} \cup {Rows(c, FALSE, subs) : c \in Contest} : \A r \in Ranked(rows) :
        r.rank = 1 + Cardinality({s \in rows : Better(s.key, r.key)})

\* One more result never costs points (the first promise of scoring.py, which weights what
\* is solved by its rank): whatever the judge found of one more submission, the score is at
\* least what it was.
ScoreNeverFalls ==
    \A u \in User :
        LET score == Score(subs, u)
        IN  \A p \in Problem, r \in Results :
              Score(Append(subs, [user |-> u, problem |-> p, earned |-> r.earned]), u) >= score
=============================================================================
