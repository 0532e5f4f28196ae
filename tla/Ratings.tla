------------------------------ MODULE Ratings ------------------------------
(***************************************************************************)
(* How rated contests are settled: stroj/contest.py (state_of, scoreboard, *)
(* recompute_ratings, awaiting_rating), apply_finished_ratings and the     *)
(* idle branch of the worker's loop (stroj/judge/worker.py), and the       *)
(* handlers that change what the ratings are computed from                 *)
(* (routes_admin.py, routes_submissions.py).                               *)
(*                                                                         *)
(* Ratings are replayed from the boards of all finished rated contests in  *)
(* one transaction.  What the replay is computed from is read in several:  *)
(* which contests wait for it, which of them are still being judged, the   *)
(* contests' rows, and only then the boards.  A contest's window is a pair *)
(* of times, a submission succeeds (AC) or does not (WA).                  *)
(***************************************************************************)
EXTENDS Naturals, FiniteSets, Sequences

CONSTANTS
    NContests,    \* bound: contests ever created
    NSubs,        \* bound: submissions to contests
    Author,       \* Author[s]: who makes submission s
    Organisers,   \* the authors with the role admin
    Worker,       \* the judge's threads
    Admin,        \* web threads that serve administrators
    Bodies,       \* contest rows that administrators write
    Patches,      \* bodies of PATCH /contests/{slug}: some fields of a row
    MaxTime,      \* bound: the clock
    MaxTroubles   \* bound: rejudges, edits by administrators, recomputations
                  \* they ask for, failing database calls and restarts

Contest == 1..NContests   \* contest ids: AUTOINCREMENT, never reused
Sub == 1..NSubs
User == {Author[s] : s \in Sub}
Time == 0..MaxTime
Thread == Worker \cup Admin
NoContest == 0
NoSub == 0

Window == [starts : Time, ends : Time, rated : BOOLEAN]

\* A body of create_contest is a whole row; a patch is any part of one.
ASSUME RatingsBounds ==
    /\ {NContests, NSubs, MaxTime, MaxTroubles} \subseteq Nat
    /\ Worker \cap Admin = {}
    /\ Bodies \subseteq Window
    /\ \A b \in Bodies : b.starts < b.ends
    /\ \A p \in Patches :
        /\ "starts" \in DOMAIN p => p.starts \in Time
        /\ "ends" \in DOMAIN p => p.ends \in Time
        /\ "rated" \in DOMAIN p => p.rated \in BOOLEAN

VARIABLES
    now,
    \* The database.
    contest,   \* the contests' rows; NoRow when there is no such row
    problems,  \* the contests whose contest_problems list the problem
    ratedAt,   \* the contests with rated_at set
    sub,       \* the submissions: their handler's progress, then the row
    changes,   \* rating_changes: the places each contest was rated with
    numbers,   \* users.rating and the rest: the contests they are played from
    \* The threads.
    pc,
    job,       \* worker: the submission it judges
    seen,      \* awaiting_rating: the rows it has not decided about yet
    ready,     \* awaiting_rating: its result, rows
    contests,  \* recompute_ratings: rated_contests(), read before BEGIN
    edit,      \* update_contest: the row it read and the fields to write
    \* Bounds.
    created, troubles,
    \* History, read by properties only.
    excused    \* contests whose rating may be behind their board

contestVars == <<contest, problems>>
ratingVars == <<ratedAt, changes, numbers>>
dbVars == <<contestVars, ratingVars, sub>>
threadVars == <<pc, job, seen, ready, contests, edit>>
boundVars == <<created, troubles>>
vars == <<now, dbVars, threadVars, boundVars, excused>>

-----------------------------------------------------------------------------
NoRow == [starts |-> 0, ends |-> 0, rated |-> FALSE]
Exists(c) == contest[c] # NoRow

PENDING == "PENDING"
JUDGING == "JUDGING"
InFlight == {PENDING, JUDGING}
Judged == {"AC", "WA"}
NoSubmission == [st |-> "new", contest |-> NoContest, at |-> 0]

NoBoard == <<>>
NoEdit == [id |-> NoContest, fields |-> <<>>]

\* A row as a thread keeps it after reading it.
RowOf(c) == [id |-> c, row |-> contest[c]]

\* state_of
Before(row) == now < row.starts
Ended(row) == now > row.ends
Running(row) == ~Before(row) /\ ~Ended(row)

RatedAndOver(c) == Exists(c) /\ contest[c].rated /\ Ended(contest[c])

Of(c) == {s \in Sub : sub[s].st \in InFlight \cup Judged /\ sub[s].contest = c}
Busy(c) == \E s \in Of(c) : sub[s].st \in InFlight

\* scoreboard(row, reveal=True): the place of everyone who submitted within the
\* window, whoever succeeded before whoever did not.  The window is the row's
\* that was read earlier, the problem set is what it is now.
Entries(c, row) ==
    {s \in Of(c) : c \in problems /\ sub[s].at \in row.starts..row.ends}
Board(c, row) ==
    LET entrants == {Author[s] : s \in Entries(c, row)}
        solvers == {Author[s] : s \in {e \in Entries(c, row) : sub[e].st = "AC"}}
    IN [u \in entrants |-> IF u \in solvers THEN 1 ELSE 1 + Cardinality(solvers)]

\* rating.compute: a field of one is not rated.
Played(board) == IF Cardinality(DOMAIN board) < 2 THEN NoBoard ELSE board

Init ==
    /\ now = 0
    /\ contest = [c \in Contest |-> NoRow]
    /\ problems = {}
    /\ ratedAt = {}
    /\ sub = [s \in Sub |-> NoSubmission]
    /\ changes = [c \in Contest |-> NoBoard]
    /\ numbers = <<>>
    /\ pc = [t \in Thread |-> "idle"]
    /\ job = [w \in Worker |-> NoSub]
    /\ seen = [w \in Worker |-> {}]
    /\ ready = [w \in Worker |-> {}]
    /\ contests = [t \in Thread |-> {}]
    /\ edit = [a \in Admin |-> NoEdit]
    /\ created = 0 /\ troubles = 0
    /\ excused = {}

Trouble == troubles < MaxTroubles /\ troubles' = troubles + 1

Tick ==
    /\ now < MaxTime
    /\ now' = now + 1
    /\ UNCHANGED <<dbVars, threadVars, boundVars, excused>>

-----------------------------------------------------------------------------
(* Submissions.                                                            *)

\* submit: the checks, made on rows read before the INSERT, and created_at,
\* taken before the INSERT gets the lock.
Admit(s, c) ==
    /\ sub[s].st = "new"
    /\ Exists(c) /\ c \in problems
    /\ (Running(contest[c]) \/ Author[s] \in Organisers)
    /\ sub' = [sub EXCEPT ![s] = [st |-> "admitted", contest |-> c, at |-> now]]
    /\ UNCHANGED <<now, contestVars, ratingVars, threadVars, boundVars, excused>>

\* submit: the INSERT; its foreign key refuses a contest that is gone.
Insert(s) ==
    LET c == sub[s].contest IN
    /\ sub[s].st = "admitted"
    /\ sub' = [sub EXCEPT ![s].st = IF Exists(c) THEN PENDING ELSE "refused"]
    /\ excused' = IF Ended(contest[c]) THEN excused \cup {c} ELSE excused
    /\ UNCHANGED <<now, contestVars, ratingVars, threadVars, boundVars>>

\* rejudge of one submission, whatever becomes of it meanwhile.
Rejudge(s) ==
    /\ Trouble
    /\ sub[s].st \in InFlight \cup Judged
    /\ sub' = [sub EXCEPT ![s].st = PENDING]
    /\ excused' = excused \cup ({sub[s].contest} \ {NoContest})
    /\ UNCHANGED <<now, contestVars, ratingVars, threadVars, created>>

-----------------------------------------------------------------------------
(* The workers' loop.                                                      *)

\* claim_next finds something.
Claim(w, s) ==
    /\ pc[w] = "idle"
    /\ sub[s].st = PENDING
    /\ sub' = [sub EXCEPT ![s].st = JUDGING]
    /\ pc' = [pc EXCEPT ![w] = "judging"]
    /\ job' = [job EXCEPT ![w] = s]
    /\ UNCHANGED <<now, contestVars, ratingVars, seen, ready,
                   contests, edit, boundVars, excused>>

\* judge_submission stores a result, over whatever the row says by then.
Store(w) ==
    LET s == job[w] IN
    /\ pc[w] = "judging"
    /\ \E v \in Judged : sub' = [sub EXCEPT ![s].st = v]
    /\ pc' = [pc EXCEPT ![w] = "idle"]
    /\ job' = [job EXCEPT ![w] = NoSub]
    /\ excused' = IF sub[s].st = JUDGING THEN excused
                  ELSE excused \cup ({sub[s].contest} \ {NoContest})
    /\ UNCHANGED <<now, contestVars, ratingVars, seen, ready,
                   contests, edit, boundVars>>

\* claim_next finds nothing; apply_finished_ratings, awaiting_rating: the rows.
\* (A submission inserted between the two reads is still seen by Check.)
Poll(w) ==
    /\ pc[w] = "idle"
    /\ \A s \in Sub : sub[s].st # PENDING
    /\ seen' = [seen EXCEPT ![w] = {RowOf(c) : c \in
            {d \in Contest \ ratedAt : Exists(d) /\ contest[d].rated}}]
    /\ seen'[w] # {}
    /\ pc' = [pc EXCEPT ![w] = "awaiting"]
    /\ UNCHANGED <<now, dbVars, job, ready, contests, edit, boundVars, excused>>

\* Mutant: the submissions in flight are not looked at.
IsReadyBusyToo(r) == Ended(r.row)
\* Mutant: a contest nobody entered is not ready.
IsReadyIfEntered(r) == Ended(r.row) /\ ~Busy(r.id) /\ Of(r.id) # {}
\* awaiting_rating: does this one count as ready?
IsReady(r) == Ended(r.row) /\ ~Busy(r.id)

\* Mutant: without `if not ready: return 0`.
AfterCheckReplays(left, found) == IF left # {} THEN "awaiting" ELSE "list"
\* Where a worker goes after a row: to the next one, or to settle what it found.
AfterCheck(left, found) ==
    IF left # {} THEN "awaiting" ELSE IF found # {} THEN "list" ELSE "idle"

\* awaiting_rating: one more row, in the order of ends_at.
Check(w) ==
    /\ pc[w] = "awaiting"
    /\ \E r \in seen[w] :
        /\ \A q \in seen[w] : r.row.ends <= q.row.ends
        /\ seen' = [seen EXCEPT ![w] = @ \ {r}]
        /\ ready' = [ready EXCEPT ![w] = IF IsReady(r) THEN @ \cup {r} ELSE @]
    /\ pc' = [pc EXCEPT ![w] = AfterCheck(seen'[w], ready'[w])]
    /\ UNCHANGED <<now, dbVars, job, contests, edit, boundVars, excused>>

-----------------------------------------------------------------------------
(* recompute_ratings, called by a worker or by an administrator's thread.  *)

\* rated_contests(), read before the transaction.
RatedContests(t) ==
    /\ pc[t] = "list"
    /\ contests' = [contests EXCEPT ![t] = {RowOf(c) : c \in
            {d \in Contest : RatedAndOver(d)}}]
    /\ pc' = [pc EXCEPT ![t] = "replay"]
    /\ UNCHANGED <<now, dbVars, job, seen, ready, edit, boundVars, excused>>

\* The rows in the order they are replayed in: ORDER BY ends_at, id.
NotAfter(q, r) ==
    q.row.ends < r.row.ends \/ (q.row.ends = r.row.ends /\ q.id <= r.id)
Place(rows, r) == Cardinality({q \in rows : NotAfter(q, r)})
InOrder(rows) ==
    [i \in 1..Cardinality(rows) |-> CHOOSE r \in rows : Place(rows, r) = i]

\* What thread t's transaction computes for contest c.
Replayed(t, c) ==
    LET r == {q \in contests[t] : q.id = c}
    IN IF r = {} THEN NoBoard ELSE Played(Board(c, (CHOOSE q \in r : TRUE).row))

\* Contests that the replay rates by a row that has changed since, or while
\* they are still being judged although it was not for them as they are now.
Premature(t) ==
    {r.id : r \in {q \in contests[t] :
        \/ q.row # contest[q.id]
        \/ Busy(q.id) /\ (t \in Admin \/ q \notin ready[t])}}

\* A thread at rest, and what it no longer holds.
AtRest(t) ==
    /\ pc' = [pc EXCEPT ![t] = "idle"]
    /\ contests' = [contests EXCEPT ![t] = {}]
    /\ ready' = [w \in Worker |-> IF w = t THEN {} ELSE ready[w]]
    /\ edit' = [a \in Admin |-> IF a = t THEN NoEdit ELSE edit[a]]

\* Mutant: only contests that somebody was rated in are marked.
MarkedIfPlayed(t) ==
    {r.id : r \in {q \in contests[t] : Replayed(t, q.id) # NoBoard}}
\* UPDATE contests SET rated_at, after it was reset for all.
Marked(t) == {r.id : r \in {q \in contests[t] : Exists(q.id)}}

\* The contests that rated somebody, in the order they are replayed in.
PlayedInOrder(t) ==
    LET rows == InOrder({r \in contests[t] : Replayed(t, r.id) # NoBoard})
    IN [i \in DOMAIN rows |-> rows[i].id]
\* Mutant: an update that starts from the users' present numbers.
NumbersAppended(t) == numbers \o PlayedInOrder(t)
\* Every replay starts from START_RATING.
Numbers(t) == PlayedInOrder(t)

\* The transaction: it empties rating_changes and replays everything.
Replay(t) ==
    /\ pc[t] = "replay"
    /\ changes' = [c \in Contest |-> Replayed(t, c)]
    /\ numbers' = Numbers(t)
    /\ ratedAt' = Marked(t)
    /\ excused' = Premature(t) \cup {c \in excused : Busy(c)}
    /\ AtRest(t)
    /\ UNCHANGED <<now, contestVars, sub, job, seen, boundVars>>

\* A database call raises: the worker logs it and polls again, the
\* administrator's request fails with a 500, its UPDATE already made.
Fault(t) ==
    /\ pc[t] \in {"awaiting", "list", "replay"}
    /\ Trouble
    /\ AtRest(t)
    /\ seen' = [w \in Worker |-> IF w = t THEN {} ELSE seen[w]]
    /\ UNCHANGED <<now, dbVars, job, created, excused>>

-----------------------------------------------------------------------------
(* Administrators.                                                         *)

\* create_contest, and set_contest_problems for the first time.
CreateContest(b) ==
    LET c == created + 1 IN
    /\ created < NContests
    /\ created' = c
    /\ contest' = [contest EXCEPT ![c] = b]
    /\ problems' = problems \cup {c}
    /\ UNCHANGED <<now, ratingVars, sub, threadVars, troubles, excused>>

\* set_contest_problems with other problems: nothing is recomputed.
SetProblems(c) ==
    /\ Trouble
    /\ Exists(c)
    /\ problems' = IF c \in problems THEN problems \ {c} ELSE problems \cup {c}
    /\ excused' = excused \cup {c}
    /\ UNCHANGED <<now, contest, ratingVars, sub, threadVars, created>>

Patched(p, row) ==
    [starts |-> IF "starts" \in DOMAIN p THEN p.starts ELSE row.starts,
     ends |-> IF "ends" \in DOMAIN p THEN p.ends ELSE row.ends,
     rated |-> IF "rated" \in DOMAIN p THEN p.rated ELSE row.rated]

\* update_contest: a new start or end must make a valid window with the row it
\* reads.
PatchRead(a, c, p) ==
    LET merged == Patched(p, contest[c]) IN
    /\ pc[a] = "idle"
    /\ Trouble
    /\ Exists(c)
    /\ {"starts", "ends"} \cap DOMAIN p # {} => merged.starts < merged.ends
    /\ edit' = [edit EXCEPT ![a] = [id |-> c, fields |-> p]]
    /\ pc' = [pc EXCEPT ![a] = "patch"]
    /\ UNCHANGED <<now, dbVars, job, seen, ready, contests, created, excused>>

\* update_contest: the UPDATE of these fields; it goes on to recompute.
PatchWrite(a) ==
    LET c == edit[a].id IN
    /\ pc[a] = "patch"
    /\ contest' = IF Exists(c)
                  THEN [contest EXCEPT ![c] = Patched(edit[a].fields, @)] ELSE contest
    /\ excused' = excused \cup {c}
    /\ pc' = [pc EXCEPT ![a] = "list"]
    /\ UNCHANGED <<now, problems, ratingVars, sub, job, seen, ready, contests,
                   edit, boundVars>>

\* POST /ratings/recompute.
AskRecompute(a) ==
    /\ pc[a] = "idle"
    /\ Trouble
    /\ pc' = [pc EXCEPT ![a] = "list"]
    /\ UNCHANGED <<now, dbVars, job, seen, ready, contests, edit, created,
                   excused>>

\* delete_contest: its submissions stay without a contest, its rating_changes
\* go with it, and the users' numbers are left as they are.
DeleteContest(c) ==
    /\ Trouble
    /\ Exists(c)
    /\ contest' = [contest EXCEPT ![c] = NoRow]
    /\ problems' = problems \ {c}
    /\ ratedAt' = ratedAt \ {c}
    /\ changes' = [changes EXCEPT ![c] = NoBoard]
    /\ sub' = [s \in Sub |-> IF s \in Of(c)
            THEN [sub[s] EXCEPT !.contest = NoContest] ELSE sub[s]]
    /\ UNCHANGED <<now, numbers, threadVars, created, excused>>

\* The process stops and starts again: the handlers' requests are lost, what
\* was being judged is queued again.
Restart ==
    /\ Trouble
    /\ pc' = [t \in Thread |-> "idle"]
    /\ job' = [w \in Worker |-> NoSub]
    /\ seen' = [w \in Worker |-> {}]
    /\ ready' = [w \in Worker |-> {}]
    /\ contests' = [t \in Thread |-> {}]
    /\ edit' = [a \in Admin |-> NoEdit]
    /\ sub' = [s \in Sub |-> CASE sub[s].st = JUDGING -> [sub[s] EXCEPT !.st = PENDING]
            [] sub[s].st = "admitted" -> [sub[s] EXCEPT !.st = "refused"]
            [] OTHER -> sub[s]]
    /\ UNCHANGED <<now, contestVars, ratingVars, created, excused>>

WorkerStep(w) ==
    \/ \E s \in Sub : Claim(w, s)
    \/ Store(w) \/ Poll(w) \/ Check(w) \/ RatedContests(w) \/ Replay(w)

AdminStep(a) == PatchWrite(a) \/ RatedContests(a) \/ Replay(a)

Next ==
    \/ Tick
    \/ \E s \in Sub : Insert(s) \/ Rejudge(s)
    \/ \E s \in Sub, c \in Contest : Admit(s, c)
    \/ \E w \in Worker : WorkerStep(w)
    \/ \E a \in Admin : AdminStep(a) \/ AskRecompute(a)
    \/ \E a \in Admin, c \in Contest, p \in Patches : PatchRead(a, c, p)
    \/ \E t \in Thread : Fault(t)
    \/ \E b \in Bodies : CreateContest(b)
    \/ \E c \in Contest : SetProblems(c) \/ DeleteContest(c)
    \/ Restart

Spec == Init /\ [][Next]_vars

\* Time passes, threads run, and a request that is being served is finished.
FairSpec ==
    /\ Spec
    /\ WF_vars(Tick)
    /\ \A w \in Worker : WF_vars(WorkerStep(w))
    /\ \A a \in Admin : WF_vars(AdminStep(a))
    /\ \A s \in Sub : WF_vars(Insert(s))

-----------------------------------------------------------------------------
Held == [id : Contest, row : Window]
BoardType == UNION {[U -> 1..Cardinality(User)] : U \in SUBSET User}

\* Every variable has its type, and what the threads hold fits where they are.
TypeOK ==
    /\ now \in Time
    /\ contest \in [Contest -> Window]
    /\ problems \subseteq Contest /\ ratedAt \subseteq Contest
    /\ \A s \in Sub :
        /\ sub[s].st \in {"new", "admitted", "refused"} \cup InFlight \cup Judged
        /\ sub[s].contest \in Contest \cup {NoContest}
        /\ sub[s].at \in Time
    /\ \A c \in Contest : changes[c] \in BoardType
    /\ numbers \in Seq(Contest)
    /\ \A w \in Worker :
        /\ pc[w] \in {"idle", "judging", "awaiting", "list", "replay"}
        /\ pc[w] = "judging" <=> job[w] \in Sub
        /\ seen[w] \subseteq Held /\ (seen[w] # {} <=> pc[w] = "awaiting")
        /\ ready[w] \subseteq Held
        /\ pc[w] \in {"list", "replay"} => ready[w] # {}
    /\ \A a \in Admin :
        /\ pc[a] \in {"idle", "patch", "list", "replay"}
        /\ edit[a].id \in Contest \cup {NoContest}
        /\ pc[a] = "patch" => edit[a].id # NoContest
    /\ \A t \in Thread : contests[t] \subseteq Held
    /\ excused \subseteq Contest
    /\ {created, troubles} \subseteq Nat

\* A contest that counts as settled and has nothing in flight was rated by its
\* final board.  Excused are only contests whose results moved after they were
\* read: a rejudge, an edit or an INSERT after the end, and a contest that was
\* rated while being judged because somebody else's replay came by; a replay
\* with nothing in flight puts it right ("replaying fixes it", contest.py).
SettledRight ==
    \A c \in Contest \ excused :
        (c \in ratedAt \/ changes[c] # NoBoard) /\ ~Busy(c) =>
            changes[c] = IF RatedAndOver(c) THEN Played(Board(c, contest[c]))
                         ELSE NoBoard

\* The users' numbers and the rating_changes shown on their profiles tell the
\* same story: every contest once, none missing, but for deleted contests,
\* whose changes are gone (recompute_ratings, delete_contest).
ProfileAgrees ==
    /\ \A i, j \in DOMAIN numbers : numbers[i] = numbers[j] => i = j
    /\ \A c \in Contest : Exists(c) =>
        (changes[c] # NoBoard <=> \E i \in DOMAIN numbers : numbers[i] = c)

\* Every rated contest that is over and judged is settled at last, without an
\* administrator remembering it (apply_finished_ratings, awaiting_rating).
EventuallySettled ==
    \A c \in Contest : []<>(c \in ratedAt \/ ~RatedAndOver(c) \/ Busy(c))

\* The workers stop recomputing at some point: what is settled, even a contest
\* that nobody entered, is not found waiting again (recompute_ratings).
QuietAtLast == <>[](\A w \in Worker : pc[w] \notin {"list", "replay"})

\* Violated: in the end, ratings are those of the final boards ("a contest rated
\* before a late submission finished judging" is no failure mode of a replay).
LateResultsCount ==
    \A c \in Contest : <>[](RatedAndOver(c) => changes[c] = Played(Board(c, contest[c])))
=============================================================================
