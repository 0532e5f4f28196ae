--------------------------- MODULE RatingsProofs ---------------------------
(***************************************************************************)
(* The settling of ratings does what it promises for every number of       *)
(* contests, submissions, workers and administrators: types (TypeInv), the *)
(* places that a replay hands out (InOrder), the users' numbers and the    *)
(* rating_changes (ProfileAgrees), and that a contest which counts as      *)
(* settled was rated by its final board (SettledRight).                    *)
(***************************************************************************)
EXTENDS Ratings, TLAPS, FiniteSetTheorems, FunctionTheorems, SequenceTheorems

States == {"new", "admitted", "refused"} \cup InFlight \cup Judged
Rows == [st : States, contest : Contest \cup {NoContest}, at : Time]
Edits == [id : Contest \cup {NoContest}, fields : Patches \cup {<<>>}]

\* What the database and the clock are made of.
DbOK ==
    /\ now \in Time
    /\ contest \in [Contest -> Window]
    /\ problems \subseteq Contest /\ ratedAt \subseteq Contest
    /\ sub \in [Sub -> Rows]
    /\ changes \in [Contest -> BoardType]
    /\ numbers \in Seq(Contest)
    /\ excused \subseteq Contest
    /\ created \in Nat /\ created <= NContests /\ troubles \in Nat

\* A submission that waits for its INSERT was admitted to a contest.
AdmittedOK == \A s \in Sub : sub[s].st = "admitted" => sub[s].contest \in Contest

\* What the threads hold.
ThreadsOK ==
    /\ pc \in [Thread -> {"idle", "judging", "awaiting", "patch", "list", "replay"}]
    /\ job \in [Worker -> Sub \cup {NoSub}]
    /\ seen \in [Worker -> SUBSET Held]
    /\ ready \in [Worker -> SUBSET Held]
    /\ contests \in [Thread -> SUBSET Held]
    /\ edit \in [Admin -> Edits]

\* What a worker and an administrator's thread hold where they are.
WorkerOK(w) ==
    /\ pc[w] # "patch"
    /\ pc[w] = "judging" <=> job[w] \in Sub
    /\ seen[w] # {} <=> pc[w] = "awaiting"
    /\ pc[w] \in {"list", "replay"} => ready[w] # {}
AdminOK(a) ==
    /\ pc[a] \notin {"judging", "awaiting"}
    /\ pc[a] = "patch" => edit[a].id \in Contest /\ edit[a].fields \in Patches

\* A list that is to be replayed names no contest twice.
OneRowEach(t) == \A q, r \in contests[t] : q.id = r.id => q = r

TypeInv ==
    /\ DbOK
    /\ AdmittedOK
    /\ ThreadsOK
    /\ \A w \in Worker : WorkerOK(w)
    /\ \A a \in Admin : AdminOK(a)
    /\ \A t \in Thread : OneRowEach(t)

\* Nobody has heard of a contest before it is created.
Unheard(c) ==
    /\ contest[c] = NoRow
    /\ c \notin ratedAt
    /\ changes[c] = NoBoard
    /\ \A i \in DOMAIN numbers : numbers[i] # c
    /\ \A w \in Worker : \A r \in seen[w] \cup ready[w] : r.id # c
    /\ \A t \in Thread : \A r \in contests[t] : r.id # c
FreshInv == \A c \in Contest : c > created => Unheard(c)

\* Lists hold rated contests, and the last two kinds hold contests that are over.
ListInv ==
    /\ \A w \in Worker : \A r \in seen[w] : r.row.rated
    /\ \A w \in Worker : \A r \in ready[w] : r.row.rated /\ Ended(r.row)
    /\ \A t \in Thread : \A r \in contests[t] : r.row.rated /\ Ended(r.row)

\* What a worker found ready stays judged while its row stays what it was, or
\* the contest is excused.
StillReady(r) == contest[r.id] = r.row /\ Busy(r.id) => r.id \in excused
ReadyInv == \A w \in Worker : \A r \in ready[w] : StillReady(r)

\* A contest that counts as settled is rated, over, judged, and rated by its board.
Settled(c) == c \in ratedAt \/ changes[c] # NoBoard
FinalBoard(c) == Played(Board(c, contest[c]))
RightlySettled(c) ==
    Settled(c) => RatedAndOver(c) /\ ~Busy(c) /\ changes[c] = FinalBoard(c)
BoardInv == \A c \in Contest \ excused : RightlySettled(c)
-----------------------------------------------------------------------------
(* Boards.                                                                 *)

LEMMA UserFinite == IsFiniteSet(User)
<1> DEFINE by == [s \in Sub |-> Author[s]]
<1>1. by \in Surjection(Sub, User)
  BY DEF Surjection, User
<1>2. IsFiniteSet(Sub)
  BY RatingsBounds, FS_Interval DEF Sub
<1> HIDE DEF by
<1>3. QED
  BY <1>1, <1>2, FS_Surjection

LEMMA NoBoardTyped == NoBoard \in BoardType
<1>1. NoBoard \in [{} -> 1..Cardinality(User)]
  BY DEF NoBoard
<1>2. QED
  BY <1>1 DEF BoardType

\* Everyone who entered has a place, and nobody's is past the last one.
LEMMA BoardTyped ==
    ASSUME NEW c, NEW row
    PROVE  Board(c, row) \in BoardType /\ Played(Board(c, row)) \in BoardType
<1> DEFINE entrants == {Author[s] : s \in Entries(c, row)}
           solvers == {Author[s] : s \in {e \in Entries(c, row) : sub[e].st = "AC"}}
           place(u) == IF u \in solvers THEN 1 ELSE 1 + Cardinality(solvers)
<1>1. Board(c, row) = [u \in entrants |-> place(u)]
  BY DEF Board
<1>2. entrants \in SUBSET User /\ solvers \in SUBSET entrants
  BY DEF User, Entries, Of
<1> HIDE DEF entrants, solvers
<1>3. IsFiniteSet(solvers) /\ Cardinality(solvers) \in Nat /\ Cardinality(User) \in Nat
  BY <1>2, UserFinite, FS_Subset, FS_CardinalityType
<1>4. \A u \in entrants : place(u) \in 1..Cardinality(User)
  <2> TAKE u \in entrants
  <2>1. solvers \cup {u} \in SUBSET User
    BY <1>2
  <2>2. /\ Cardinality(solvers \cup {u}) <= Cardinality(User)
        /\ Cardinality(solvers \cup {u}) \in Nat
    BY <2>1, UserFinite, FS_Subset, FS_CardinalityType
  <2>3. CASE u \in solvers
    <3>1. Cardinality(solvers) # 0
      BY <1>3, <2>3, FS_EmptySet
    <3>2. solvers \cup {u} = solvers
      BY <2>3
    <3>3. QED
      BY <1>3, <2>2, <2>3, <3>1, <3>2
  <2>4. CASE u \notin solvers
    <3>1. Cardinality(solvers \cup {u}) = Cardinality(solvers) + 1
      BY <1>3, <2>4, FS_AddElement
    <3>2. QED
      BY <1>3, <2>2, <2>4, <3>1
  <2>5. QED
    BY <2>3, <2>4
<1> HIDE DEF place
<1>5. Board(c, row) \in [entrants -> 1..Cardinality(User)]
  BY <1>1, <1>4
<1>6. Board(c, row) \in BoardType
  BY <1>2, <1>5 DEF BoardType
<1>7. QED
  BY <1>6, NoBoardTyped DEF Played

-----------------------------------------------------------------------------
(* The order of a replay: places among the rows, by the end and the id.    *)

\* Rows of which no two are of one contest.
OneEach(rows) == rows \subseteq Held /\ \A q, r \in rows : q.id = r.id => q = r

LEMMA RowsFinite ==
    ASSUME NEW rows, OneEach(rows)
    PROVE  IsFiniteSet(rows) /\ Cardinality(rows) \in Nat
<1> DEFINE ids == [r \in rows |-> r.id]
<1>1. ids \in Injection(rows, Contest)
  BY DEF OneEach, Held, Injection, IsInjective
<1>2. IsFiniteSet(Contest)
  BY RatingsBounds, FS_Interval DEF Contest
<1> HIDE DEF ids
<1>3. IsFiniteSet(rows)
  BY <1>1, <1>2, FS_Injection
<1>4. QED
  BY <1>3, FS_CardinalityType

\* Of two rows one comes before the other.
LEMMA RowsCompare ==
    ASSUME NEW rows, OneEach(rows)
    PROVE  /\ \A q \in rows : q.row.ends \in Nat /\ q.id \in Nat
           /\ \A q, r \in rows : NotAfter(q, r) \/ NotAfter(r, q)
           /\ \A q, r \in rows : NotAfter(q, r) /\ NotAfter(r, q) => q = r
           /\ \A p, q, r \in rows : NotAfter(p, q) /\ NotAfter(q, r) => NotAfter(p, r)
<1>1. \A q \in rows : q.row.ends \in Nat /\ q.id \in Nat
  BY RatingsBounds DEF OneEach, Held, Window, Time, Contest
<1>2. \A q, r \in rows : NotAfter(q, r) \/ NotAfter(r, q)
  BY <1>1 DEF NotAfter
<1>3. \A q, r \in rows : NotAfter(q, r) /\ NotAfter(r, q) => q = r
  BY <1>1 DEF NotAfter, OneEach
<1>4. \A p, q, r \in rows : NotAfter(p, q) /\ NotAfter(q, r) => NotAfter(p, r)
  BY <1>1 DEF NotAfter
<1>5. QED
  BY <1>1, <1>2, <1>3, <1>4

LEMMA PlaceType ==
    ASSUME NEW rows, OneEach(rows), NEW r \in rows
    PROVE  Place(rows, r) \in 1..Cardinality(rows)
<1> DEFINE upTo == {q \in rows : NotAfter(q, r)}
<1>1. upTo \in SUBSET rows /\ r \in upTo
  BY RowsCompare
<1>2. Place(rows, r) = Cardinality(upTo)
  BY DEF Place
<1> HIDE DEF upTo
<1>3. IsFiniteSet(upTo) /\ Cardinality(upTo) <= Cardinality(rows)
  BY <1>1, RowsFinite, FS_Subset
<1>4. Cardinality(upTo) \in Nat /\ Cardinality(upTo) # 0
  BY <1>1, <1>3, FS_CardinalityType, FS_EmptySet
<1>5. QED
  BY <1>2, <1>3, <1>4, RowsFinite

LEMMA PlaceGrows ==
    ASSUME NEW rows, OneEach(rows), NEW q \in rows, NEW r \in rows, q # r, NotAfter(q, r)
    PROVE  Place(rows, q) < Place(rows, r)
<1> DEFINE upTo(x) == {y \in rows : NotAfter(y, x)}
<1>1. upTo(q) \in SUBSET upTo(r) /\ r \in upTo(r) /\ r \notin upTo(q)
  BY RowsCompare
<1>2. upTo(r) \in SUBSET rows
  OBVIOUS
<1>3. Place(rows, q) = Cardinality(upTo(q)) /\ Place(rows, r) = Cardinality(upTo(r))
  BY DEF Place
<1> HIDE DEF upTo
<1>4. IsFiniteSet(upTo(r))
  BY <1>2, RowsFinite, FS_Subset
<1>5. Cardinality(upTo(q)) <= Cardinality(upTo(r)) /\ Cardinality(upTo(q)) # Cardinality(upTo(r))
  BY <1>1, <1>4, FS_Subset
<1>6. Place(rows, q) \in Nat /\ Place(rows, r) \in Nat
  BY PlaceType
<1>7. QED
  BY <1>3, <1>5, <1>6

\* Every place is taken by one row, and by one only.
LEMMA PlacesTaken ==
    ASSUME NEW rows, OneEach(rows)
    PROVE  /\ \A q, r \in rows : Place(rows, q) = Place(rows, r) => q = r
           /\ \A i \in 1..Cardinality(rows) : \E r \in rows : Place(rows, r) = i
<1> DEFINE placed == [r \in rows |-> Place(rows, r)]
           places == 1..Cardinality(rows)
<1>1. \A q, r \in rows : Place(rows, q) = Place(rows, r) => q = r
  <2> TAKE q \in rows, r \in rows
  <2>1. Place(rows, q) \in Nat /\ Place(rows, r) \in Nat
    BY PlaceType
  <2>2. q # r /\ NotAfter(q, r) => Place(rows, q) < Place(rows, r)
    BY PlaceGrows
  <2>3. q # r /\ NotAfter(r, q) => Place(rows, r) < Place(rows, q)
    BY PlaceGrows
  <2>4. QED
    BY <2>1, <2>2, <2>3, RowsCompare
<1>2. placed \in Injection(rows, places)
  BY <1>1, PlaceType DEF Injection, IsInjective
<1>3. IsFiniteSet(places) /\ Cardinality(places) = Cardinality(rows)
  BY RowsFinite, FS_Interval
<1>4. placed \in Surjection(rows, places)
  <2> HIDE DEF placed, places
  <2>1. QED
    BY <1>2, <1>3, FS_Injection
<1>5. QED
  BY <1>1, <1>4 DEF Surjection

\* A replay goes through the rows once each, and through nothing else.
LEMMA OrderHasAll ==
    ASSUME NEW rows, OneEach(rows)
    PROVE  /\ DOMAIN InOrder(rows) = 1..Cardinality(rows)
           /\ \A i \in DOMAIN InOrder(rows) :
                InOrder(rows)[i] \in rows /\ Place(rows, InOrder(rows)[i]) = i
           /\ \A r \in rows : \E i \in DOMAIN InOrder(rows) : InOrder(rows)[i] = r
<1>1. DOMAIN InOrder(rows) = 1..Cardinality(rows)
  BY DEF InOrder
<1>2. ASSUME NEW i \in 1..Cardinality(rows)
      PROVE  InOrder(rows)[i] \in rows /\ Place(rows, InOrder(rows)[i]) = i
  <2>1. InOrder(rows)[i] = CHOOSE r \in rows : Place(rows, r) = i
    BY DEF InOrder
  <2>2. \E r \in rows : Place(rows, r) = i
    BY PlacesTaken
  <2>3. QED
    BY <2>1, <2>2
<1>3. ASSUME NEW r \in rows
      PROVE  \E i \in DOMAIN InOrder(rows) : InOrder(rows)[i] = r
  <2> DEFINE i == Place(rows, r)
  <2>1. i \in 1..Cardinality(rows)
    BY PlaceType
  <2>2. InOrder(rows)[i] = r
    BY <1>2, <2>1, PlacesTaken
  <2>3. QED
    BY <1>1, <2>1, <2>2
<1>4. QED
  BY <1>1, <1>2, <1>3

-----------------------------------------------------------------------------
(* A replay.                                                               *)

LEMMA HeldTyped ==
    ASSUME TypeInv, NEW t \in Thread
    PROVE  /\ contests[t] \in SUBSET Held
           /\ \A q \in contests[t] : q.id \in Contest /\ q.row \in Window
           /\ OneEach(contests[t])
<1>1. contests[t] \in SUBSET Held
  BY DEF TypeInv, ThreadsOK
<1>2. OneEach(contests[t])
  BY <1>1 DEF TypeInv, OneRowEach, OneEach
<1>3. QED
  BY <1>1, <1>2 DEF Held

\* A contest is rated by the one row that the list has of it.
LEMMA ReplayedBy ==
    ASSUME TypeInv, NEW t \in Thread, NEW c
    PROVE  /\ \A q \in contests[t] : q.id = c => Replayed(t, c) = Played(Board(c, q.row))
           /\ (\A q \in contests[t] : q.id # c) => Replayed(t, c) = NoBoard
           /\ Replayed(t, c) \in BoardType
<1> DEFINE rows == {q \in contests[t] : q.id = c}
           one == CHOOSE q \in rows : TRUE
<1>1. Replayed(t, c) = IF rows = {} THEN NoBoard ELSE Played(Board(c, one.row))
  BY DEF Replayed
<1>2. ASSUME NEW q \in contests[t], q.id = c
      PROVE  Replayed(t, c) = Played(Board(c, q.row))
  <2>1. rows # {} /\ one \in rows
    BY <1>2
  <2>2. one = q
    BY <1>2, <2>1, HeldTyped DEF OneEach
  <2> HIDE DEF rows, one
  <2>3. QED
    BY <1>1, <2>1, <2>2
<1>3. ASSUME \A q \in contests[t] : q.id # c PROVE Replayed(t, c) = NoBoard
  BY <1>1, <1>3
<1>4. Replayed(t, c) \in BoardType
  <2> HIDE DEF rows, one
  <2>1. QED
    BY <1>1, BoardTyped, NoBoardTyped
<1>5. QED
  BY <1>2, <1>3, <1>4

\* The numbers are played from every contest that rated somebody, once.
LEMMA PlayedOnce ==
    ASSUME TypeInv, NEW t \in Thread
    PROVE  /\ Numbers(t) \in Seq(Contest)
           /\ \A i, j \in DOMAIN Numbers(t) : Numbers(t)[i] = Numbers(t)[j] => i = j
           /\ \A c \in Contest :
                Replayed(t, c) # NoBoard <=> \E i \in DOMAIN Numbers(t) : Numbers(t)[i] = c
           /\ \A i \in DOMAIN Numbers(t) : \E q \in contests[t] : q.id = Numbers(t)[i]
<1> DEFINE played == {r \in contests[t] : Replayed(t, r.id) # NoBoard}
           rows == InOrder(played)
<1>1. OneEach(played)
  BY HeldTyped DEF OneEach
<1>2. Numbers(t) = [i \in DOMAIN rows |-> rows[i].id]
  BY DEF Numbers, PlayedInOrder
<1>3. \A r \in played : r \in contests[t] /\ r.id \in Contest
  BY HeldTyped
<1>4. \A c : Replayed(t, c) # NoBoard <=> \E r \in played : r.id = c
  BY ReplayedBy
<1>5. \A q, r \in played : q.id = r.id => q = r
  BY <1>1 DEF OneEach
<1> HIDE DEF played
<1>6. /\ DOMAIN rows = 1..Cardinality(played) /\ Cardinality(played) \in Nat
      /\ \A i \in DOMAIN rows : rows[i] \in played /\ Place(played, rows[i]) = i
      /\ \A r \in played : \E i \in DOMAIN rows : rows[i] = r
  BY <1>1, OrderHasAll, RowsFinite
<1> HIDE DEF rows
<1>7. Numbers(t) \in Seq(Contest)
  <2>1. Numbers(t) \in [1..Cardinality(played) -> Contest]
    BY <1>2, <1>3, <1>6
  <2>2. QED
    BY <1>6, <2>1
<1>8. DOMAIN Numbers(t) = DOMAIN rows /\ \A i \in DOMAIN rows : Numbers(t)[i] = rows[i].id
  BY <1>2
<1>9. \A i, j \in DOMAIN rows : rows[i].id = rows[j].id => i = j
  BY <1>5, <1>6
<1>10. QED
  BY <1>3, <1>4, <1>6, <1>7, <1>8, <1>9

-----------------------------------------------------------------------------
(* Types.                                                                  *)

LEMMA InitTyped == Init => TypeInv
<1> SUFFICES ASSUME Init PROVE TypeInv
  OBVIOUS
<1>1. DbOK
  <2>1. NoRow \in Window /\ now \in Time /\ NoSubmission \in Rows
    BY RatingsBounds DEF Init, Time, NoRow, Window, NoSubmission, Rows, States
  <2>2. contest \in [Contest -> Window] /\ sub \in [Sub -> Rows]
    BY <2>1 DEF Init
  <2>3. changes \in [Contest -> BoardType]
    BY NoBoardTyped DEF Init
  <2>4. numbers \in Seq(Contest) /\ created <= NContests
    BY RatingsBounds DEF Init
  <2>5. QED
    BY <2>1, <2>2, <2>3, <2>4 DEF Init, DbOK
<1>2. AdmittedOK
  BY DEF Init, AdmittedOK, NoSubmission
<1>3. ThreadsOK
  <2>1. edit \in [Admin -> Edits]
    BY DEF Init, NoEdit, Edits
  <2>2. QED
    BY <2>1 DEF Init, ThreadsOK
<1>4. \A w \in Worker : WorkerOK(w)
  BY DEF Init, WorkerOK, NoSub, Sub, Thread
<1>5. \A a \in Admin : AdminOK(a)
  BY DEF Init, AdminOK, Thread
<1>6. \A t \in Thread : OneRowEach(t)
  BY DEF Init, OneRowEach
<1>7. QED
  BY <1>1, <1>2, <1>3, <1>4, <1>5, <1>6 DEF TypeInv

LEMMA ThreadsStay ==
    ASSUME TypeInv, UNCHANGED threadVars
    PROVE  /\ ThreadsOK'
           /\ \A w \in Worker : WorkerOK(w)'
           /\ \A a \in Admin : AdminOK(a)'
           /\ \A t \in Thread : OneRowEach(t)'
<1>1. ThreadsOK'
  BY DEF TypeInv, ThreadsOK, threadVars
<1>2. \A w \in Worker : WorkerOK(w)'
  BY DEF TypeInv, WorkerOK, threadVars
<1>3. \A a \in Admin : AdminOK(a)'
  BY DEF TypeInv, AdminOK, threadVars
<1>4. \A t \in Thread : OneRowEach(t)'
  BY DEF TypeInv, OneRowEach, threadVars
<1>5. QED
  BY <1>1, <1>2, <1>3, <1>4

LEMMA DbStays ==
    ASSUME TypeInv, UNCHANGED <<now, dbVars, created, excused>>, troubles' \in Nat
    PROVE  DbOK' /\ AdmittedOK'
BY DEF TypeInv, DbOK, AdmittedOK, dbVars, contestVars, ratingVars

LEMMA TroubleTyped == ASSUME TypeInv, Trouble PROVE troubles' \in Nat
BY DEF TypeInv, DbOK, Trouble

LEMMA TickTyped == ASSUME TypeInv, Tick PROVE TypeInv'
<1>1. DbOK' /\ AdmittedOK'
  BY RatingsBounds DEF TypeInv, DbOK, AdmittedOK, Tick, Time, dbVars, contestVars, ratingVars,
     boundVars
<1>2. UNCHANGED threadVars
  BY DEF Tick
<1>3. QED
  BY <1>1, <1>2, ThreadsStay DEF TypeInv

LEMMA AdmitTyped ==
    ASSUME TypeInv, NEW s \in Sub, NEW c \in Contest, Admit(s, c)
    PROVE  TypeInv'
<1>1. /\ sub' = [sub EXCEPT ![s] = [st |-> "admitted", contest |-> c, at |-> now]]
      /\ UNCHANGED <<now, contest, problems, ratedAt, changes, numbers, excused, created, troubles>>
      /\ UNCHANGED threadVars
  BY DEF Admit, contestVars, ratingVars, boundVars
<1>2. [st |-> "admitted", contest |-> c, at |-> now] \in Rows
  BY DEF TypeInv, DbOK, Rows, States
<1>3. DbOK'
  BY <1>1, <1>2 DEF TypeInv, DbOK
<1>4. AdmittedOK'
  BY <1>1 DEF TypeInv, DbOK, AdmittedOK
<1>5. QED
  BY <1>1, <1>3, <1>4, ThreadsStay DEF TypeInv

\* A submission's state is all that changes, and it is not waiting for its INSERT.
LEMMA StateTyped ==
    ASSUME TypeInv, NEW s \in Sub, NEW v \in States \ {"admitted"},
           sub' = [sub EXCEPT ![s].st = v],
           UNCHANGED <<now, contestVars, ratingVars, created>>,
           troubles' \in Nat, excused' \subseteq Contest
    PROVE  DbOK' /\ AdmittedOK'
<1>1. [sub[s] EXCEPT !.st = v] \in Rows
  BY DEF TypeInv, DbOK, Rows
<1>2. sub' \in [Sub -> Rows]
  BY <1>1 DEF TypeInv, DbOK
<1>3. DbOK'
  BY <1>2 DEF TypeInv, DbOK, contestVars, ratingVars
<1>4. AdmittedOK'
  BY DEF TypeInv, DbOK, AdmittedOK, Rows
<1>5. QED
  BY <1>3, <1>4

LEMMA InsertTyped == ASSUME TypeInv, NEW s \in Sub, Insert(s) PROVE TypeInv'
<1> DEFINE v == IF Exists(sub[s].contest) THEN PENDING ELSE "refused"
<1>1. /\ sub[s].st = "admitted"
      /\ sub' = [sub EXCEPT ![s].st = v]
      /\ UNCHANGED <<now, contestVars, ratingVars, threadVars, created, troubles>>
  BY DEF Insert, boundVars
<1>2. v \in States \ {"admitted"}
  BY DEF States, InFlight, PENDING
<1>3. excused' \subseteq Contest
  BY <1>1 DEF Insert, TypeInv, DbOK, AdmittedOK
<1>4. troubles' \in Nat
  BY <1>1 DEF TypeInv, DbOK
<1> HIDE DEF v
<1>5. DbOK' /\ AdmittedOK'
  BY <1>1, <1>2, <1>3, <1>4, StateTyped
<1>6. QED
  BY <1>1, <1>5, ThreadsStay DEF TypeInv

LEMMA RejudgeTyped == ASSUME TypeInv, NEW s \in Sub, Rejudge(s) PROVE TypeInv'
<1>1. /\ sub' = [sub EXCEPT ![s].st = PENDING]
      /\ UNCHANGED <<now, contestVars, ratingVars, threadVars, created>>
      /\ Trouble
  BY DEF Rejudge
<1>2. PENDING \in States \ {"admitted"}
  BY DEF States, InFlight, PENDING
<1>3. excused' \subseteq Contest
  BY DEF Rejudge, TypeInv, DbOK, Rows
<1>4. DbOK' /\ AdmittedOK'
  BY <1>1, <1>2, <1>3, TroubleTyped, StateTyped
<1>5. QED
  BY <1>1, <1>4, ThreadsStay DEF TypeInv

LEMMA CreateTyped == ASSUME TypeInv, NEW b \in Bodies, CreateContest(b) PROVE TypeInv'
<1> DEFINE c == created + 1
<1>1. /\ created < NContests /\ created' = c
      /\ contest' = [contest EXCEPT ![c] = b] /\ problems' = problems \cup {c}
      /\ UNCHANGED <<now, ratedAt, changes, numbers, sub, troubles, excused>>
      /\ UNCHANGED threadVars
  BY DEF CreateContest, ratingVars
<1>2. c \in Contest /\ c \in Nat /\ c <= NContests /\ b \in Window
  BY <1>1, RatingsBounds DEF TypeInv, DbOK, Contest
<1>3. contest' \in [Contest -> Window] /\ problems' \subseteq Contest
  BY <1>1, <1>2 DEF TypeInv, DbOK
<1>4. DbOK' /\ AdmittedOK'
  BY <1>1, <1>2, <1>3 DEF TypeInv, DbOK, AdmittedOK
<1>5. QED
  BY <1>1, <1>4, ThreadsStay DEF TypeInv

LEMMA SetProblemsTyped == ASSUME TypeInv, NEW c \in Contest, SetProblems(c) PROVE TypeInv'
<1>1. /\ UNCHANGED <<now, contest, ratedAt, changes, numbers, sub, created>>
      /\ UNCHANGED threadVars
  BY DEF SetProblems, ratingVars
<1>2. problems' \subseteq Contest /\ excused' \subseteq Contest
  BY DEF SetProblems, TypeInv, DbOK
<1>3. troubles' \in Nat
  BY TroubleTyped DEF SetProblems
<1>4. DbOK' /\ AdmittedOK'
  BY <1>1, <1>2, <1>3 DEF TypeInv, DbOK, AdmittedOK
<1>5. QED
  BY <1>1, <1>4, ThreadsStay DEF TypeInv

LEMMA DeleteTyped == ASSUME TypeInv, NEW c \in Contest, DeleteContest(c) PROVE TypeInv'
<1>1. /\ contest' = [contest EXCEPT ![c] = NoRow]
      /\ problems' = problems \ {c} /\ ratedAt' = ratedAt \ {c}
      /\ changes' = [changes EXCEPT ![c] = NoBoard]
      /\ sub' = [s \in Sub |-> IF s \in Of(c)
            THEN [sub[s] EXCEPT !.contest = NoContest] ELSE sub[s]]
      /\ UNCHANGED <<now, numbers, threadVars, created, excused>>
      /\ Trouble
  BY DEF DeleteContest
<1>2. NoRow \in Window
  BY RatingsBounds DEF NoRow, Window, Time
<1>3. contest' \in [Contest -> Window] /\ changes' \in [Contest -> BoardType]
  BY <1>1, <1>2, NoBoardTyped DEF TypeInv, DbOK
<1>4. \A s \in Sub : sub'[s] \in Rows
  BY <1>1 DEF TypeInv, DbOK, Rows
<1>5. sub' \in [Sub -> Rows]
  BY <1>1, <1>4
<1>6. AdmittedOK'
  <2>1. \A s \in Of(c) : sub[s].st # "admitted"
    BY DEF Of, InFlight, Judged, PENDING, JUDGING
  <2>2. \A s \in Sub : sub'[s].st = sub[s].st /\ (s \notin Of(c) => sub'[s] = sub[s])
    BY <1>1 DEF TypeInv, DbOK, Rows
  <2>3. QED
    BY <2>1, <2>2 DEF TypeInv, AdmittedOK
<1>7. DbOK'
  BY <1>1, <1>3, <1>5, TroubleTyped DEF TypeInv, DbOK
<1>8. QED
  BY <1>1, <1>6, <1>7, ThreadsStay DEF TypeInv

LEMMA ClaimTyped ==
    ASSUME TypeInv, NEW w \in Worker, NEW s \in Sub, Claim(w, s)
    PROVE  TypeInv'
<1>1. /\ pc[w] = "idle"
      /\ sub' = [sub EXCEPT ![s].st = JUDGING]
      /\ pc' = [pc EXCEPT ![w] = "judging"] /\ job' = [job EXCEPT ![w] = s]
      /\ UNCHANGED <<now, contestVars, ratingVars, seen, ready, contests, edit, created,
                     troubles, excused>>
  BY DEF Claim, boundVars
<1>2. JUDGING \in States \ {"admitted"}
  BY DEF States, InFlight, JUDGING
<1>3. DbOK' /\ AdmittedOK'
  <2>1. troubles' \in Nat /\ excused' \subseteq Contest
    BY <1>1 DEF TypeInv, DbOK
  <2>2. QED
    BY <1>1, <1>2, <2>1, StateTyped
<1>4. ThreadsOK'
  BY <1>1 DEF TypeInv, ThreadsOK
<1>5. \A v \in Worker : WorkerOK(v)'
  BY <1>1 DEF TypeInv, ThreadsOK, WorkerOK, Thread
<1>6. \A a \in Admin : AdminOK(a)'
  BY <1>1, RatingsBounds DEF TypeInv, ThreadsOK, AdminOK, Thread
<1>7. \A t \in Thread : OneRowEach(t)'
  BY <1>1 DEF TypeInv, OneRowEach
<1>8. QED
  BY <1>3, <1>4, <1>5, <1>6, <1>7 DEF TypeInv

LEMMA StoreTyped == ASSUME TypeInv, NEW w \in Worker, Store(w) PROVE TypeInv'
<1> DEFINE s == job[w]
<1>1. PICK v \in Judged : sub' = [sub EXCEPT ![s].st = v]
  BY DEF Store
<1>2. /\ pc[w] = "judging"
      /\ pc' = [pc EXCEPT ![w] = "idle"] /\ job' = [job EXCEPT ![w] = NoSub]
      /\ UNCHANGED <<now, contestVars, ratingVars, seen, ready, contests, edit, created, troubles>>
  BY DEF Store, boundVars
<1>3. s \in Sub /\ v \in States \ {"admitted"} /\ troubles' \in Nat
  BY <1>2 DEF TypeInv, DbOK, WorkerOK, States, Judged
<1>4. excused' \subseteq Contest
  BY <1>3 DEF Store, TypeInv, DbOK, Rows
<1> HIDE DEF s
<1>5. DbOK' /\ AdmittedOK'
  BY <1>1, <1>2, <1>3, <1>4, StateTyped
<1>6. ThreadsOK'
  BY <1>2 DEF TypeInv, ThreadsOK
<1>7. \A v1 \in Worker : WorkerOK(v1)'
  BY <1>2 DEF TypeInv, ThreadsOK, WorkerOK, Thread, NoSub, Sub
<1>8. \A a \in Admin : AdminOK(a)'
  BY <1>2, RatingsBounds DEF TypeInv, ThreadsOK, AdminOK, Thread
<1>9. \A t \in Thread : OneRowEach(t)'
  BY <1>2 DEF TypeInv, OneRowEach
<1>10. QED
  BY <1>5, <1>6, <1>7, <1>8, <1>9 DEF TypeInv

LEMMA RowsTyped == ASSUME TypeInv, NEW c \in Contest PROVE RowOf(c) \in Held
BY DEF TypeInv, DbOK, RowOf, Held

LEMMA PollTyped == ASSUME TypeInv, NEW w \in Worker, Poll(w) PROVE TypeInv'
<1> DEFINE rows == {RowOf(c) : c \in {d \in Contest \ ratedAt : Exists(d) /\ contest[d].rated}}
<1>1. /\ pc[w] = "idle"
      /\ seen' = [seen EXCEPT ![w] = rows] /\ seen'[w] # {}
      /\ pc' = [pc EXCEPT ![w] = "awaiting"]
      /\ UNCHANGED <<now, dbVars, job, ready, contests, edit, created, troubles, excused>>
  BY DEF Poll, boundVars
<1>2. rows \in SUBSET Held
  BY RowsTyped
<1> HIDE DEF rows
<1>3. DbOK' /\ AdmittedOK'
  <2>1. troubles' \in Nat
    BY <1>1 DEF TypeInv, DbOK
  <2>2. QED
    BY <1>1, <2>1, DbStays
<1>4. ThreadsOK'
  BY <1>1, <1>2 DEF TypeInv, ThreadsOK
<1>5. \A v \in Worker : WorkerOK(v)'
  BY <1>1 DEF TypeInv, ThreadsOK, WorkerOK, Thread
<1>6. \A a \in Admin : AdminOK(a)'
  BY <1>1, RatingsBounds DEF TypeInv, ThreadsOK, AdminOK, Thread
<1>7. \A t \in Thread : OneRowEach(t)'
  BY <1>1 DEF TypeInv, OneRowEach
<1>8. QED
  BY <1>3, <1>4, <1>5, <1>6, <1>7 DEF TypeInv

LEMMA CheckTyped == ASSUME TypeInv, NEW w \in Worker, Check(w) PROVE TypeInv'
<1>1. PICK r \in seen[w] :
        /\ seen' = [seen EXCEPT ![w] = @ \ {r}]
        /\ ready' = [ready EXCEPT ![w] = IF IsReady(r) THEN @ \cup {r} ELSE @]
  BY DEF Check
<1>2. /\ pc[w] = "awaiting"
      /\ pc' = [pc EXCEPT ![w] = AfterCheck(seen'[w], ready'[w])]
      /\ UNCHANGED <<now, dbVars, job, contests, edit, created, troubles, excused>>
  BY DEF Check, boundVars
<1>3. r \in Held /\ seen'[w] \in SUBSET Held /\ ready'[w] \in SUBSET Held
  BY <1>1 DEF TypeInv, ThreadsOK
<1>4. AfterCheck(seen'[w], ready'[w]) \in {"idle", "awaiting", "list"}
  BY DEF AfterCheck
<1>5. DbOK' /\ AdmittedOK'
  <2>1. troubles' \in Nat
    BY <1>2 DEF TypeInv, DbOK
  <2>2. QED
    BY <1>2, <2>1, DbStays
<1>6. ThreadsOK'
  BY <1>1, <1>2, <1>3, <1>4 DEF TypeInv, ThreadsOK
<1>7. ASSUME NEW v \in Worker PROVE WorkerOK(v)'
  <2>1. WorkerOK(v) /\ WorkerOK(w)
    BY DEF TypeInv
  <2>2. CASE v = w
    <3>1. pc'[w] = AfterCheck(seen'[w], ready'[w]) /\ job'[w] = job[w]
      BY <1>2 DEF TypeInv, ThreadsOK, Thread
    <3>2. QED
      BY <1>2, <2>1, <2>2, <3>1 DEF WorkerOK, AfterCheck
  <2>3. CASE v # w
    <3>1. /\ pc'[v] = pc[v] /\ job'[v] = job[v]
          /\ seen'[v] = seen[v] /\ ready'[v] = ready[v]
      BY <1>1, <1>2, <2>3 DEF TypeInv, ThreadsOK, Thread
    <3>2. QED
      BY <2>1, <3>1 DEF WorkerOK
  <2>4. QED
    BY <2>2, <2>3
<1>8. \A a \in Admin : AdminOK(a)'
  BY <1>2, RatingsBounds DEF TypeInv, ThreadsOK, AdminOK, Thread
<1>9. \A t \in Thread : OneRowEach(t)'
  BY <1>2 DEF TypeInv, OneRowEach
<1>10. QED
  BY <1>5, <1>6, <1>7, <1>8, <1>9 DEF TypeInv

LEMMA ListTyped == ASSUME TypeInv, NEW t \in Thread, RatedContests(t) PROVE TypeInv'
<1> DEFINE rows == {RowOf(c) : c \in {d \in Contest : RatedAndOver(d)}}
<1>1. /\ pc[t] = "list"
      /\ contests' = [contests EXCEPT ![t] = rows]
      /\ pc' = [pc EXCEPT ![t] = "replay"]
      /\ UNCHANGED <<now, dbVars, job, seen, ready, edit, created, troubles, excused>>
  BY DEF RatedContests, boundVars
<1>2. rows \in SUBSET Held
  BY RowsTyped
<1>3. \A q, r \in rows : q.id = r.id => q = r
  BY DEF RowOf
<1> HIDE DEF rows
<1>4. DbOK' /\ AdmittedOK'
  <2>1. troubles' \in Nat
    BY <1>1 DEF TypeInv, DbOK
  <2>2. QED
    BY <1>1, <2>1, DbStays
<1>5. ThreadsOK'
  BY <1>1, <1>2 DEF TypeInv, ThreadsOK
<1>6. \A v \in Worker : WorkerOK(v)'
  BY <1>1 DEF TypeInv, ThreadsOK, WorkerOK, Thread
<1>7. \A a \in Admin : AdminOK(a)'
  BY <1>1 DEF TypeInv, ThreadsOK, AdminOK, Thread
<1>8. \A u \in Thread : OneRowEach(u)'
  BY <1>1, <1>3 DEF TypeInv, ThreadsOK, OneRowEach
<1>9. QED
  BY <1>4, <1>5, <1>6, <1>7, <1>8 DEF TypeInv

\* A thread that goes to rest holds no more than it should, if it looked at no
\* rows or forgets them.
LEMMA RestTyped ==
    ASSUME TypeInv, NEW t \in Thread, AtRest(t), UNCHANGED job,
           pc[t] # "judging",
           \A w \in Worker : seen'[w] = IF w = t THEN {} ELSE seen[w],
           seen' \in [Worker -> SUBSET Held]
    PROVE  /\ ThreadsOK'
           /\ \A w \in Worker : WorkerOK(w)'
           /\ \A a \in Admin : AdminOK(a)'
           /\ \A u \in Thread : OneRowEach(u)'
<1>1. /\ pc' = [pc EXCEPT ![t] = "idle"]
      /\ contests' = [contests EXCEPT ![t] = {}]
      /\ ready' = [w \in Worker |-> IF w = t THEN {} ELSE ready[w]]
      /\ edit' = [a \in Admin |-> IF a = t THEN NoEdit ELSE edit[a]]
  BY DEF AtRest
<1>2. ThreadsOK'
  <2>1. NoEdit \in Edits
    BY DEF NoEdit, Edits
  <2>2. edit' \in [Admin -> Edits]
    BY <1>1, <2>1 DEF TypeInv, ThreadsOK
  <2>3. ready' \in [Worker -> SUBSET Held]
    BY <1>1 DEF TypeInv, ThreadsOK
  <2>4. QED
    BY <1>1, <2>2, <2>3 DEF TypeInv, ThreadsOK
<1>3. \A w \in Worker : WorkerOK(w)'
  BY <1>1 DEF TypeInv, ThreadsOK, WorkerOK, Thread
<1>4. \A a \in Admin : AdminOK(a)'
  BY <1>1 DEF TypeInv, ThreadsOK, AdminOK, Thread
<1>5. \A u \in Thread : OneRowEach(u)'
  BY <1>1 DEF TypeInv, ThreadsOK, OneRowEach
<1>6. QED
  BY <1>2, <1>3, <1>4, <1>5

LEMMA ReplayTyped == ASSUME TypeInv, NEW t \in Thread, Replay(t) PROVE TypeInv'
<1>1. /\ pc[t] = "replay"
      /\ changes' = [c \in Contest |-> Replayed(t, c)]
      /\ numbers' = Numbers(t)
      /\ ratedAt' = Marked(t)
      /\ excused' = Premature(t) \cup {c \in excused : Busy(c)}
      /\ AtRest(t)
      /\ UNCHANGED <<now, contest, problems, sub, job, seen, created, troubles>>
  BY DEF Replay, contestVars, boundVars
<1>2. changes' \in [Contest -> BoardType]
  BY <1>1, ReplayedBy
<1>3. numbers' \in Seq(Contest)
  BY <1>1, PlayedOnce
<1>4. ratedAt' \subseteq Contest /\ excused' \subseteq Contest
  BY <1>1, HeldTyped DEF TypeInv, DbOK, Marked, Premature
<1>5. DbOK'
  BY <1>1, <1>2, <1>3, <1>4 DEF TypeInv, DbOK
<1>6. AdmittedOK'
  BY <1>1 DEF TypeInv, AdmittedOK
<1>7. \A w \in Worker : seen'[w] = IF w = t THEN {} ELSE seen[w]
  BY <1>1 DEF TypeInv, WorkerOK
<1>8. seen' \in [Worker -> SUBSET Held]
  BY <1>1 DEF TypeInv, ThreadsOK
<1>9. QED
  BY <1>1, <1>5, <1>6, <1>7, <1>8, RestTyped DEF TypeInv

LEMMA FaultTyped == ASSUME TypeInv, NEW t \in Thread, Fault(t) PROVE TypeInv'
<1>1. /\ pc[t] \in {"awaiting", "list", "replay"}
      /\ Trouble
      /\ AtRest(t)
      /\ seen' = [w \in Worker |-> IF w = t THEN {} ELSE seen[w]]
      /\ UNCHANGED <<now, dbVars, job, created, excused>>
  BY DEF Fault
<1>2. DbOK' /\ AdmittedOK'
  BY <1>1, TroubleTyped, DbStays
<1>3. seen' \in [Worker -> SUBSET Held]
  BY <1>1 DEF TypeInv, ThreadsOK
<1>4. \A w \in Worker : seen'[w] = IF w = t THEN {} ELSE seen[w]
  BY <1>1
<1>5. QED
  BY <1>1, <1>2, <1>3, <1>4, RestTyped DEF TypeInv

\* An administrator's thread starts a request, or goes on with it.
LEMMA RequestTyped ==
    ASSUME TypeInv, NEW a \in Admin, NEW where \in {"patch", "list"},
           pc' = [pc EXCEPT ![a] = where],
           edit' \in [Admin -> Edits],
           \A x \in Admin \ {a} : edit'[x] = edit[x],
           where = "patch" => edit'[a].id \in Contest /\ edit'[a].fields \in Patches,
           UNCHANGED <<job, seen, ready, contests>>
    PROVE  /\ ThreadsOK'
           /\ \A w \in Worker : WorkerOK(w)'
           /\ \A x \in Admin : AdminOK(x)'
           /\ \A t \in Thread : OneRowEach(t)'
<1>1. ThreadsOK'
  BY DEF TypeInv, ThreadsOK
<1>2. \A w \in Worker : WorkerOK(w)'
  BY RatingsBounds DEF TypeInv, ThreadsOK, WorkerOK, Thread
<1>3. \A x \in Admin : AdminOK(x)'
  BY DEF TypeInv, ThreadsOK, AdminOK, Thread
<1>4. \A t \in Thread : OneRowEach(t)'
  BY DEF TypeInv, OneRowEach
<1>5. QED
  BY <1>1, <1>2, <1>3, <1>4

LEMMA PatchReadTyped ==
    ASSUME TypeInv, NEW a \in Admin, NEW c \in Contest, NEW p \in Patches, PatchRead(a, c, p)
    PROVE  TypeInv'
<1> DEFINE e == [id |-> c, fields |-> p]
<1>1. /\ Trouble
      /\ edit' = [edit EXCEPT ![a] = e]
      /\ pc' = [pc EXCEPT ![a] = "patch"]
      /\ UNCHANGED <<now, dbVars, job, seen, ready, contests, created, excused>>
  BY DEF PatchRead
<1>2. e \in Edits /\ e.id = c /\ e.fields = p
  BY DEF Edits
<1> HIDE DEF e
<1>3. edit' \in [Admin -> Edits] /\ edit'[a] = e /\ \A x \in Admin \ {a} : edit'[x] = edit[x]
  BY <1>1, <1>2 DEF TypeInv, ThreadsOK
<1>4. /\ ThreadsOK'
      /\ \A w \in Worker : WorkerOK(w)'
      /\ \A x \in Admin : AdminOK(x)'
      /\ \A t \in Thread : OneRowEach(t)'
  BY <1>1, <1>2, <1>3, RequestTyped
<1>5. DbOK' /\ AdmittedOK'
  BY <1>1, TroubleTyped, DbStays
<1>6. QED
  BY <1>4, <1>5 DEF TypeInv

LEMMA AskTyped == ASSUME TypeInv, NEW a \in Admin, AskRecompute(a) PROVE TypeInv'
<1>1. /\ Trouble
      /\ pc' = [pc EXCEPT ![a] = "list"]
      /\ UNCHANGED <<now, dbVars, job, seen, ready, contests, edit, created, excused>>
  BY DEF AskRecompute
<1>2. edit' \in [Admin -> Edits]
  BY <1>1 DEF TypeInv, ThreadsOK
<1>3. /\ ThreadsOK'
      /\ \A w \in Worker : WorkerOK(w)'
      /\ \A x \in Admin : AdminOK(x)'
      /\ \A t \in Thread : OneRowEach(t)'
  BY <1>1, <1>2, RequestTyped
<1>4. DbOK' /\ AdmittedOK'
  BY <1>1, TroubleTyped, DbStays
<1>5. QED
  BY <1>3, <1>4 DEF TypeInv

LEMMA PatchedTyped ==
    ASSUME NEW p \in Patches, NEW row \in Window PROVE Patched(p, row) \in Window
BY RatingsBounds DEF Patched, Window

LEMMA PatchWriteTyped == ASSUME TypeInv, NEW a \in Admin, PatchWrite(a) PROVE TypeInv'
<1> DEFINE c == edit[a].id
           row == Patched(edit[a].fields, contest[c])
<1>1. /\ pc[a] = "patch"
      /\ contest' = IF Exists(c) THEN [contest EXCEPT ![c] = row] ELSE contest
      /\ excused' = excused \cup {c}
      /\ pc' = [pc EXCEPT ![a] = "list"]
      /\ UNCHANGED <<now, problems, ratedAt, changes, numbers, sub, job, seen, ready, contests,
                     edit, created, troubles>>
  BY DEF PatchWrite, ratingVars, boundVars
<1>2. c \in Contest /\ row \in Window
  BY <1>1, PatchedTyped DEF TypeInv, DbOK, AdminOK
<1> HIDE DEF c, row
<1>3. contest' \in [Contest -> Window] /\ excused' \subseteq Contest
  BY <1>1, <1>2 DEF TypeInv, DbOK
<1>4. DbOK' /\ AdmittedOK'
  BY <1>1, <1>3 DEF TypeInv, DbOK, AdmittedOK
<1>5. edit' \in [Admin -> Edits]
  BY <1>1 DEF TypeInv, ThreadsOK
<1>6. /\ ThreadsOK'
      /\ \A w \in Worker : WorkerOK(w)'
      /\ \A x \in Admin : AdminOK(x)'
      /\ \A t \in Thread : OneRowEach(t)'
  BY <1>1, <1>5, RequestTyped
<1>7. QED
  BY <1>4, <1>6 DEF TypeInv

LEMMA RestartTyped == ASSUME TypeInv, Restart PROVE TypeInv'
<1>1. /\ Trouble
      /\ pc' = [t \in Thread |-> "idle"] /\ job' = [w \in Worker |-> NoSub]
      /\ seen' = [w \in Worker |-> {}] /\ ready' = [w \in Worker |-> {}]
      /\ contests' = [t \in Thread |-> {}] /\ edit' = [a \in Admin |-> NoEdit]
      /\ UNCHANGED <<now, contest, problems, ratedAt, changes, numbers, created, excused>>
  BY DEF Restart, contestVars, ratingVars
<1>2. /\ sub' \in [Sub -> Rows]
      /\ \A s \in Sub : sub'[s].st # "admitted"
  <2>1. sub' = [s \in Sub |-> CASE sub[s].st = JUDGING -> [sub[s] EXCEPT !.st = PENDING]
            [] sub[s].st = "admitted" -> [sub[s] EXCEPT !.st = "refused"]
            [] OTHER -> sub[s]]
    BY DEF Restart
  <2>2. ASSUME NEW s \in Sub PROVE sub'[s] \in Rows /\ sub'[s].st # "admitted"
    <3>1. sub[s] \in Rows
      BY DEF TypeInv, DbOK
    <3>2. CASE sub[s].st = JUDGING
      <4>1. sub'[s] = [sub[s] EXCEPT !.st = PENDING]
        BY <2>1, <3>2 DEF JUDGING
      <4>2. QED
        BY <3>1, <4>1 DEF Rows, States, InFlight, PENDING
    <3>3. CASE sub[s].st = "admitted"
      <4>1. sub'[s] = [sub[s] EXCEPT !.st = "refused"]
        BY <2>1, <3>3 DEF JUDGING
      <4>2. QED
        BY <3>1, <4>1 DEF Rows, States
    <3>4. CASE sub[s].st \notin {JUDGING, "admitted"}
      BY <2>1, <3>1, <3>4
    <3>5. QED
      BY <3>2, <3>3, <3>4
  <2>3. QED
    BY <2>1, <2>2
<1>3. DbOK' /\ AdmittedOK'
  BY <1>1, <1>2, TroubleTyped DEF TypeInv, DbOK, AdmittedOK
<1>4. ThreadsOK'
  BY <1>1 DEF ThreadsOK, NoEdit, Edits
<1>5. \A w \in Worker : WorkerOK(w)'
  BY <1>1 DEF WorkerOK, NoSub, Sub, Thread
<1>6. \A a \in Admin : AdminOK(a)'
  BY <1>1 DEF AdminOK, Thread
<1>7. \A t \in Thread : OneRowEach(t)'
  BY <1>1 DEF OneRowEach
<1>8. QED
  BY <1>3, <1>4, <1>5, <1>6, <1>7 DEF TypeInv

LEMMA IdleTyped == ASSUME TypeInv, UNCHANGED vars PROVE TypeInv'
<1>1. UNCHANGED threadVars /\ UNCHANGED <<now, dbVars, created, troubles, excused>>
  BY DEF vars, boundVars
<1>2. troubles' \in Nat
  BY <1>1 DEF TypeInv, DbOK
<1>3. QED
  BY <1>1, <1>2, DbStays, ThreadsStay DEF TypeInv

LEMMA StepTyped == TypeInv /\ [Next]_vars => TypeInv'
<1> SUFFICES ASSUME TypeInv, [Next]_vars PROVE TypeInv'
  OBVIOUS
<1>1. \A w \in Worker : w \in Thread
  BY DEF Thread
<1>2. \A a \in Admin : a \in Thread
  BY DEF Thread
<1>3. ASSUME NEW w \in Worker, WorkerStep(w) PROVE TypeInv'
  BY <1>1, <1>3, ClaimTyped, StoreTyped, PollTyped, CheckTyped, ListTyped, ReplayTyped
     DEF WorkerStep
<1>4. ASSUME NEW a \in Admin, AdminStep(a) PROVE TypeInv'
  BY <1>2, <1>4, PatchWriteTyped, ListTyped, ReplayTyped DEF AdminStep
<1>5. QED
  BY <1>3, <1>4, TickTyped, InsertTyped, RejudgeTyped, AdmitTyped, AskTyped, PatchReadTyped,
     FaultTyped, CreateTyped, SetProblemsTyped, DeleteTyped, RestartTyped, IdleTyped DEF Next

\* What TypeOK says follows, but for what a worker has by the step it is at.
LEMMA TypedIsOK == TypeInv => TypeOK
<1> SUFFICES ASSUME TypeInv PROVE TypeOK
  OBVIOUS
<1>1. \A s \in Sub :
        /\ sub[s].st \in {"new", "admitted", "refused"} \cup InFlight \cup Judged
        /\ sub[s].contest \in Contest \cup {NoContest}
        /\ sub[s].at \in Time
  BY DEF TypeInv, DbOK, Rows, States
<1>2. \A w \in Worker :
        /\ pc[w] \in {"idle", "judging", "awaiting", "list", "replay"}
        /\ pc[w] = "judging" <=> job[w] \in Sub
        /\ seen[w] \subseteq Held /\ (seen[w] # {} <=> pc[w] = "awaiting")
        /\ ready[w] \subseteq Held
        /\ pc[w] \in {"list", "replay"} => ready[w] # {}
  BY DEF TypeInv, ThreadsOK, WorkerOK, Thread
<1>3. \A a \in Admin :
        /\ pc[a] \in {"idle", "patch", "list", "replay"}
        /\ edit[a].id \in Contest \cup {NoContest}
        /\ pc[a] = "patch" => edit[a].id # NoContest
  BY DEF TypeInv, ThreadsOK, AdminOK, Thread, Edits, Contest, NoContest
<1>4. \A t \in Thread : contests[t] \subseteq Held
  BY DEF TypeInv, ThreadsOK
<1>5. QED
  BY <1>1, <1>2, <1>3, <1>4 DEF TypeInv, DbOK, TypeOK

LEMMA TypeInvariant == Spec => []TypeInv
BY InitTyped, StepTyped, PTL DEF Spec

\* Every variable of the settling keeps its type, for any number of contests,
\* submissions, workers and administrators, and what the threads hold fits the
\* step they are at (apply_finished_ratings, update_contest): a worker that
\* settles found something ready, one that judges has a submission.
THEOREM RatingsTyped == Spec => []TypeOK
BY TypeInvariant, TypedIsOK, PTL

-----------------------------------------------------------------------------
(* Contests that are not created yet.                                      *)

freshVars == <<contest, ratedAt, changes, numbers, seen, ready, contests, created>>

LEMMA InitFresh == Init => FreshInv
BY DEF Init, FreshInv, Unheard, Thread

LEMMA FreshStays == ASSUME FreshInv, UNCHANGED freshVars PROVE FreshInv'
BY DEF FreshInv, Unheard, freshVars

\* A contest that exists was created.
LEMMA ExistingCreated ==
    ASSUME TypeInv, FreshInv, NEW c \in Contest, Exists(c) PROVE c <= created
BY DEF TypeInv, DbOK, FreshInv, Unheard, Exists, Contest

LEMMA CreateFresh ==
    ASSUME TypeInv, FreshInv, NEW b \in Bodies, CreateContest(b) PROVE FreshInv'
<1>1. /\ created' = created + 1 /\ created \in Nat
      /\ contest' = [contest EXCEPT ![created + 1] = b]
      /\ UNCHANGED <<ratedAt, changes, numbers, seen, ready, contests>>
  BY DEF CreateContest, ratingVars, threadVars, TypeInv, DbOK
<1>2. ASSUME NEW c \in Contest, c > created' PROVE Unheard(c)'
  <2>1. c > created /\ c # created + 1 /\ c \in Nat
    BY <1>1, <1>2 DEF Contest
  <2>2. Unheard(c)
    BY <2>1 DEF FreshInv
  <2>3. contest'[c] = contest[c]
    BY <1>1, <2>1 DEF TypeInv, DbOK
  <2>4. QED
    BY <1>1, <2>2, <2>3 DEF Unheard
<1>3. QED
  BY <1>2 DEF FreshInv

LEMMA PatchWriteFresh ==
    ASSUME TypeInv, FreshInv, NEW a \in Admin, PatchWrite(a) PROVE FreshInv'
<1> DEFINE d == edit[a].id
           row == Patched(edit[a].fields, contest[d])
<1>1. /\ contest' = IF Exists(d) THEN [contest EXCEPT ![d] = row] ELSE contest
      /\ UNCHANGED <<ratedAt, changes, numbers, seen, ready, contests, created>>
  BY DEF PatchWrite, ratingVars, boundVars
<1> HIDE DEF d, row
<1>2. \A c \in Contest : contest[c] = NoRow => contest'[c] = NoRow
  BY <1>1 DEF TypeInv, DbOK, Exists
<1>3. QED
  BY <1>1, <1>2 DEF FreshInv, Unheard

LEMMA DeleteFresh ==
    ASSUME TypeInv, FreshInv, NEW d \in Contest, DeleteContest(d) PROVE FreshInv'
<1>1. /\ contest' = [contest EXCEPT ![d] = NoRow]
      /\ ratedAt' = ratedAt \ {d}
      /\ changes' = [changes EXCEPT ![d] = NoBoard]
      /\ UNCHANGED <<numbers, seen, ready, contests, created>>
  BY DEF DeleteContest, threadVars
<1>2. \A c \in Contest : /\ contest[c] = NoRow => contest'[c] = NoRow
                        /\ changes[c] = NoBoard => changes'[c] = NoBoard
  BY <1>1 DEF TypeInv, DbOK
<1>3. QED
  BY <1>1, <1>2 DEF FreshInv, Unheard

LEMMA PollFresh ==
    ASSUME TypeInv, FreshInv, NEW w \in Worker, Poll(w) PROVE FreshInv'
<1> DEFINE found == {d \in Contest \ ratedAt : Exists(d) /\ contest[d].rated}
<1>1. /\ seen' = [seen EXCEPT ![w] = {RowOf(c) : c \in found}]
      /\ UNCHANGED <<contest, ratedAt, changes, numbers, ready, contests, created>>
  BY DEF Poll, dbVars, contestVars, ratingVars, boundVars
<1>2. \A v \in Worker : \A r \in seen'[v] : r \in seen[v] \/ Exists(r.id)
  BY <1>1 DEF TypeInv, ThreadsOK, RowOf
<1>3. QED
  BY <1>1, <1>2 DEF FreshInv, Unheard, Exists

LEMMA CheckFresh ==
    ASSUME TypeInv, FreshInv, NEW w \in Worker, Check(w) PROVE FreshInv'
<1>1. PICK q \in seen[w] :
        /\ seen' = [seen EXCEPT ![w] = @ \ {q}]
        /\ ready' = [ready EXCEPT ![w] = IF IsReady(q) THEN @ \cup {q} ELSE @]
  BY DEF Check
<1>2. UNCHANGED <<contest, ratedAt, changes, numbers, contests, created>>
  BY DEF Check, dbVars, contestVars, ratingVars, boundVars
<1>3. \A v \in Worker : seen'[v] \cup ready'[v] \subseteq seen[v] \cup ready[v]
  BY <1>1 DEF TypeInv, ThreadsOK
<1>4. QED
  BY <1>2, <1>3 DEF FreshInv, Unheard

LEMMA ListFresh ==
    ASSUME TypeInv, FreshInv, NEW t \in Thread, RatedContests(t) PROVE FreshInv'
<1> DEFINE over == {d \in Contest : RatedAndOver(d)}
<1>1. /\ contests' = [contests EXCEPT ![t] = {RowOf(c) : c \in over}]
      /\ UNCHANGED <<contest, ratedAt, changes, numbers, seen, ready, created>>
  BY DEF RatedContests, dbVars, contestVars, ratingVars, boundVars
<1>2. \A u \in Thread : \A r \in contests'[u] : r \in contests[u] \/ Exists(r.id)
  BY <1>1 DEF TypeInv, ThreadsOK, RowOf, RatedAndOver
<1>3. QED
  BY <1>1, <1>2 DEF FreshInv, Unheard, Exists

\* A thread at rest holds nothing that it did not hold before.
LEMMA RestHolds ==
    ASSUME TypeInv, NEW t \in Thread, AtRest(t)
    PROVE  /\ \A w \in Worker : ready'[w] \subseteq ready[w]
           /\ \A u \in Thread : contests'[u] \subseteq contests[u]
BY DEF TypeInv, ThreadsOK, AtRest

LEMMA ReplayFresh ==
    ASSUME TypeInv, FreshInv, NEW t \in Thread, Replay(t) PROVE FreshInv'
<1>1. /\ changes' = [c \in Contest |-> Replayed(t, c)]
      /\ numbers' = Numbers(t) /\ ratedAt' = Marked(t)
      /\ AtRest(t)
      /\ UNCHANGED <<contest, seen, created>>
  BY DEF Replay, contestVars, boundVars
<1>2. ASSUME NEW c \in Contest, c > created' PROVE Unheard(c)'
  <2>1. Unheard(c)
    BY <1>1, <1>2 DEF FreshInv
  <2>2. \A q \in contests[t] : q.id # c
    BY <2>1 DEF Unheard
  <2>3. changes'[c] = NoBoard
    BY <1>1, <2>2, ReplayedBy
  <2>4. \A i \in DOMAIN numbers' : numbers'[i] # c
    BY <1>1, <2>2, PlayedOnce
  <2>5. c \notin ratedAt'
    BY <1>1, <2>2 DEF Marked
  <2>6. QED
    BY <1>1, <2>1, <2>3, <2>4, <2>5, RestHolds DEF Unheard
<1>3. QED
  BY <1>2 DEF FreshInv

LEMMA FaultFresh ==
    ASSUME TypeInv, FreshInv, NEW t \in Thread, Fault(t) PROVE FreshInv'
<1>1. /\ AtRest(t)
      /\ seen' = [w \in Worker |-> IF w = t THEN {} ELSE seen[w]]
      /\ UNCHANGED <<contest, ratedAt, changes, numbers, created>>
  BY DEF Fault, dbVars, contestVars, ratingVars
<1>2. \A w \in Worker : seen'[w] \cup ready'[w] \subseteq seen[w] \cup ready[w]
  BY <1>1, RestHolds
<1>3. QED
  BY <1>1, <1>2, RestHolds DEF FreshInv, Unheard

LEMMA RestartFresh == ASSUME FreshInv, Restart PROVE FreshInv'
BY DEF FreshInv, Unheard, Restart, contestVars, ratingVars

LEMMA StepFresh == TypeInv /\ FreshInv /\ [Next]_vars => FreshInv'
<1> SUFFICES ASSUME TypeInv, FreshInv, [Next]_vars PROVE FreshInv'
  OBVIOUS
<1> USE DEF Thread
<1>1. CASE UNCHANGED vars
  BY <1>1, FreshStays
     DEF vars, dbVars, contestVars, ratingVars, threadVars, boundVars, freshVars
<1>2. CASE Tick
  BY <1>2, FreshStays DEF Tick, dbVars, contestVars, ratingVars, threadVars, boundVars, freshVars
<1>3. ASSUME NEW s \in Sub, NEW c \in Contest, Admit(s, c) PROVE FreshInv'
  BY <1>3, FreshStays DEF Admit, contestVars, ratingVars, threadVars, boundVars, freshVars
<1>4. ASSUME NEW s \in Sub, Insert(s) PROVE FreshInv'
  BY <1>4, FreshStays DEF Insert, contestVars, ratingVars, threadVars, boundVars, freshVars
<1>5. ASSUME NEW s \in Sub, Rejudge(s) PROVE FreshInv'
  BY <1>5, FreshStays DEF Rejudge, contestVars, ratingVars, threadVars, freshVars
<1>6. ASSUME NEW w \in Worker, NEW s \in Sub, Claim(w, s) PROVE FreshInv'
  BY <1>6, FreshStays DEF Claim, contestVars, ratingVars, boundVars, freshVars
<1>7. ASSUME NEW w \in Worker, Store(w) PROVE FreshInv'
  BY <1>7, FreshStays DEF Store, contestVars, ratingVars, boundVars, freshVars
<1>8. ASSUME NEW c \in Contest, SetProblems(c) PROVE FreshInv'
  BY <1>8, FreshStays DEF SetProblems, ratingVars, threadVars, freshVars
<1>9. ASSUME NEW a \in Admin, AskRecompute(a) PROVE FreshInv'
  BY <1>9, FreshStays DEF AskRecompute, dbVars, contestVars, ratingVars, freshVars
<1>10. ASSUME NEW a \in Admin, NEW c \in Contest, NEW p \in Patches, PatchRead(a, c, p)
       PROVE  FreshInv'
  BY <1>10, FreshStays DEF PatchRead, dbVars, contestVars, ratingVars, freshVars
<1>11. ASSUME NEW w \in Worker, WorkerStep(w) PROVE FreshInv'
  BY <1>6, <1>7, <1>11, PollFresh, CheckFresh, ListFresh, ReplayFresh DEF WorkerStep
<1>12. ASSUME NEW a \in Admin, AdminStep(a) PROVE FreshInv'
  BY <1>12, PatchWriteFresh, ListFresh, ReplayFresh DEF AdminStep
<1>13. QED
  BY <1>1, <1>2, <1>3, <1>4, <1>5, <1>8, <1>9, <1>10, <1>11, <1>12, FaultFresh, CreateFresh,
     DeleteFresh, RestartFresh DEF Next

-----------------------------------------------------------------------------
(* The users' numbers and their history.                                   *)

profileVars == <<contest, changes, numbers>>

LEMMA ProfileStays == ASSUME ProfileAgrees, UNCHANGED profileVars PROVE ProfileAgrees'
BY DEF ProfileAgrees, Exists, profileVars

\* A contest that is created has no history, and is in nobody's numbers.
LEMMA CreateProfile ==
    ASSUME TypeInv, FreshInv, ProfileAgrees, NEW b \in Bodies, CreateContest(b)
    PROVE  ProfileAgrees'
<1> DEFINE d == created + 1
<1>1. /\ contest' = [contest EXCEPT ![d] = b] /\ created < NContests /\ created \in Nat
      /\ UNCHANGED <<changes, numbers>>
  BY DEF CreateContest, ratingVars, TypeInv, DbOK
<1>2. d \in Contest /\ d > created
  BY <1>1, RatingsBounds DEF Contest
<1>3. Unheard(d)
  BY <1>2 DEF FreshInv
<1> HIDE DEF d
<1>4. \A c \in Contest \ {d} : contest'[c] = contest[c]
  BY <1>1 DEF TypeInv, DbOK
<1>5. QED
  BY <1>1, <1>3, <1>4 DEF ProfileAgrees, Exists, Unheard

LEMMA DeleteProfile ==
    ASSUME TypeInv, ProfileAgrees, NEW d \in Contest, DeleteContest(d) PROVE ProfileAgrees'
<1>1. /\ contest' = [contest EXCEPT ![d] = NoRow]
      /\ changes' = [changes EXCEPT ![d] = NoBoard]
      /\ numbers' = numbers
  BY DEF DeleteContest
<1>2. contest'[d] = NoRow
  BY <1>1 DEF TypeInv, DbOK
<1>3. \A c \in Contest \ {d} : contest'[c] = contest[c] /\ changes'[c] = changes[c]
  BY <1>1 DEF TypeInv, DbOK
<1>4. QED
  BY <1>1, <1>2, <1>3 DEF ProfileAgrees, Exists

LEMMA PatchWriteProfile ==
    ASSUME TypeInv, ProfileAgrees, NEW a \in Admin, PatchWrite(a) PROVE ProfileAgrees'
<1> DEFINE d == edit[a].id
           row == Patched(edit[a].fields, contest[d])
<1>1. /\ contest' = IF Exists(d) THEN [contest EXCEPT ![d] = row] ELSE contest
      /\ UNCHANGED <<changes, numbers>>
  BY DEF PatchWrite, ratingVars
<1> HIDE DEF d, row
<1>2. \A c \in Contest : contest[c] = NoRow => contest'[c] = NoRow
  BY <1>1 DEF TypeInv, DbOK, Exists
<1>3. QED
  BY <1>1, <1>2 DEF ProfileAgrees, Exists

LEMMA ReplayProfile ==
    ASSUME TypeInv, NEW t \in Thread, Replay(t) PROVE ProfileAgrees'
<1>1. changes' = [c \in Contest |-> Replayed(t, c)] /\ numbers' = Numbers(t)
  BY DEF Replay
<1>2. QED
  BY <1>1, PlayedOnce DEF ProfileAgrees

ProfileInv == TypeInv /\ FreshInv /\ ProfileAgrees

LEMMA StepProfile == ProfileInv /\ [Next]_vars => ProfileAgrees'
<1> SUFFICES ASSUME TypeInv, FreshInv, ProfileAgrees, [Next]_vars PROVE ProfileAgrees'
  BY DEF ProfileInv
<1> USE DEF Thread
<1>1. CASE UNCHANGED vars
  BY <1>1, ProfileStays DEF vars, dbVars, contestVars, ratingVars, profileVars
<1>2. CASE Tick
  BY <1>2, ProfileStays DEF Tick, dbVars, contestVars, ratingVars, profileVars
<1>3. ASSUME NEW s \in Sub, NEW c \in Contest, Admit(s, c) PROVE ProfileAgrees'
  BY <1>3, ProfileStays DEF Admit, contestVars, ratingVars, profileVars
<1>4. ASSUME NEW s \in Sub, Insert(s) \/ Rejudge(s) PROVE ProfileAgrees'
  BY <1>4, ProfileStays DEF Insert, Rejudge, contestVars, ratingVars, profileVars
<1>5. ASSUME NEW w \in Worker, WorkerStep(w) PROVE ProfileAgrees'
  <2>1. ASSUME NEW s \in Sub, Claim(w, s) PROVE ProfileAgrees'
    BY <2>1, ProfileStays DEF Claim, contestVars, ratingVars, profileVars
  <2>2. CASE Store(w)
    BY <2>2, ProfileStays DEF Store, contestVars, ratingVars, profileVars
  <2>3. CASE Poll(w)
    BY <2>3, ProfileStays DEF Poll, dbVars, contestVars, ratingVars, profileVars
  <2>4. CASE Check(w)
    BY <2>4, ProfileStays DEF Check, dbVars, contestVars, ratingVars, profileVars
  <2>5. CASE RatedContests(w)
    BY <2>5, ProfileStays DEF RatedContests, dbVars, contestVars, ratingVars, profileVars
  <2>6. QED
    BY <1>5, <2>1, <2>2, <2>3, <2>4, <2>5, ReplayProfile DEF WorkerStep
<1>6. ASSUME NEW a \in Admin, AdminStep(a) PROVE ProfileAgrees'
  <2>1. CASE RatedContests(a)
    BY <2>1, ProfileStays DEF RatedContests, dbVars, contestVars, ratingVars, profileVars
  <2>2. QED
    BY <1>6, <2>1, PatchWriteProfile, ReplayProfile DEF AdminStep
<1>7. ASSUME NEW a \in Admin, AskRecompute(a) PROVE ProfileAgrees'
  BY <1>7, ProfileStays DEF AskRecompute, dbVars, contestVars, ratingVars, profileVars
<1>8. ASSUME NEW a \in Admin, NEW c \in Contest, NEW p \in Patches, PatchRead(a, c, p)
      PROVE  ProfileAgrees'
  BY <1>8, ProfileStays DEF PatchRead, dbVars, contestVars, ratingVars, profileVars
<1>9. ASSUME NEW t \in Thread, Fault(t) PROVE ProfileAgrees'
  BY <1>9, ProfileStays DEF Fault, dbVars, contestVars, ratingVars, profileVars
<1>10. ASSUME NEW c \in Contest, SetProblems(c) PROVE ProfileAgrees'
  BY <1>10, ProfileStays DEF SetProblems, ratingVars, profileVars
<1>11. CASE Restart
  BY <1>11, ProfileStays DEF Restart, contestVars, ratingVars, profileVars
<1>12. QED
  BY <1>1, <1>2, <1>3, <1>4, <1>5, <1>6, <1>7, <1>8, <1>9, <1>10, <1>11, CreateProfile,
     DeleteProfile DEF Next

LEMMA InitProfile == Init => ProfileAgrees
BY DEF Init, ProfileAgrees

LEMMA ProfileInvariant == Spec => []ProfileInv
<1>1. Init => ProfileInv
  BY InitTyped, InitFresh, InitProfile DEF ProfileInv
<1>2. ProfileInv /\ [Next]_vars => ProfileInv'
  BY StepTyped, StepFresh, StepProfile DEF ProfileInv
<1>3. QED
  BY <1>1, <1>2, PTL DEF Spec

\* Users' numbers and the history on their profiles agree at any time
\* (recompute_ratings, delete_contest): the numbers are played from each contest
\* at most once, and from those of the contests there are that have changes on
\* record, whatever was replayed, created, moved or deleted in between.
THEOREM ProfilesAgree == Spec => []ProfileAgrees
BY ProfileInvariant, PTL DEF ProfileInv

-----------------------------------------------------------------------------
(* What the lists hold.                                                    *)

\* Time goes on and the threads learn nothing.
Unlearnt ==
    /\ now' \in {now, now + 1}
    /\ \A w \in Worker : seen'[w] \subseteq seen[w] /\ ready'[w] \subseteq ready[w]
    /\ \A t \in Thread : contests'[t] \subseteq contests[t]

LEMMA EndedStays ==
    ASSUME TypeInv, NEW row \in Window, Ended(row), now' \in {now, now + 1}
    PROVE  Ended(row)'
BY RatingsBounds DEF TypeInv, DbOK, Ended, Window, Time

LEMMA ListStays == ASSUME TypeInv, ListInv, Unlearnt PROVE ListInv'
<1>1. \A w \in Worker : \A r \in seen'[w] : r.row.rated
  BY DEF ListInv, Unlearnt
<1>2. ASSUME NEW w \in Worker, NEW r \in ready'[w] PROVE r.row.rated /\ Ended(r.row)'
  <2>1. r \in ready[w] /\ r.row \in Window
    BY <1>2 DEF Unlearnt, TypeInv, ThreadsOK, Held
  <2>2. QED
    BY <2>1, EndedStays DEF ListInv, Unlearnt
<1>3. ASSUME NEW t \in Thread, NEW r \in contests'[t] PROVE r.row.rated /\ Ended(r.row)'
  <2>1. r \in contests[t] /\ r.row \in Window
    BY <1>3, HeldTyped DEF Unlearnt
  <2>2. QED
    BY <2>1, EndedStays DEF ListInv, Unlearnt
<1>4. QED
  BY <1>1, <1>2, <1>3 DEF ListInv

\* The steps in which the threads learn something are three.
LEMMA WhoLearns ==
    ASSUME TypeInv, [Next]_vars,
           \A w \in Worker : ~Poll(w) /\ ~Check(w),
           \A t \in Thread : ~RatedContests(t)
    PROVE  Unlearnt
<1> USE DEF Unlearnt
<1>1. UNCHANGED <<now, seen, ready, contests>> => Unlearnt
  OBVIOUS
<1>2. CASE UNCHANGED vars
  BY <1>1, <1>2 DEF vars, threadVars
<1>3. CASE Tick
  BY <1>3 DEF Tick, threadVars
<1>4. ASSUME NEW s \in Sub, NEW c \in Contest, Admit(s, c) PROVE Unlearnt
  BY <1>1, <1>4 DEF Admit, threadVars
<1>5. ASSUME NEW s \in Sub, Insert(s) \/ Rejudge(s) PROVE Unlearnt
  BY <1>1, <1>5 DEF Insert, Rejudge, threadVars
<1>6. ASSUME NEW w \in Worker, NEW s \in Sub, Claim(w, s) PROVE Unlearnt
  BY <1>1, <1>6 DEF Claim
<1>7. ASSUME NEW w \in Worker, Store(w) PROVE Unlearnt
  BY <1>1, <1>7 DEF Store
<1>8. ASSUME NEW t \in Thread, Replay(t) PROVE Unlearnt
  <2>1. AtRest(t) /\ UNCHANGED <<now, seen>>
    BY <1>8 DEF Replay
  <2>2. QED
    BY <2>1, RestHolds
<1>9. ASSUME NEW t \in Thread, Fault(t) PROVE Unlearnt
  <2>1. AtRest(t) /\ now' = now /\ seen' = [w \in Worker |-> IF w = t THEN {} ELSE seen[w]]
    BY <1>9 DEF Fault
  <2>2. QED
    BY <2>1, RestHolds
<1>10. ASSUME NEW b \in Bodies, CreateContest(b) PROVE Unlearnt
  BY <1>1, <1>10 DEF CreateContest, threadVars
<1>11. ASSUME NEW c \in Contest, SetProblems(c) \/ DeleteContest(c) PROVE Unlearnt
  BY <1>1, <1>11 DEF SetProblems, DeleteContest, threadVars
<1>12. ASSUME NEW a \in Admin, PatchWrite(a) \/ AskRecompute(a) PROVE Unlearnt
  BY <1>1, <1>12 DEF PatchWrite, AskRecompute
<1>13. ASSUME NEW a \in Admin, NEW c \in Contest, NEW p \in Patches, PatchRead(a, c, p)
       PROVE  Unlearnt
  BY <1>1, <1>13 DEF PatchRead
<1>14. CASE Restart
  BY <1>14 DEF Restart
<1> HIDE DEF Unlearnt
<1>15. ASSUME NEW w \in Worker, WorkerStep(w) PROVE Unlearnt
  BY <1>6, <1>7, <1>8, <1>15 DEF WorkerStep, Thread
<1>16. ASSUME NEW a \in Admin, AdminStep(a) PROVE Unlearnt
  BY <1>8, <1>12, <1>16 DEF AdminStep, Thread
<1>17. QED
  BY <1>2, <1>3, <1>4, <1>5, <1>9, <1>10, <1>11, <1>12, <1>13, <1>14, <1>15, <1>16 DEF Next

LEMMA PollList == ASSUME TypeInv, ListInv, NEW w \in Worker, Poll(w) PROVE ListInv'
<1> DEFINE found == {d \in Contest \ ratedAt : Exists(d) /\ contest[d].rated}
<1>1. /\ seen' = [seen EXCEPT ![w] = {RowOf(c) : c \in found}]
      /\ UNCHANGED <<now, ready, contests>>
  BY DEF Poll
<1>2. \A v \in Worker : \A r \in seen'[v] : r \in seen[v] \/ r.row.rated
  BY <1>1 DEF TypeInv, ThreadsOK, RowOf
<1>3. QED
  BY <1>1, <1>2 DEF ListInv, Ended

LEMMA CheckList == ASSUME TypeInv, ListInv, NEW w \in Worker, Check(w) PROVE ListInv'
<1>1. PICK q \in seen[w] :
        /\ seen' = [seen EXCEPT ![w] = @ \ {q}]
        /\ ready' = [ready EXCEPT ![w] = IF IsReady(q) THEN @ \cup {q} ELSE @]
  BY DEF Check
<1>2. UNCHANGED <<now, contests>>
  BY DEF Check
<1>3. \A v \in Worker : /\ seen'[v] \subseteq seen[v]
                       /\ \A r \in ready'[v] : r \in ready[v] \/ (r \in seen[v] /\ IsReady(r))
  BY <1>1 DEF TypeInv, ThreadsOK
<1>4. QED
  BY <1>2, <1>3 DEF ListInv, IsReady, Ended

LEMMA ListList == ASSUME TypeInv, ListInv, NEW t \in Thread, RatedContests(t) PROVE ListInv'
<1> DEFINE over == {d \in Contest : RatedAndOver(d)}
<1>1. /\ contests' = [contests EXCEPT ![t] = {RowOf(c) : c \in over}]
      /\ UNCHANGED <<now, seen, ready>>
  BY DEF RatedContests
<1>2. \A u \in Thread : \A r \in contests'[u] :
        r \in contests[u] \/ (r.row.rated /\ Ended(r.row))
  BY <1>1 DEF TypeInv, ThreadsOK, RowOf, RatedAndOver
<1>3. QED
  BY <1>1, <1>2 DEF ListInv, Ended

LEMMA StepList == TypeInv /\ ListInv /\ [Next]_vars => ListInv'
BY PollList, CheckList, ListList, WhoLearns, ListStays

-----------------------------------------------------------------------------
(* What is ready stays judged.                                             *)

LEMMA ReadyStays ==
    ASSUME NEW r, StillReady(r),
           contest'[r.id] = r.row => contest[r.id] = r.row,
           Busy(r.id)' => Busy(r.id) \/ r.id \in excused',
           r.id \in excused /\ Busy(r.id) => r.id \in excused'
    PROVE  StillReady(r)'
BY DEF StillReady

LEMMA SameBusy ==
    ASSUME NEW c, UNCHANGED sub PROVE Busy(c)' <=> Busy(c)
BY DEF Busy, Of

\* A submission that changes its state matters to its contest only.
LEMMA OthersBusy ==
    ASSUME TypeInv, NEW s \in Sub, NEW v, sub' = [sub EXCEPT ![s].st = v],
           NEW c, sub[s].contest # c
    PROVE  /\ Of(c)' = Of(c)
           /\ \A x \in Of(c) : sub'[x] = sub[x]
           /\ Busy(c)' <=> Busy(c)
<1>1. \A x \in Sub : x # s => sub'[x] = sub[x]
  BY DEF TypeInv, DbOK
<1>2. sub'[s].contest = sub[s].contest
  BY DEF TypeInv, DbOK, Rows
<1>3. s \notin Of(c) /\ s \notin Of(c)'
  BY <1>2 DEF Of
<1>4. Of(c)' = Of(c) /\ \A x \in Of(c) : sub'[x] = sub[x]
  BY <1>1, <1>3 DEF Of
<1>5. QED
  BY <1>4 DEF Busy

ReadyHyp == TypeInv /\ FreshInv /\ ListInv /\ ReadyInv

LEMMA ReadyFacts ==
    ASSUME ReadyHyp, NEW w \in Worker, NEW r \in ready[w]
    PROVE  /\ r.id \in Contest /\ r.row \in Window
           /\ r.row.rated /\ r.row # NoRow /\ Ended(r.row)
           /\ r.id <= created
           /\ StillReady(r)
<1>1. r.id \in Contest /\ r.row \in Window
  BY DEF ReadyHyp, TypeInv, ThreadsOK, Held
<1>2. r.row.rated /\ Ended(r.row)
  BY DEF ReadyHyp, ListInv
<1>3. r.row # NoRow
  BY <1>2 DEF NoRow
<1>4. r.id <= created
  BY <1>1 DEF ReadyHyp, TypeInv, DbOK, FreshInv, Unheard, Contest
<1>5. QED
  BY <1>1, <1>2, <1>3, <1>4 DEF ReadyHyp, ReadyInv

\* Rows and submissions stay, and nothing is excused less.
LEMMA QuietReady ==
    ASSUME ReadyHyp, UNCHANGED <<contest, sub>>, excused \subseteq excused',
           NEW w \in Worker, NEW r \in ready[w]
    PROVE  StillReady(r)'
BY ReadyFacts, ReadyStays, SameBusy

LEMMA AdmitReady ==
    ASSUME ReadyHyp, NEW s \in Sub, NEW c \in Contest, Admit(s, c),
           NEW w \in Worker, NEW r \in ready[w]
    PROVE  StillReady(r)'
<1>1. /\ sub[s].st = "new"
      /\ sub' = [sub EXCEPT ![s] = [st |-> "admitted", contest |-> c, at |-> now]]
      /\ UNCHANGED <<contest, excused>>
  BY DEF Admit, contestVars
<1>2. Busy(r.id)' => Busy(r.id)
  <2>1. sub'[s].st = "admitted" /\ \A x \in Sub \ {s} : sub'[x] = sub[x]
    BY <1>1 DEF ReadyHyp, TypeInv, DbOK
  <2>2. QED
    BY <2>1 DEF Busy, Of, InFlight, PENDING, JUDGING
<1>3. QED
  BY <1>1, <1>2, ReadyFacts, ReadyStays

\* An INSERT after the end excuses the contest.
LEMMA InsertReady ==
    ASSUME ReadyHyp, NEW s \in Sub, Insert(s), NEW w \in Worker, NEW r \in ready[w]
    PROVE  StillReady(r)'
<1> DEFINE c == sub[s].contest
           v == IF Exists(c) THEN PENDING ELSE "refused"
<1>1. /\ sub' = [sub EXCEPT ![s].st = v]
      /\ excused' = IF Ended(contest[c]) THEN excused \cup {c} ELSE excused
      /\ contest' = contest
  BY DEF Insert, contestVars
<1>2. CASE r.id = c /\ contest[r.id] = r.row
  <2>1. r.id \in excused'
    BY <1>1, <1>2, ReadyFacts
  <2>2. QED
    BY <2>1 DEF StillReady
<1>3. CASE contest[r.id] # r.row
  BY <1>1, <1>3 DEF StillReady
<1>4. CASE r.id # c
  <2> HIDE DEF v
  <2>1. Busy(r.id)' <=> Busy(r.id)
    BY <1>1, <1>4, OthersBusy DEF ReadyHyp
  <2>2. QED
    BY <1>1, <2>1, ReadyFacts, ReadyStays
<1>5. QED
  BY <1>2, <1>3, <1>4

\* A submission that was there changes its state; its contest was busy before, is
\* not busier after, or is excused.
LEMMA StateReady ==
    ASSUME ReadyHyp, NEW s \in Sub, NEW v, sub' = [sub EXCEPT ![s].st = v],
           contest' = contest, excused \subseteq excused',
           NEW w \in Worker, NEW r \in ready[w],
           r.id = sub[s].contest => Busy(r.id) \/ (~Busy(r.id)') \/ r.id \in excused'
    PROVE  StillReady(r)'
<1>1. r.id # sub[s].contest => (Busy(r.id)' <=> Busy(r.id))
  BY OthersBusy DEF ReadyHyp
<1>2. QED
  BY <1>1, ReadyFacts, ReadyStays

LEMMA RejudgeReady ==
    ASSUME ReadyHyp, NEW s \in Sub, Rejudge(s), NEW w \in Worker, NEW r \in ready[w]
    PROVE  StillReady(r)'
<1>1. /\ sub' = [sub EXCEPT ![s].st = PENDING]
      /\ excused' = excused \cup ({sub[s].contest} \ {NoContest})
      /\ contest' = contest
  BY DEF Rejudge, contestVars
<1>2. r.id = sub[s].contest => r.id \in excused'
  BY <1>1, ReadyFacts DEF Contest, NoContest
<1>3. QED
  BY <1>1, <1>2, StateReady

LEMMA ClaimReady ==
    ASSUME ReadyHyp, NEW v \in Worker, NEW s \in Sub, Claim(v, s),
           NEW w \in Worker, NEW r \in ready[w]
    PROVE  StillReady(r)'
<1>1. /\ sub[s].st = PENDING
      /\ sub' = [sub EXCEPT ![s].st = JUDGING]
      /\ UNCHANGED <<contest, excused>>
  BY DEF Claim, contestVars
<1>2. r.id = sub[s].contest => Busy(r.id)
  BY <1>1 DEF Busy, Of, InFlight
<1>3. QED
  BY <1>1, <1>2, StateReady

LEMMA StoreReady ==
    ASSUME ReadyHyp, NEW v \in Worker, Store(v), NEW w \in Worker, NEW r \in ready[w]
    PROVE  StillReady(r)'
<1> DEFINE s == job[v]
<1>1. PICK verdict \in Judged : sub' = [sub EXCEPT ![s].st = verdict]
  BY DEF Store
<1>2. /\ contest' = contest
      /\ excused' = IF sub[s].st = JUDGING THEN excused
                    ELSE excused \cup ({sub[s].contest} \ {NoContest})
      /\ s \in Sub
  BY DEF Store, contestVars, ReadyHyp, TypeInv, WorkerOK
<1> HIDE DEF s
<1>3. r.id = sub[s].contest => Busy(r.id) \/ r.id \in excused'
  <2>1. CASE sub[s].st = JUDGING
    BY <1>2, <2>1 DEF Busy, Of, InFlight
  <2>2. CASE sub[s].st # JUDGING
    BY <1>2, <2>2, ReadyFacts DEF Contest, NoContest
  <2>3. QED
    BY <2>1, <2>2
<1>4. QED
  BY <1>1, <1>2, <1>3, StateReady

LEMMA CreateReady ==
    ASSUME ReadyHyp, NEW b \in Bodies, CreateContest(b), NEW w \in Worker, NEW r \in ready[w]
    PROVE  StillReady(r)'
<1>1. /\ contest' = [contest EXCEPT ![created + 1] = b] /\ created \in Nat
      /\ UNCHANGED <<sub, excused>>
  BY DEF CreateContest, ReadyHyp, TypeInv, DbOK
<1>2. r.id # created + 1
  BY <1>1, ReadyFacts DEF Contest
<1>3. contest'[r.id] = contest[r.id]
  BY <1>1, <1>2, ReadyFacts DEF ReadyHyp, TypeInv, DbOK
<1>4. QED
  BY <1>1, <1>3, ReadyFacts, ReadyStays, SameBusy

LEMMA PatchWriteReady ==
    ASSUME ReadyHyp, NEW a \in Admin, PatchWrite(a), NEW w \in Worker, NEW r \in ready[w]
    PROVE  StillReady(r)'
<1> DEFINE d == edit[a].id
           row == Patched(edit[a].fields, contest[d])
<1>1. /\ contest' = IF Exists(d) THEN [contest EXCEPT ![d] = row] ELSE contest
      /\ excused' = excused \cup {d}
      /\ sub' = sub
  BY DEF PatchWrite
<1> HIDE DEF d, row
<1>2. CASE r.id = d
  BY <1>1, <1>2 DEF StillReady
<1>3. CASE r.id # d
  <2>1. contest'[r.id] = contest[r.id]
    BY <1>1, <1>3, ReadyFacts DEF ReadyHyp, TypeInv, DbOK
  <2>2. QED
    BY <1>1, <2>1, ReadyFacts, ReadyStays, SameBusy
<1>4. QED
  BY <1>2, <1>3

LEMMA DeleteReady ==
    ASSUME ReadyHyp, NEW d \in Contest, DeleteContest(d), NEW w \in Worker, NEW r \in ready[w]
    PROVE  StillReady(r)'
<1>1. /\ contest' = [contest EXCEPT ![d] = NoRow]
      /\ sub' = [s \in Sub |-> IF s \in Of(d)
            THEN [sub[s] EXCEPT !.contest = NoContest] ELSE sub[s]]
      /\ excused' = excused
  BY DEF DeleteContest
<1>2. CASE r.id = d
  <2>1. contest'[r.id] # r.row
    BY <1>1, <1>2, ReadyFacts DEF ReadyHyp, TypeInv, DbOK
  <2>2. QED
    BY <2>1 DEF StillReady
<1>3. CASE r.id # d
  <2>1. contest'[r.id] = contest[r.id]
    BY <1>1, <1>3, ReadyFacts DEF ReadyHyp, TypeInv, DbOK
  <2>2. r.id # NoContest
    BY ReadyFacts DEF Contest, NoContest
  <2>3. \A s \in Sub : sub'[s] = sub[s] \/ sub'[s].contest = NoContest
    BY <1>1 DEF ReadyHyp, TypeInv, DbOK, Rows
  <2>4. Busy(r.id)' => Busy(r.id)
    BY <2>2, <2>3 DEF Busy, Of
  <2>5. QED
    BY <1>1, <2>1, <2>4, ReadyFacts, ReadyStays
<1>4. QED
  BY <1>2, <1>3

\* A replay stops excusing only what is judged by then.
LEMMA ReplayReady ==
    ASSUME ReadyHyp, NEW t \in Thread, Replay(t), NEW w \in Worker, NEW r \in ready[w]
    PROVE  StillReady(r)'
<1>1. /\ excused' = Premature(t) \cup {c \in excused : Busy(c)}
      /\ UNCHANGED <<contest, sub>>
  BY DEF Replay, contestVars
<1>2. r.id \in excused /\ Busy(r.id) => r.id \in excused'
  BY <1>1
<1>3. QED
  BY <1>1, <1>2, ReadyFacts, ReadyStays, SameBusy

\* A step keeps all that was ready before it.
LEMMA KeepsReady ==
    ASSUME ReadyHyp, [Next]_vars, ~Restart, NEW w \in Worker, NEW r \in ready[w]
    PROVE  StillReady(r)'
<1>1. CASE UNCHANGED vars
  BY <1>1, QuietReady DEF vars, dbVars, contestVars
<1>2. CASE Tick
  BY <1>2, QuietReady DEF Tick, dbVars, contestVars
<1>3. ASSUME NEW v \in Worker, Poll(v) \/ Check(v) PROVE StillReady(r)'
  BY <1>3, QuietReady DEF Poll, Check, dbVars, contestVars
<1>4. ASSUME NEW t \in Thread, RatedContests(t) \/ Fault(t) PROVE StillReady(r)'
  BY <1>4, QuietReady DEF RatedContests, Fault, dbVars, contestVars
<1>5. ASSUME NEW a \in Admin, AskRecompute(a) PROVE StillReady(r)'
  BY <1>5, QuietReady DEF AskRecompute, dbVars, contestVars
<1>6. ASSUME NEW a \in Admin, NEW c \in Contest, NEW p \in Patches, PatchRead(a, c, p)
      PROVE  StillReady(r)'
  BY <1>6, QuietReady DEF PatchRead, dbVars, contestVars
<1>7. ASSUME NEW c \in Contest, SetProblems(c) PROVE StillReady(r)'
  BY <1>7, QuietReady DEF SetProblems
<1>8. ASSUME NEW v \in Worker, WorkerStep(v) PROVE StillReady(r)'
  BY <1>3, <1>4, <1>8, ClaimReady, StoreReady, ReplayReady DEF WorkerStep, Thread
<1>9. ASSUME NEW a \in Admin, AdminStep(a) PROVE StillReady(r)'
  BY <1>4, <1>9, PatchWriteReady, ReplayReady DEF AdminStep, Thread
<1>10. QED
  BY <1>1, <1>2, <1>4, <1>5, <1>6, <1>7, <1>8, <1>9, AdmitReady, InsertReady, RejudgeReady,
     CreateReady, DeleteReady DEF Next

LEMMA StepReady == ReadyHyp /\ [Next]_vars => ReadyInv'
<1> SUFFICES ASSUME ReadyHyp, [Next]_vars, NEW w \in Worker, NEW r \in ready'[w]
             PROVE  StillReady(r)'
  BY DEF ReadyInv
<1>1. CASE Restart
  BY <1>1 DEF Restart
<1>2. CASE ~Restart /\ r \in ready[w]
  BY <1>2, KeepsReady
<1>3. CASE r \notin ready[w]
  <2>1. PICK v \in Worker : Check(v)
    <3>1. \A v \in Worker : Poll(v) => ready' = ready
      BY DEF Poll
    <3>2. \A t \in Thread : RatedContests(t) => ready' = ready
      BY DEF RatedContests
    <3>3. QED
      BY <1>3, <3>1, <3>2, WhoLearns DEF Unlearnt, ReadyHyp
  <2>2. PICK q \in seen[v] :
            ready' = [ready EXCEPT ![v] = IF IsReady(q) THEN @ \cup {q} ELSE @]
    BY <2>1 DEF Check
  <2>3. r = q /\ ~Busy(r.id)
    BY <1>3, <2>2 DEF ReadyHyp, TypeInv, ThreadsOK, IsReady
  <2>4. sub' = sub
    BY <2>1 DEF Check, dbVars
  <2>5. ~Busy(r.id)'
    BY <2>3, <2>4, SameBusy
  <2>6. QED
    BY <2>5 DEF StillReady
<1>4. QED
  BY <1>1, <1>2, <1>3

-----------------------------------------------------------------------------
(* What counts as settled was rated by its final board.                    *)

BoardHyp == ReadyHyp /\ BoardInv

\* A contest is as it was: its row, whether it lists the problem, its rating,
\* and, if it counts as settled, its submissions.
SameContest(c) ==
    /\ now' \in {now, now + 1}
    /\ contest'[c] = contest[c]
    /\ c \in problems' <=> c \in problems
    /\ changes'[c] = changes[c]
    /\ c \in ratedAt' <=> c \in ratedAt
    /\ Settled(c) => Of(c)' = Of(c) /\ \A x \in Of(c) : sub'[x] = sub[x]

LEMMA BoardStays ==
    ASSUME NEW c, contest'[c] = contest[c], c \in problems' <=> c \in problems,
           Of(c)' = Of(c), \A x \in Of(c) : sub'[x] = sub[x]
    PROVE  FinalBoard(c)' = FinalBoard(c) /\ (Busy(c)' <=> Busy(c))
<1> DEFINE row == contest[c]
<1>1. Entries(c, row)' = Entries(c, row)
  BY DEF Entries, Of
<1>2. \A e \in Entries(c, row) : sub'[e] = sub[e]
  BY DEF Entries
<1>3. {e \in Entries(c, row) : sub[e].st = "AC"}' = {e \in Entries(c, row) : sub[e].st = "AC"}
  BY <1>1, <1>2
<1>4. Board(c, row)' = Board(c, row)
  BY <1>1, <1>3 DEF Board
<1>5. QED
  BY <1>4 DEF FinalBoard, Busy

LEMMA SettledStays ==
    ASSUME TypeInv, NEW c \in Contest, RightlySettled(c), SameContest(c)
    PROVE  RightlySettled(c)'
<1> SUFFICES ASSUME Settled(c)'
             PROVE  RatedAndOver(c)' /\ ~Busy(c)' /\ changes'[c] = FinalBoard(c)'
  BY DEF RightlySettled
<1>1. Settled(c)
  BY DEF Settled, SameContest
<1>2. RatedAndOver(c) /\ ~Busy(c) /\ changes[c] = FinalBoard(c)
  BY <1>1 DEF RightlySettled
<1>3. FinalBoard(c)' = FinalBoard(c) /\ ~Busy(c)'
  BY <1>1, <1>2, BoardStays DEF SameContest
<1>4. contest[c] \in Window /\ now \in Nat
  BY RatingsBounds DEF TypeInv, DbOK, Time
<1>5. RatedAndOver(c)'
  BY <1>2, <1>4, RatingsBounds DEF SameContest, RatedAndOver, Exists, Ended, Window, Time
<1>6. QED
  BY <1>2, <1>3, <1>5 DEF SameContest

\* Nothing that the boards are made of changes.
LEMMA QuietBoard ==
    ASSUME BoardHyp, UNCHANGED dbVars, excused \subseteq excused', now' \in {now, now + 1}
    PROVE  BoardInv'
<1> SUFFICES ASSUME NEW c \in Contest, c \notin excused' PROVE RightlySettled(c)'
  BY DEF BoardInv
<1>1. SameContest(c)
  BY DEF SameContest, dbVars, contestVars, ratingVars, Of
<1>2. QED
  BY <1>1, SettledStays DEF BoardHyp, ReadyHyp, BoardInv

LEMMA AdmitBoard ==
    ASSUME BoardHyp, NEW s \in Sub, NEW d \in Contest, Admit(s, d) PROVE BoardInv'
<1>1. /\ sub[s].st = "new"
      /\ sub' = [sub EXCEPT ![s] = [st |-> "admitted", contest |-> d, at |-> now]]
      /\ UNCHANGED <<now, contest, problems, ratedAt, changes, excused>>
  BY DEF Admit, contestVars, ratingVars
<1>2. sub'[s].st = "admitted" /\ \A x \in Sub \ {s} : sub'[x] = sub[x]
  BY <1>1 DEF BoardHyp, ReadyHyp, TypeInv, DbOK
<1>3. ASSUME NEW c \in Contest PROVE SameContest(c)
  <2>1. s \notin Of(c) /\ s \notin Of(c)'
    BY <1>1, <1>2 DEF Of, InFlight, Judged, PENDING, JUDGING
  <2>2. Of(c)' = Of(c) /\ \A x \in Of(c) : sub'[x] = sub[x]
    BY <1>2, <2>1 DEF Of
  <2>3. QED
    BY <1>1, <2>2 DEF SameContest
<1>4. QED
  BY <1>1, <1>3, SettledStays DEF BoardHyp, ReadyHyp, BoardInv

\* A submission changes its state: every contest but its own stays as it was.
LEMMA StateBoard ==
    ASSUME BoardHyp, NEW s \in Sub, NEW v, sub' = [sub EXCEPT ![s].st = v],
           UNCHANGED <<now, contest, problems, ratedAt, changes>>,
           excused \subseteq excused',
           \A c \in Contest \ excused' : c = sub[s].contest => ~Settled(c)
    PROVE  BoardInv'
<1> SUFFICES ASSUME NEW c \in Contest, c \notin excused' PROVE RightlySettled(c)'
  BY DEF BoardInv
<1>1. SameContest(c)
  <2>1. c # sub[s].contest => Of(c)' = Of(c) /\ \A x \in Of(c) : sub'[x] = sub[x]
    BY OthersBusy DEF BoardHyp, ReadyHyp
  <2>2. QED
    BY <2>1 DEF SameContest
<1>2. QED
  BY <1>1, SettledStays DEF BoardHyp, ReadyHyp, BoardInv

\* Whoever is settled is over, so an INSERT finds it running or excuses it.
LEMMA InsertBoard == ASSUME BoardHyp, NEW s \in Sub, Insert(s) PROVE BoardInv'
<1> DEFINE d == sub[s].contest
           v == IF Exists(d) THEN PENDING ELSE "refused"
<1>1. /\ sub' = [sub EXCEPT ![s].st = v]
      /\ excused' = IF Ended(contest[d]) THEN excused \cup {d} ELSE excused
      /\ UNCHANGED <<now, contest, problems, ratedAt, changes>>
  BY DEF Insert, contestVars, ratingVars
<1>2. \A c \in Contest \ excused' : c = d => ~Settled(c)
  BY <1>1 DEF BoardHyp, BoardInv, RightlySettled, RatedAndOver
<1> HIDE DEF v
<1>3. QED
  BY <1>1, <1>2, StateBoard

LEMMA RejudgeBoard == ASSUME BoardHyp, NEW s \in Sub, Rejudge(s) PROVE BoardInv'
<1>1. /\ sub' = [sub EXCEPT ![s].st = PENDING]
      /\ excused' = excused \cup ({sub[s].contest} \ {NoContest})
      /\ UNCHANGED <<now, contest, problems, ratedAt, changes>>
  BY DEF Rejudge, contestVars, ratingVars
<1>2. \A c \in Contest \ excused' : c # sub[s].contest
  BY <1>1 DEF Contest, NoContest
<1>3. QED
  BY <1>1, <1>2, StateBoard

\* What is in flight belongs to a contest that is not settled, or excused.
LEMMA FlightUnsettled ==
    ASSUME BoardHyp, NEW s \in Sub, sub[s].st \in InFlight
    PROVE  \A c \in Contest \ excused : c = sub[s].contest => ~Settled(c)
BY DEF BoardHyp, BoardInv, RightlySettled, Busy, Of

LEMMA ClaimBoard ==
    ASSUME BoardHyp, NEW w \in Worker, NEW s \in Sub, Claim(w, s) PROVE BoardInv'
<1>1. /\ sub[s].st \in InFlight
      /\ sub' = [sub EXCEPT ![s].st = JUDGING]
      /\ UNCHANGED <<now, contest, problems, ratedAt, changes, excused>>
  BY DEF Claim, contestVars, ratingVars, InFlight
<1>2. QED
  BY <1>1, FlightUnsettled, StateBoard

LEMMA StoreBoard == ASSUME BoardHyp, NEW w \in Worker, Store(w) PROVE BoardInv'
<1> DEFINE s == job[w]
<1>1. PICK v \in Judged : sub' = [sub EXCEPT ![s].st = v]
  BY DEF Store
<1>2. /\ excused' = IF sub[s].st = JUDGING THEN excused
                    ELSE excused \cup ({sub[s].contest} \ {NoContest})
      /\ UNCHANGED <<now, contest, problems, ratedAt, changes>>
      /\ s \in Sub
  BY DEF Store, contestVars, ratingVars, BoardHyp, ReadyHyp, TypeInv, WorkerOK
<1> HIDE DEF s
<1>3. \A c \in Contest \ excused' : c = sub[s].contest => ~Settled(c)
  <2>1. CASE sub[s].st = JUDGING
    BY <1>2, <2>1, FlightUnsettled DEF InFlight
  <2>2. CASE sub[s].st # JUDGING
    BY <1>2, <2>2 DEF Contest, NoContest
  <2>3. QED
    BY <2>1, <2>2
<1>4. QED
  BY <1>1, <1>2, <1>3, StateBoard

LEMMA CreateBoard ==
    ASSUME BoardHyp, NEW b \in Bodies, CreateContest(b) PROVE BoardInv'
<1> DEFINE d == created + 1
<1>1. /\ contest' = [contest EXCEPT ![d] = b] /\ problems' = problems \cup {d}
      /\ created < NContests /\ created \in Nat
      /\ UNCHANGED <<now, ratedAt, changes, sub, excused>>
  BY DEF CreateContest, ratingVars, BoardHyp, ReadyHyp, TypeInv, DbOK
<1>2. d \in Contest /\ d > created
  BY <1>1, RatingsBounds DEF Contest
<1>3. ~Settled(d)
  BY <1>2 DEF BoardHyp, ReadyHyp, FreshInv, Unheard, Settled
<1> HIDE DEF d
<1>4. ASSUME NEW c \in Contest, c \notin excused PROVE RightlySettled(c)'
  <2>1. CASE c = d
    BY <1>1, <1>3, <2>1 DEF RightlySettled, Settled
  <2>2. CASE c # d
    <3>1. contest'[c] = contest[c]
      BY <1>1, <2>2 DEF BoardHyp, ReadyHyp, TypeInv, DbOK
    <3>2. SameContest(c)
      BY <1>1, <2>2, <3>1 DEF SameContest, Of
    <3>3. QED
      BY <1>4, <3>2, SettledStays DEF BoardHyp, ReadyHyp, BoardInv
  <2>3. QED
    BY <2>1, <2>2
<1>5. QED
  BY <1>1, <1>4 DEF BoardInv

LEMMA SetProblemsBoard ==
    ASSUME BoardHyp, NEW d \in Contest, SetProblems(d) PROVE BoardInv'
<1>1. /\ problems' = IF d \in problems THEN problems \ {d} ELSE problems \cup {d}
      /\ excused' = excused \cup {d}
      /\ UNCHANGED <<now, contest, ratedAt, changes, sub>>
  BY DEF SetProblems, ratingVars
<1>2. ASSUME NEW c \in Contest, c \notin excused' PROVE RightlySettled(c)'
  <2>1. SameContest(c) /\ c \notin excused
    BY <1>1, <1>2 DEF SameContest, Of
  <2>2. QED
    BY <2>1, SettledStays DEF BoardHyp, ReadyHyp, BoardInv
<1>3. QED
  BY <1>2 DEF BoardInv

LEMMA PatchWriteBoard == ASSUME BoardHyp, NEW a \in Admin, PatchWrite(a) PROVE BoardInv'
<1> DEFINE d == edit[a].id
           row == Patched(edit[a].fields, contest[d])
<1>1. /\ contest' = IF Exists(d) THEN [contest EXCEPT ![d] = row] ELSE contest
      /\ excused' = excused \cup {d}
      /\ UNCHANGED <<now, problems, ratedAt, changes, sub>>
  BY DEF PatchWrite, ratingVars
<1> HIDE DEF d, row
<1>2. ASSUME NEW c \in Contest, c \notin excused' PROVE RightlySettled(c)'
  <2>1. contest'[c] = contest[c]
    BY <1>1, <1>2 DEF BoardHyp, ReadyHyp, TypeInv, DbOK
  <2>2. SameContest(c) /\ c \notin excused
    BY <1>1, <1>2, <2>1 DEF SameContest, Of
  <2>3. QED
    BY <2>2, SettledStays DEF BoardHyp, ReadyHyp, BoardInv
<1>3. QED
  BY <1>2 DEF BoardInv

LEMMA DeleteBoard ==
    ASSUME BoardHyp, NEW d \in Contest, DeleteContest(d) PROVE BoardInv'
<1>1. /\ contest' = [contest EXCEPT ![d] = NoRow] /\ problems' = problems \ {d}
      /\ ratedAt' = ratedAt \ {d} /\ changes' = [changes EXCEPT ![d] = NoBoard]
      /\ sub' = [s \in Sub |-> IF s \in Of(d)
            THEN [sub[s] EXCEPT !.contest = NoContest] ELSE sub[s]]
      /\ UNCHANGED <<now, excused>>
  BY DEF DeleteContest
<1>2. ASSUME NEW c \in Contest, c \notin excused PROVE RightlySettled(c)'
  <2>1. CASE c = d
    BY <1>1, <2>1 DEF RightlySettled, Settled, BoardHyp, ReadyHyp, TypeInv, DbOK
  <2>2. CASE c # d
    <3>1. contest'[c] = contest[c] /\ changes'[c] = changes[c]
      BY <1>1, <2>2 DEF BoardHyp, ReadyHyp, TypeInv, DbOK
    <3>2. \A s \in Sub : IF s \in Of(d) THEN sub'[s].contest = NoContest ELSE sub'[s] = sub[s]
      BY <1>1 DEF BoardHyp, ReadyHyp, TypeInv, DbOK, Rows
    <3>3. c # NoContest /\ \A s \in Of(d) : s \notin Of(c)
      BY <2>2 DEF Contest, NoContest, Of
    <3>4. Of(c)' = Of(c) /\ \A x \in Of(c) : sub'[x] = sub[x]
      BY <3>2, <3>3 DEF Of
    <3>5. SameContest(c)
      BY <1>1, <2>2, <3>1, <3>4 DEF SameContest
    <3>6. QED
      BY <1>2, <3>5, SettledStays DEF BoardHyp, ReadyHyp, BoardInv
  <2>3. QED
    BY <2>1, <2>2
<1>3. QED
  BY <1>1, <1>2 DEF BoardInv

\* What was being judged is queued again; nothing of a settled contest was.
LEMMA RestartBoard == ASSUME BoardHyp, Restart PROVE BoardInv'
<1>1. /\ sub' = [s \in Sub |-> CASE sub[s].st = JUDGING -> [sub[s] EXCEPT !.st = PENDING]
            [] sub[s].st = "admitted" -> [sub[s] EXCEPT !.st = "refused"]
            [] OTHER -> sub[s]]
      /\ UNCHANGED <<now, contest, problems, ratedAt, changes, excused>>
  BY DEF Restart, contestVars, ratingVars
<1>2. ASSUME NEW s \in Sub, sub[s].st \in Judged \cup {"new", "refused", PENDING}
      PROVE  sub'[s] = sub[s]
  BY <1>1, <1>2 DEF Judged, PENDING, JUDGING
<1>3. ASSUME NEW s \in Sub, sub[s].st = "admitted" PROVE sub'[s].st = "refused"
  <2>1. sub'[s] = [sub[s] EXCEPT !.st = "refused"]
    BY <1>1, <1>3 DEF JUDGING
  <2>2. QED
    BY <2>1 DEF BoardHyp, ReadyHyp, TypeInv, DbOK, Rows
<1>4. ASSUME NEW s \in Sub, sub[s].st = JUDGING
      PROVE  sub'[s].contest = sub[s].contest
  <2>1. sub'[s] = [sub[s] EXCEPT !.st = PENDING]
    BY <1>1, <1>4 DEF JUDGING
  <2>2. QED
    BY <2>1 DEF BoardHyp, ReadyHyp, TypeInv, DbOK, Rows
<1>5. ASSUME NEW c \in Contest, c \notin excused PROVE RightlySettled(c)'
  <2>1. ASSUME Settled(c)
        PROVE  \A s \in Sub : s \in Of(c) \/ s \in Of(c)' => sub'[s] = sub[s]
    <3>1. ~Busy(c)
      BY <1>5, <2>1 DEF BoardHyp, BoardInv, RightlySettled
    <3>2. \A s \in Sub : sub[s].st \in States
      BY DEF BoardHyp, ReadyHyp, TypeInv, DbOK, Rows
    <3>3. \A s \in Of(c) : sub[s].st \in Judged
      BY <3>1 DEF Busy, Of
    <3>4. ASSUME NEW s \in Sub, s \in Of(c)' PROVE sub'[s] = sub[s]
      <4>1. CASE sub[s].st = JUDGING
        <5>1. sub[s].contest = c
          BY <1>4, <3>4, <4>1 DEF Of
        <5>2. QED
          BY <3>1, <4>1, <5>1 DEF Busy, Of, InFlight
      <4>2. CASE sub[s].st = "admitted"
        BY <1>3, <3>4, <4>2 DEF Of, InFlight, Judged, PENDING, JUDGING
      <4>3. QED
        BY <1>2, <3>2, <4>1, <4>2 DEF States, InFlight
    <3>5. \A s \in Of(c) : s \in Sub
      BY DEF Of
    <3>6. QED
      BY <1>2, <3>3, <3>4, <3>5
  <2>2. Settled(c) => Of(c)' = Of(c) /\ \A x \in Of(c) : sub'[x] = sub[x]
    BY <2>1 DEF Of
  <2>3. SameContest(c)
    BY <1>1, <2>2 DEF SameContest
  <2>4. QED
    BY <1>5, <2>3, SettledStays DEF BoardHyp, ReadyHyp, BoardInv
<1>6. QED
  BY <1>1, <1>5 DEF BoardInv

\* A replay settles by a row that has not changed, what was judged when it was
\* found ready and is judged still, or excuses it.
LEMMA ReplayBoard == ASSUME BoardHyp, NEW t \in Thread, Replay(t) PROVE BoardInv'
<1>1. /\ changes' = [c \in Contest |-> Replayed(t, c)]
      /\ ratedAt' = Marked(t)
      /\ excused' = Premature(t) \cup {c \in excused : Busy(c)}
      /\ UNCHANGED <<now, contest, problems, sub>>
      /\ TypeInv
  BY DEF Replay, contestVars, BoardHyp, ReadyHyp
<1> SUFFICES ASSUME NEW c \in Contest, c \notin excused', Settled(c)'
             PROVE  RatedAndOver(c)' /\ ~Busy(c)' /\ changes'[c] = FinalBoard(c)'
  BY DEF BoardInv, RightlySettled
<1>2. PICK q \in contests[t] : q.id = c
  <2>1. CASE c \in ratedAt'
    BY <1>1, <2>1 DEF Marked
  <2>2. CASE c \notin ratedAt'
    <3>1. Replayed(t, c) # NoBoard
      BY <1>1, <2>2 DEF Settled
    <3>2. QED
      BY <1>1, <3>1, ReplayedBy
  <2>3. QED
    BY <2>1, <2>2
<1>3. q.row = contest[c] /\ ~(Busy(c) /\ (t \in Admin \/ q \notin ready[t]))
  BY <1>1, <1>2 DEF Premature
<1>4. q.row.rated /\ Ended(q.row)
  BY DEF BoardHyp, ReadyHyp, ListInv
<1>5. ~Busy(c)
  <2> SUFFICES ASSUME Busy(c) PROVE FALSE
    OBVIOUS
  <2>1. t \in Worker /\ q \in ready[t]
    BY <1>3 DEF Thread
  <2>2. StillReady(q)
    BY <2>1, ReadyFacts DEF BoardHyp
  <2>3. c \in excused
    BY <1>2, <1>3, <2>2 DEF StillReady
  <2>4. QED
    BY <1>1, <2>3
<1>6. RatedAndOver(c)
  BY <1>3, <1>4 DEF RatedAndOver, Exists, NoRow
<1>7. changes'[c] = FinalBoard(c)
  BY <1>1, <1>2, <1>3, ReplayedBy DEF FinalBoard
<1>8. RatedAndOver(c)' /\ ~Busy(c)'
  BY <1>1, <1>5, <1>6 DEF RatedAndOver, Exists, Ended, Busy, Of
<1>9. FinalBoard(c)' = FinalBoard(c)
  BY <1>1 DEF FinalBoard, Board, Entries, Of
<1>10. QED
  BY <1>7, <1>8, <1>9

LEMMA StepBoard == BoardHyp /\ [Next]_vars => BoardInv'
<1> SUFFICES ASSUME BoardHyp, [Next]_vars PROVE BoardInv'
  OBVIOUS
<1>1. CASE UNCHANGED vars
  BY <1>1, QuietBoard DEF vars
<1>2. CASE Tick
  BY <1>2, QuietBoard DEF Tick
<1>3. ASSUME NEW w \in Worker, Poll(w) \/ Check(w) PROVE BoardInv'
  BY <1>3, QuietBoard DEF Poll, Check
<1>4. ASSUME NEW t \in Thread, RatedContests(t) \/ Fault(t) PROVE BoardInv'
  BY <1>4, QuietBoard DEF RatedContests, Fault
<1>5. ASSUME NEW a \in Admin, AskRecompute(a) PROVE BoardInv'
  BY <1>5, QuietBoard DEF AskRecompute
<1>6. ASSUME NEW a \in Admin, NEW c \in Contest, NEW p \in Patches, PatchRead(a, c, p)
      PROVE  BoardInv'
  BY <1>6, QuietBoard DEF PatchRead
<1>7. ASSUME NEW w \in Worker, WorkerStep(w) PROVE BoardInv'
  BY <1>3, <1>4, <1>7, ClaimBoard, StoreBoard, ReplayBoard DEF WorkerStep, Thread
<1>8. ASSUME NEW a \in Admin, AdminStep(a) PROVE BoardInv'
  BY <1>4, <1>8, PatchWriteBoard, ReplayBoard DEF AdminStep, Thread
<1>9. QED
  BY <1>1, <1>2, <1>4, <1>5, <1>6, <1>7, <1>8, AdmitBoard, InsertBoard, RejudgeBoard,
     CreateBoard, SetProblemsBoard, DeleteBoard, RestartBoard DEF Next

LEMMA InitSettled == Init => ListInv /\ ReadyInv /\ BoardInv
BY DEF Init, ListInv, ReadyInv, BoardInv, RightlySettled, Settled, Thread

LEMMA SettledInvariant == Spec => []BoardHyp
<1>1. Init => BoardHyp
  BY InitTyped, InitFresh, InitSettled DEF BoardHyp, ReadyHyp
<1>2. BoardHyp /\ [Next]_vars => BoardHyp'
  BY StepTyped, StepFresh, StepList, StepReady, StepBoard DEF BoardHyp, ReadyHyp
<1>3. QED
  BY <1>1, <1>2, PTL DEF Spec

\* A contest that counts as settled, and has nothing in flight, was rated by its
\* final board (awaiting_rating, recompute_ratings), but for the contests whose
\* results moved after they were read; the replay that comes next puts those
\* right.
THEOREM SettledByFinalBoard == Spec => []SettledRight
<1>1. BoardHyp => SettledRight
  BY DEF BoardHyp, BoardInv, RightlySettled, Settled, FinalBoard, SettledRight
<1>2. QED
  BY <1>1, SettledInvariant, PTL
=============================================================================
