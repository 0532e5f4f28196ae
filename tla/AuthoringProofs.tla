------------------------- MODULE AuthoringProofs -------------------------
(***************************************************************************)
(* Proofs about Authoring: its types, and the four properties that         *)
(* Authoring.cfg checks on an instance, for every choice of archives, sets *)
(* and packages and any number of threads, problems, submissions, requests *)
(* and faults.  What a test set is worth is counted, not summed: a total   *)
(* is the size of a set of points, so that the library's facts about       *)
(* finite sets take the place of an induction.                             *)
(***************************************************************************)
EXTENDS Authoring, CountingProofs, TLAPS, FiniteSetTheorems, FunctionTheorems, SequenceTheorems

----------------------------------------------------------------------------
(* The inductive invariant, in parts. *)

Row == [case : Nat, sample : BOOLEAN, subtask : Nat]
States == {"PENDING", "JUDGING", "AC", "failed", "CE", "AB", "IE"}
Submission == [problem : Nat, state : States \cup {"none"}, solves : SUBSET Nat,
               earned : 0..100, of : Set, some : BOOLEAN]
Steps == {"idle", "await", "row", "files", "clear", "write", "lookup", "queue", "undo"}
Request == [op : {"none", "delete", "replace", "upload", "bulk", "express"}, step : Steps,
            problem : Nat, set : Set, next : Nat \ {0}, left : Seq(SUBSET Nat), queued : Nat,
            made : Nat, alone : BOOLEAN]
Percents == {<<>>} \cup {SharesOf[k] : k \in SetName}
Judging == [step : {"idle", "shares", "input", "answer", "store"}, sub : Nat, tests : Rows,
            shares : Percents, solves : SUBSET Nat, some : BOOLEAN, next : Nat \ {0},
            input : Stored, passed : SUBSET Nat, exit : {"none", "CE", "AB", "IE"},
            quiet : BOOLEAN, of : Set]

\* What the database holds belongs together: the rows are those of the set that they were
\* written for, and there are none without a problem.
RowsOK ==
    /\ lastId \in 0..MaxIds /\ slug \in 0..lastId /\ partial \in BOOLEAN
    /\ origin \in Set
    /\ origin = NoSet => tests = <<>> /\ shares = <<>>
    /\ origin # NoSet =>
           slug # NoId /\ tests = TestsOf[origin] /\ tests # <<>> /\ shares = SharesOf[origin]

\* A submission, while it exists, is one of the problem that has the slug, and nobody has
\* judged it until its state says so.
SubmissionOK(r, id, some) ==
    r = NoSub \/ /\ r.problem = id /\ id # NoId /\ r.some = some
                 /\ r.state # "none"
                 /\ r.state \in {"PENDING", "JUDGING"} => r.of = NoSet
SubsOK ==
    subs \in Seq(Submission) /\ \A s \in DOMAIN subs : SubmissionOK(subs[s], slug, partial)

DirOK == dir = NoDir \/ dir \in [Idx -> Stored]

\* The steps that a handler of each kind takes, and what it holds at them.
HandlerOK(h, last) ==
    /\ h \in Request
    /\ h.op = "none" <=> h.step = "idle"
    /\ h.op = "none" => ~h.alone
    /\ h.op # "none" => h.problem # NoId
    /\ h.op = "delete" => h.step \in {"row", "files"}
    /\ h.op = "replace" => h.step \in {"clear", "write"}
    /\ h.op = "upload" => h.step \in {"await", "clear", "write"}
    /\ h.op = "bulk" => h.step \in {"await", "queue"}
    /\ h.op = "express" =>
           h.step \in {"clear", "write", "lookup", "queue", "undo", "files"}
    /\ IF h.op = "express" THEN h.made \in 1..last ELSE h.made = NoId
    /\ h.step \in {"clear", "write"} =>
           /\ h.set \in SetName /\ TestsOf[h.set] # <<>>
           /\ h.next <= Len(TestsOf[h.set]) + 1
    /\ h.step \in {"await", "clear"} => h.next = 1
HandlersOK == at \in [Thread -> Request] /\ \A t \in Thread : HandlerOK(at[t], lastId)

RunOK ==
    /\ run \in Judging
    /\ run.step # "idle" => run.sub \in DOMAIN subs
    /\ run.step = "shares" => run.tests # <<>> /\ run.next = 1
    /\ run.step \in {"input", "answer"} => run.next \in DOMAIN run.tests
    /\ run.passed \subseteq DOMAIN run.tests

CountsOK ==
    /\ requests \in 0..MaxRequests /\ faults \in 0..MaxFaults /\ torn \in BOOLEAN
    /\ packaged \subseteq 1..lastId /\ accepted \subseteq 1..lastId
    /\ stranded \subseteq 1..lastId

TypeInv == RowsOK /\ SubsOK /\ DirOK /\ HandlersOK /\ RunOK /\ CountsOK

----------------------------------------------------------------------------
(* What the directory holds. *)

\* The directory holds the files of the rows and no others, or is not there.
DirWhole ==
    IF tests = <<>> THEN dir = NoDir
    ELSE dir # NoDir
         /\ \A i \in Idx : dir[i] = IF i \in DOMAIN tests THEN Contents(origin, i) ELSE Missing

\* The first tests of the set are written, and nothing else is there.
Written(k, n) ==
    /\ dir # NoDir
    /\ \A i \in Idx : dir[i] = IF i < n THEN Contents(k, i) ELSE Missing

\* A handler that has met no other one: the problem is still the one it began with, and the
\* directory is as far as the handler is.
AloneOK(t) ==
    /\ at[t].op = "express" /\ at[t].step # "files" => slug = at[t].made
    /\ at[t].step = "row" => slug = at[t].problem
    /\ at[t].step = "files" => tests = <<>>
    /\ at[t].step = "write" => Written(at[t].set, at[t].next)
    /\ at[t].step \in {"lookup", "queue"} => tests # <<>> /\ DirWhole

Sole(t) == \A u \in Thread : Writing(u) => u = t

\* The steps at which a handler has changed nothing yet.
Early == {"await", "clear", "row"}

AloneInv == \A t \in Thread : Writing(t) /\ at[t].alone => Sole(t) /\ AloneOK(t)
TornInv == ~torn => \A t \in Thread : Writing(t) => at[t].alone
WholeInv == ~torn /\ (\A t \in Thread : Writing(t) => at[t].step \in Early) => DirWhole
PlaceInv == AloneInv /\ TornInv /\ WholeInv

----------------------------------------------------------------------------
(* What a package leaves. *)

\* An express_create that is about to be accepted has put the tests and a submission there,
\* as long as the problem is still its own; one that removes files has removed its problem.
ExpressOK(t) ==
    /\ at[t].op = "express" /\ at[t].step = "files" => slug # at[t].made
    /\ at[t].step \in {"await", "clear", "write", "lookup"} => at[t].queued = 0
    /\ at[t].op = "express" /\ at[t].step \in {"lookup", "queue"} /\ slug = at[t].made =>
           /\ tests # <<>>
           /\ at[t].queued > 0 => \E s \in DOMAIN subs : subs[s].problem = slug
PackageInv ==
    /\ slug \in accepted => tests # <<>> /\ \E s \in DOMAIN subs : subs[s].problem = slug
    /\ \A t \in Thread : ExpressOK(t)

\* A problem that was made from a package is at the end of its request, or still in its hands.
HeldInv ==
    slug \in packaged => slug \in accepted \cup stranded \/ \E t \in Thread : at[t].made = slug

----------------------------------------------------------------------------
(* What a judging earns. *)

\* The tests of the run that the source solves.
Solved == {i \in DOMAIN run.tests : run.tests[i].case \in run.solves}

\* A judging that no change has touched: it works on the rows that are there, for a
\* submission that is there, and has passed what the source solves.
QuietOK ==
    /\ \A t \in Thread : ~Writing(t)
    /\ ~torn /\ run.of = origin /\ run.tests = tests
    /\ Live(run.sub)
    /\ run.solves = subs[run.sub].solves /\ run.some = subs[run.sub].some
    /\ run.step \in {"shares", "input", "answer"} => run.exit = "none"
    /\ run.step = "shares" => run.passed = {}
    /\ run.step \in {"input", "answer"} =>
           run.shares = shares /\ run.passed = Solved \cap (1..(run.next - 1))
    /\ run.step = "answer" => run.input = Contents(origin, run.next)
    /\ run.exit = "IE" => run.passed = {}
    /\ run.step = "store" /\ run.exit = "none" =>
           /\ tests # <<>>
           /\ run.shares = shares /\ run.passed \subseteq Solved
           /\ run.passed = Solved \/ (~run.some /\ Solved # DOMAIN tests)
QuietInv == run.step # "idle" /\ run.quiet => QuietOK

\* What FairScore says of one submission.
Fair(r) ==
    /\ r.state \in {"CE", "AB"} => r.earned = 0
    /\ r.of # NoSet =>
          /\ r.state \in {"AC", "failed"} =>
                /\ r.state = "AC" <=> Solves(r.of, r) = DOMAIN TestsOf[r.of]
                /\ r.state = "AC" => r.earned = 100
                /\ Fairly(r.of, r)
          /\ r.state = "IE" => r.earned = 0
FairInv == \A s \in DOMAIN subs : Live(s) => Fair(subs[s])

----------------------------------------------------------------------------
(* Division, and what rounds to what. *)

LEMMA Division ==
    ASSUME NEW a \in Nat, NEW b \in Nat, b # 0
    PROVE  /\ a \div b \in Nat /\ a % b \in 0..(b - 1)
           /\ a = b * (a \div b) + (a % b)
  OBVIOUS

LEMMA Hundred ==
    /\ \A x \in Nat : x <= 100 => x \in 0..100
    /\ \A x \in 0..100 : x \in Nat /\ x <= 100 /\ x <= x /\ ~(x > 100)
  OBVIOUS

\* A share of the whole, in percent, is one of 0..100; and all of it is 100.
LEMMA RoundPercent ==
    ASSUME NEW m \in Nat, NEW c \in Nat, m # 0, c <= m
    PROVE  /\ Round(100 * c, m) \in 0..100
           /\ Round(100 * m, m) = 100
<1> DEFINE q == (100 * c) \div m
           r == (100 * c) % m
<1>1. q \in Nat /\ r \in 0..(m - 1) /\ 100 * c = m * q + r
  <2>1. 100 * c \in Nat
    OBVIOUS
  <2>2. QED
    BY <2>1, Division
<1>2. Round(100 * c, m) \in 0..100
  <2>1. m * q <= 100 * m
    BY <1>1
  <2>2. q <= 100
    BY <2>1, <1>1
  <2>3. q = 100 => r = 0
    BY <1>1
  <2>4. r = 0 => ~Half(100 * c, m)
    BY DEF Half
  <2>5. QED
    BY <1>1, <2>2, <2>3, <2>4 DEF Round
<1>3. Round(100 * m, m) = 100
  <2> DEFINE s == (100 * m) \div m
             t == (100 * m) % m
  <2>1. s \in Nat /\ t \in 0..(m - 1) /\ 100 * m = m * s + t
    <3>1. 100 * m \in Nat
      OBVIOUS
    <3>2. QED
      BY <3>1, Division
  <2>2. s = 100 /\ t = 0
    <3> HIDE DEF s, t
    <3>1. m * (100 - s) = t
      BY <2>1
    <3>2. 100 - s >= 1 => m * (100 - s) >= m
      BY <2>1
    <3>3. 100 - s <= 0 - 1 => m * (100 - s) <= 0 - m
      BY <2>1
    <3>4. QED
      BY <2>1, <3>1, <3>2, <3>3
  <2>3. ~Half(100 * m, m)
    BY <2>2 DEF Half
  <2>4. QED
    BY <2>2, <2>3 DEF Round
<1>4. QED
  BY <1>2, <1>3

\* A share is rounded to the nearest percent; and no share is nothing.
LEMMA RoundNearest ==
    ASSUME NEW m \in Nat, NEW c \in Nat, m # 0
    PROVE  /\ Nearest(Round(100 * c, m), c, m)
           /\ c = 0 => Round(100 * c, m) = 0
<1> DEFINE a == 100 * c
           q == a \div m
           r == a % m
           p == m * q
<1>1. a \in Nat
  OBVIOUS
<1>2. q \in Nat /\ r \in 0..(m - 1) /\ a = p + r
  <2> HIDE DEF a
  <2> QED  BY <1>1, Division
<1>3. p \in Nat /\ q * m = p /\ (q + 1) * m = p + m
  BY <1>2
<1>4. Round(a, m) = IF Half(a, m) THEN q + 1 ELSE q
  BY <1>2 DEF Round
<1>5. Half(a, m) <=> 2 * r > m \/ (2 * r = m /\ q % 2 = 1)
  BY DEF Half
<1>6. Nearest(Round(a, m), c, m)
  <2>1. CASE Half(a, m)
    <3>1. Round(a, m) * m - a = m - r
      <4> HIDE DEF q, r, p, a
      <4> QED  BY <1>1, <1>2, <1>3, <1>4, <2>1
    <3>2. 2 * r >= m
      BY <1>2, <1>5, <2>1
    <3> HIDE DEF q, r, p
    <3>3. 2 * (m - r) \in (0 - m)..m
      BY <1>2, <3>2
    <3>4. QED
      BY <3>1, <3>3 DEF Nearest
  <2>2. CASE ~Half(a, m)
    <3>1. Round(a, m) * m - a = 0 - r
      <4> HIDE DEF q, r, p, a
      <4> QED  BY <1>1, <1>2, <1>3, <1>4, <2>2
    <3>2. 2 * r <= m
      BY <1>2, <1>5, <2>2
    <3> HIDE DEF q, r, p
    <3>3. 2 * (0 - r) \in (0 - m)..m
      BY <1>2, <3>2
    <3>4. QED
      BY <3>1, <3>3 DEF Nearest
  <2>3. QED
    BY <2>1, <2>2
<1>7. ASSUME c = 0 PROVE Round(a, m) = 0
  <2>1. a = 0
    BY <1>7
  <2> HIDE DEF a, q, r, p
  <2>2. p = 0 /\ r = 0
    BY <2>1, <1>2, <1>3
  <2>3. q = 0
    BY <2>2, <1>2, <1>3
  <2>4. ~Half(a, m)
    BY <2>2, <1>5
  <2>5. QED
    BY <2>3, <2>4, <1>4
<1>8. QED
  BY <1>6, <1>7

----------------------------------------------------------------------------
(* From an archive to a test set. *)

\* The even split of any number of subtasks makes 100.
LEMMA EvenSplitWhole ==
    ASSUME NEW G, IsFiniteSet(G), G \subseteq Nat, G # {}
    PROVE  /\ DOMAIN EvenSplit(G) = G
           /\ \A g \in G : EvenSplit(G)[g] \in Nat
           /\ Total(EvenSplit(G)) = 100
<1> DEFINE n == Cardinality(G)
           share == 100 \div n
           rest == 100 - share * n
           m == Max(G)
           p == EvenSplit(G)
<1>1. n \in Nat /\ n # 0
  BY FS_CardinalityType, FS_EmptySet
<1>2. share \in Nat /\ rest \in Nat
  <2>1. share \in Nat /\ 100 % n \in 0..(n - 1) /\ 100 = n * share + (100 % n)
    BY <1>1, Division
  <2>2. QED
    BY <2>1, <1>1
<1>3. m \in G
  BY MaxOf
<1>4. p = [g \in G |-> IF g = m THEN share + rest ELSE share]
  BY DEF EvenSplit
<1> HIDE DEF n, share, rest, m, p
<1> DEFINE A == G \X (1..share)
           B == {m} \X ((share + 1)..(share + rest))
<1>5. Points(p) = A \cup B
  <2>1. \A g \in G : p[g] = IF g = m THEN share + rest ELSE share
    BY <1>4
  <2>2. DOMAIN p = G
    BY <1>4
  <2>3. ASSUME NEW x \in Points(p) PROVE x \in A \cup B
    <3>1. PICK g \in G : x \in {g} \X (1..p[g])
      BY <2>2 DEF Points
    <3>2. PICK i \in 1..p[g] : x = <<g, i>>
      BY <3>1
    <3>3. CASE i <= share
      BY <3>2, <3>3, <2>1, <1>2
    <3>4. CASE i > share
      BY <3>2, <3>4, <2>1, <1>2
    <3>5. QED
      BY <3>3, <3>4, <3>2, <2>1, <1>2
  <2>4. ASSUME NEW x \in A PROVE x \in Points(p)
    <3> DEFINE g == x[1]
               i == x[2]
    <3>1. x = <<g, i>> /\ g \in G /\ i \in 1..share
      OBVIOUS
    <3> HIDE DEF g, i
    <3>2. i \in 1..p[g]
      BY <3>1, <2>1, <1>2
    <3>3. x \in {g} \X (1..p[g])
      BY <3>1, <3>2
    <3>4. QED
      BY <3>1, <3>3, <2>2 DEF Points
  <2>5. ASSUME NEW x \in B PROVE x \in Points(p)
    <3>1. PICK i \in (share + 1)..(share + rest) : x = <<m, i>>
      OBVIOUS
    <3>2. i \in 1..p[m]
      BY <2>1, <1>2, <1>3
    <3>3. x \in {m} \X (1..p[m])
      BY <3>1, <3>2
    <3>4. QED
      BY <3>3, <2>2, <1>3 DEF Points
  <2>6. QED
    BY <2>3, <2>4, <2>5
<1>6. IsFiniteSet(A) /\ Cardinality(A) = n * share
  <2>1. IsFiniteSet(1..share) /\ Cardinality(1..share) = share
    BY <1>2, FS_Interval
  <2>2. QED
    BY <2>1, FS_Product DEF n
<1>7. IsFiniteSet(B) /\ Cardinality(B) = rest
  <2> DEFINE I == (share + 1)..(share + rest)
  <2>1. IsFiniteSet(I) /\ Cardinality(I) = rest
    BY <1>2, FS_Interval
  <2>2. IsFiniteSet({m}) /\ Cardinality({m}) = 1
    BY FS_Singleton
  <2>3. IsFiniteSet(B) /\ Cardinality(B) = Cardinality({m}) * Cardinality(I)
    BY <2>1, <2>2, FS_Product
  <2>4. Cardinality(B) = 1 * rest
    BY <2>1, <2>2, <2>3
  <2>5. QED
    BY <2>3, <2>4, <1>2
<1>8. A \cap B = {}
  BY <1>2
<1>9. Cardinality(A \cup B) = n * share + rest
  <2> HIDE DEF A, B
  <2>1. Cardinality(A \cup B) = Cardinality(A) + Cardinality(B) - Cardinality(A \cap B)
    BY <1>6, <1>7, FS_Union
  <2>2. Cardinality(A \cap B) = 0
    BY <1>8, FS_EmptySet
  <2>3. n * share \in Nat
    BY <1>1, <1>2
  <2>4. QED
    BY <2>1, <2>2, <2>3, <1>6, <1>7, <1>2
<1>10. n * share + rest = 100
  BY <1>1, <1>2 DEF rest
<1>11. Total(p) = 100
  BY <1>5, <1>9, <1>10 DEF Total
<1>12. DOMAIN p = G /\ \A g \in G : p[g] \in Nat
  BY <1>4, <1>2
<1>13. QED
  BY <1>11, <1>12 DEF p

\* The order of parse_zip is strict and total on the files of an archive.
LEMMA SoonerOrders ==
    ASSUME NEW a \in DOMAIN Archive, NEW R,
           \A f, g \in Archive[a].files : <<f, g>> \in R <=> Sooner(f, g)
    PROVE  Orders(R, Archive[a].files)
<1> DEFINE F == Archive[a].files
<1>1. \A f \in F : f \in File
  BY ArchiveAssumption
<1>2. \A f, g \in F : f # g => f.subtask # g.subtask \/ f.case # g.case
  BY ArchiveAssumption
<1>3. \A f \in F : f.case \in Nat /\ f.subtask \in Nat /\ f.sample \in BOOLEAN
  BY <1>1 DEF File
<1> HIDE DEF F
<1>4. ASSUME NEW f \in F, NEW g \in F, f # g PROVE Sooner(f, g) \/ Sooner(g, f)
  <2>1. CASE f.sample = g.sample
    BY <1>2, <1>3, <1>4, <2>1 DEF Sooner
  <2>2. CASE f.sample # g.sample
    BY <1>3, <2>2 DEF Sooner
  <2>3. QED
    BY <2>1, <2>2
<1>5. \A f \in F : ~Sooner(f, f)
  BY <1>3 DEF Sooner
<1>6. ASSUME NEW f \in F, NEW g \in F, NEW h \in F, Sooner(f, g), Sooner(g, h)
      PROVE  Sooner(f, h)
  BY <1>3, <1>6 DEF Sooner
<1>7. QED
  BY <1>4, <1>5, <1>6 DEF Orders, F

\* parse_zip puts every file of the archive at one place, and nothing else.
LEMMA ParsedAll ==
    ASSUME NEW a \in DOMAIN Archive
    PROVE  /\ Cardinality(Archive[a].files) \in Nat
           /\ DOMAIN ParsedTests(a) = 1..Cardinality(Archive[a].files)
           /\ \A i \in DOMAIN ParsedTests(a) : ParsedTests(a)[i] \in Archive[a].files
           /\ \A f \in Archive[a].files : \E i \in DOMAIN ParsedTests(a) : ParsedTests(a)[i] = f
<1> DEFINE F == Archive[a].files
           sooner == {p \in F \X F : Sooner(p[1], p[2])}
<1>1. IsFiniteSet(F)
  BY ArchiveAssumption
<1>2. Cardinality(F) \in Nat
  BY <1>1, FS_CardinalityType
<1>3. \A f, g \in F : <<f, g>> \in sooner <=> Sooner(f, g)
  OBVIOUS
<1>4. \A f \in F : UpTo(F, sooner, f) = {g \in F : ~Sooner(f, g)}
  BY <1>3 DEF UpTo
<1>5. /\ \A f \in F : Cardinality(UpTo(F, sooner, f)) \in 1..Cardinality(F)
      /\ \A f, g \in F :
             Cardinality(UpTo(F, sooner, f)) = Cardinality(UpTo(F, sooner, g)) => f = g
      /\ \A i \in 1..Cardinality(F) : \E f \in F : Cardinality(UpTo(F, sooner, f)) = i
  <2> HIDE DEF sooner
  <2>1. Orders(sooner, F)
    BY <1>3, SoonerOrders
  <2> HIDE DEF F
  <2>2. QED
    BY <1>1, <2>1, PlacesOf
<1>6. \A f \in F : Place(F, f) = Cardinality(UpTo(F, sooner, f))
  BY <1>4 DEF Place
<1>7. /\ \A f \in F : Place(F, f) \in 1..Cardinality(F)
      /\ \A f, g \in F : Place(F, f) = Place(F, g) => f = g
      /\ \A i \in 1..Cardinality(F) : \E f \in F : Place(F, f) = i
  <2> HIDE DEF F, sooner
  <2> QED  BY <1>5, <1>6
<1>8. ParsedTests(a) = [i \in 1..Cardinality(F) |-> CHOOSE f \in F : Place(F, f) = i]
  BY DEF ParsedTests
<1> HIDE DEF F
<1>9. ASSUME NEW i \in 1..Cardinality(F)
      PROVE  ParsedTests(a)[i] \in F /\ Place(F, ParsedTests(a)[i]) = i
  <2>1. ParsedTests(a)[i] = CHOOSE f \in F : Place(F, f) = i
    BY <1>8
  <2>2. \E f \in F : Place(F, f) = i
    BY <1>7
  <2>3. QED
    BY <2>1, <2>2
<1>10. ASSUME NEW f \in F PROVE \E i \in 1..Cardinality(F) : ParsedTests(a)[i] = f
  BY <1>7, <1>9
<1>11. DOMAIN ParsedTests(a) = 1..Cardinality(F)
  BY <1>8
<1>12. QED
  BY <1>2, <1>9, <1>10, <1>11 DEF F

\* The tests of every set are rows in a sequence.
LEMMA TestsType ==
    ASSUME NEW k \in SetName
    PROVE  /\ TestsOf[k] \in Seq(Row)
           /\ Len(TestsOf[k]) \in Nat /\ DOMAIN TestsOf[k] = 1..Len(TestsOf[k])
           /\ \A i \in DOMAIN TestsOf[k] : TestsOf[k][i] \in Row
<1> DEFINE a == k[1]
           T == IF a \in DOMAIN Archive THEN ParsedTests(a) ELSE Inline[a]
<1>1. TestsOf[k] = [i \in DOMAIN T |-> [case |-> T[i].case, sample |-> T[i].sample \/ i <= k[2],
                                        subtask |-> T[i].subtask]]
  BY DEF TestsOf
<1>0. a \in DOMAIN Archive \cup DOMAIN Inline
  BY DEF SetName
<1> HIDE DEF a
<1>2. \E n \in Nat : DOMAIN T = 1..n
  <2>1. CASE a \in DOMAIN Archive
    BY <2>1, ParsedAll
  <2>2. CASE a \notin DOMAIN Archive
    <3>1. a \in DOMAIN Inline /\ T = Inline[a]
      BY <2>2, <1>0
    <3>2. T \in Seq([case : Nat, sample : BOOLEAN, subtask : Nat])
      BY <3>1, InlineAssumption
    <3>3. QED
      BY <3>2
  <2>3. QED
    BY <2>1, <2>2
<1>3. ASSUME NEW i \in DOMAIN T
      PROVE  T[i].case \in Nat /\ T[i].sample \in BOOLEAN /\ T[i].subtask \in Nat
  <2>1. CASE a \in DOMAIN Archive
    <3>1. T[i] \in Archive[a].files
      BY <2>1, <1>3, ParsedAll
    <3>2. T[i] \in File
      BY <3>1, <2>1, ArchiveAssumption
    <3>3. QED
      BY <3>2 DEF File
  <2>2. CASE a \notin DOMAIN Archive
    <3>1. a \in DOMAIN Inline /\ T = Inline[a]
      BY <2>2, <1>0
    <3>2. T \in Seq(Row)
      BY <3>1, InlineAssumption DEF Row
    <3>3. T[i] \in Row
      <4> HIDE DEF T
      <4> QED  BY <3>2, <1>3, ElementOfSeq
    <3>4. QED
      BY <3>3 DEF Row
  <2>3. QED
    BY <2>1, <2>2
<1> HIDE DEF T
<1>4. \A i \in DOMAIN T : TestsOf[k][i] \in Row
  BY <1>1, <1>3 DEF Row
<1>5. PICK n \in Nat : DOMAIN TestsOf[k] = 1..n
  BY <1>1, <1>2
<1>6. TestsOf[k] \in [1..n -> Row]
  BY <1>1, <1>4, <1>5
<1>7. TestsOf[k] \in Seq(Row) /\ Len(TestsOf[k]) = n
  BY <1>6
<1>8. QED
  BY <1>5, <1>6, <1>7

\* What an archive holds is what its tests hold; some more may be samples.
LEMMA ArchiveTests ==
    ASSUME NEW k \in SetName, k[1] \in DOMAIN Archive
    PROVE  /\ \A i \in DOMAIN TestsOf[k] : \E f \in Archive[k[1]].files :
                  (f.sample => TestsOf[k][i].sample) /\ TestsOf[k][i].subtask = f.subtask
           /\ \A f \in Archive[k[1]].files : \E i \in DOMAIN TestsOf[k] :
                  TestsOf[k][i].subtask = f.subtask
           /\ Archive[k[1]].files # {} => TestsOf[k] # <<>>
<1> DEFINE a == k[1]
           T == ParsedTests(a)
<1>1. a \in DOMAIN Archive
  OBVIOUS
<1>2. TestsOf[k] = [i \in DOMAIN T |-> [case |-> T[i].case, sample |-> T[i].sample \/ i <= k[2],
                                        subtask |-> T[i].subtask]]
  BY <1>1 DEF TestsOf
<1> HIDE DEF T, a
<1>3. /\ \A i \in DOMAIN T : T[i] \in Archive[a].files
      /\ \A f \in Archive[a].files : \E i \in DOMAIN T : T[i] = f
  BY <1>1, ParsedAll DEF T
<1>4. DOMAIN TestsOf[k] = DOMAIN T
      /\ \A i \in DOMAIN T : (T[i].sample => TestsOf[k][i].sample)
                             /\ TestsOf[k][i].subtask = T[i].subtask
  <2>1. DOMAIN TestsOf[k] = DOMAIN T
    BY <1>2
  <2>2. ASSUME NEW i \in DOMAIN T
        PROVE  (T[i].sample => TestsOf[k][i].sample) /\ TestsOf[k][i].subtask = T[i].subtask
    <3>1. TestsOf[k][i] = [case |-> T[i].case, sample |-> T[i].sample \/ i <= k[2],
                           subtask |-> T[i].subtask]
      BY <1>2
    <3>2. TestsOf[k][i].subtask = T[i].subtask
      BY <3>1
    <3>3. TestsOf[k][i].sample = (T[i].sample \/ i <= k[2])
      BY <3>1
    <3>4. T[i].sample => TestsOf[k][i].sample
      BY <3>3, Zenon
    <3>5. QED
      BY <3>2, <3>4
  <2>3. QED
    BY <2>1, <2>2
<1>5. Archive[a].files # {} => DOMAIN TestsOf[k] # {}
  BY <1>3, <1>4
<1>6. \A i \in DOMAIN TestsOf[k] : \E f \in Archive[a].files :
          (f.sample => TestsOf[k][i].sample) /\ TestsOf[k][i].subtask = f.subtask
  BY <1>3, <1>4
<1>7. \A f \in Archive[a].files : \E i \in DOMAIN TestsOf[k] : TestsOf[k][i].subtask = f.subtask
  BY <1>3, <1>4
<1>8. QED
  BY <1>5, <1>6, <1>7 DEF a

\* The percentages of an archive that parses make 100, over subtasks that have tests, and
\* leave no hidden test out.
LEMMA SharesWhole ==
    ASSUME NEW k \in SetName, SharesOf[k] # <<>>
    PROVE  /\ k[1] \in DOMAIN Archive /\ Parses(k[1])
           /\ IsFiniteSet(DOMAIN SharesOf[k])
           /\ \A g \in DOMAIN SharesOf[k] : SharesOf[k][g] \in Nat /\ SharesOf[k][g] \in 0..100
           /\ Total(SharesOf[k]) = 100
           /\ \A g \in DOMAIN SharesOf[k] : Group(TestsOf[k], g) # {}
           /\ \A i \in DOMAIN TestsOf[k] :
                  TestsOf[k][i].sample \/ TestsOf[k][i].subtask \in DOMAIN SharesOf[k]
<1> DEFINE a == k[1]
           F == Archive[a].files
           p == Archive[a].percent
           G == DOMAIN p
           S == SharesOf[k]
<1>1. a \in DOMAIN Archive /\ Parses(a) /\ S = Resolved(p)
  BY DEF SharesOf
<1> HIDE DEF a
<1>2. G = {f.subtask : f \in F} \ {0} /\ \A g \in G : p[g] \in Nat \cup {NoShare}
  BY <1>1, ArchiveAssumption
<1>3. IsFiniteSet(F) /\ \A f \in F : f \in File
  BY <1>1, ArchiveAssumption
<1>4. IsFiniteSet(G) /\ G \subseteq Nat
  <2> DEFINE s == [f \in F |-> f.subtask]
             H == {f.subtask : f \in F}
  <2>1. s \in Surjection(F, H)
    <3>1. s \in [F -> H]
      OBVIOUS
    <3>2. \A h \in H : \E f \in F : s[f] = h
      OBVIOUS
    <3>3. QED
      BY <3>1, <3>2 DEF Surjection
  <2>2. IsFiniteSet(H)
    <3> HIDE DEF s, H, F
    <3> QED  BY <2>1, <1>3, FS_Surjection
  <2>3. G \in SUBSET H
    BY <1>2
  <2>4. \A h \in H : h \in Nat
    BY <1>3 DEF File
  <2>5. QED
    <3> HIDE DEF H, G
    <3> QED  BY <2>2, <2>3, <2>4, FS_Subset
<1>5. G # {}
  <2>1. SUFFICES ASSUME G = {} PROVE S = <<>>
    OBVIOUS
  <2>2. p \in [{} -> Nat \cup {NoShare}]
    BY <1>1, <1>2, <2>1, ArchiveAssumption
  <2>3. S = p
    BY <1>1, <2>1 DEF Resolved
  <2>4. p = [x \in {} |-> NoShare]
    BY <2>2
  <2>5. <<>> = [x \in {} |-> NoShare]
    OBVIOUS
  <2>6. QED
    BY <2>3, <2>4, <2>5
<1>6. DOMAIN S = G /\ (\A g \in G : S[g] \in Nat) /\ Total(S) = 100
  <2>1. CASE \E g \in G : p[g] = NoShare
    <3>1. S = EvenSplit(G)
      BY <1>1, <2>1 DEF Resolved
    <3> HIDE DEF G, S, F, p
    <3>2. IsFiniteSet(G) /\ G \subseteq Nat /\ G # {}
      BY <1>4, <1>5
    <3>3. /\ DOMAIN EvenSplit(G) = G
          /\ \A g \in G : EvenSplit(G)[g] \in Nat
          /\ Total(EvenSplit(G)) = 100
      BY <3>2, EvenSplitWhole, Zenon
    <3>4. QED
      BY <3>1, <3>3, Zenon
  <2>2. CASE \A g \in G : p[g] # NoShare
    <3>1. S = p
      BY <1>1, <2>2 DEF Resolved
    <3>2. Resolvable(p)
      BY <1>1 DEF Parses
    <3>3. Total(p) = 100
      BY <3>2, <2>2, <1>5 DEF Resolvable
    <3>4. QED
      BY <3>1, <3>3, <2>2, <1>2
  <2>3. QED
    BY <2>1, <2>2
<1>7. \A g \in DOMAIN S : S[g] \in 0..100
  <2> HIDE DEF S, G
  <2>1. \A g \in DOMAIN S : S[g] \in Nat /\ S[g] <= Total(S)
    BY <1>4, <1>6, ShareAtMostTotal
  <2>2. \A g \in DOMAIN S : S[g] \in Nat /\ S[g] <= 100
    BY <2>1, <1>6
  <2>3. QED
    BY <2>2, Hundred, Zenon
<1>8. ASSUME NEW g \in DOMAIN S PROVE Group(TestsOf[k], g) # {}
  <2>1. PICK f \in F : g = f.subtask
    BY <1>2, <1>6
  <2>2. \E i \in DOMAIN TestsOf[k] : TestsOf[k][i].subtask = g
    BY <1>1, <2>1, ArchiveTests DEF a
  <2>3. QED
    BY <2>2 DEF Group
<1>9. ASSUME NEW i \in DOMAIN TestsOf[k]
      PROVE  TestsOf[k][i].sample \/ TestsOf[k][i].subtask \in DOMAIN S
  <2>1. PICK f \in F : (f.sample => TestsOf[k][i].sample) /\ TestsOf[k][i].subtask = f.subtask
    BY <1>1, ArchiveTests DEF a
  <2>2. f.subtask # 0 \/ f.sample
    BY <1>1, <1>5 DEF Parses
  <2>3. QED
    BY <2>1, <2>2, <1>2, <1>6
<1>10. QED
  BY <1>1, <1>4, <1>6, <1>7, <1>8, <1>9 DEF a

----------------------------------------------------------------------------
(* What a run earns. *)

LEMMA RowsType ==
    ASSUME NEW T \in Rows
    PROVE  /\ Len(T) \in Nat /\ DOMAIN T = 1..Len(T) /\ T \in Seq(Row)
           /\ IsFiniteSet(DOMAIN T)
           /\ T # <<>> <=> Len(T) # 0
<1>1. T \in Seq(Row) /\ Len(T) \in Nat /\ DOMAIN T = 1..Len(T)
  <2>1. CASE T = <<>>
    BY <2>1
  <2>2. CASE T # <<>>
    BY <2>2, TestsType DEF Rows
  <2>3. QED
    BY <2>1, <2>2
<1>2. IsFiniteSet(1..Len(T))
  BY <1>1, FS_Interval
<1>3. T # <<>> <=> Len(T) # 0
  BY <1>1, EmptySeq
<1>4. QED
  BY <1>1, <1>2, <1>3

\* Where there are tests, some of them are scored.
LEMMA ScoredSome ==
    ASSUME NEW T \in Rows
    PROVE  /\ ScoredOf(T) \subseteq DOMAIN T /\ IsFiniteSet(ScoredOf(T))
           /\ Cardinality(ScoredOf(T)) \in Nat
           /\ T # <<>> => Cardinality(ScoredOf(T)) # 0
<1>1. ScoredOf(T) \in SUBSET DOMAIN T
  BY DEF ScoredOf, Hidden
<1>2. IsFiniteSet(ScoredOf(T)) /\ Cardinality(ScoredOf(T)) \in Nat
  BY <1>1, RowsType, FS_Subset, FS_CardinalityType
<1>3. ASSUME T # <<>> PROVE ScoredOf(T) # {}
  <2>1. DOMAIN T = 1..Len(T) /\ Len(T) \in Nat /\ Len(T) # 0
    BY <1>3, RowsType
  <2>2. DOMAIN T # {}
    BY <2>1
  <2>3. QED
    BY <2>2 DEF ScoredOf
<1>4. QED
  BY <1>1, <1>2, <1>3, FS_EmptySet

\* The subtasks that pay are some of those that there are.
LEMMA PaidWithin ==
    ASSUME NEW S \in Percents, S # <<>>, NEW T, NEW passed
    PROVE  Total(PaidOf(T, S, passed)) \in 0..100
<1>1. PICK k \in SetName : S = SharesOf[k]
  BY DEF Percents
<1>2. /\ IsFiniteSet(DOMAIN S) /\ Total(S) = 100
      /\ \A g \in DOMAIN S : S[g] \in Nat
  BY <1>1, SharesWhole
<1> DEFINE q == PaidOf(T, S, passed)
<1>3. DOMAIN q \subseteq DOMAIN S /\ \A g \in DOMAIN q : q[g] = S[g]
  BY DEF PaidOf
<1> HIDE DEF q
<1>4. Total(q) \in Nat /\ Total(q) <= Total(S)
  BY <1>2, <1>3, FewerPoints
<1>5. Total(q) \in Nat /\ Total(q) <= 100
  BY <1>2, <1>4
<1>6. Total(q) \in 0..100
  BY <1>5, Hundred, Zenon
<1>7. QED
  BY <1>6 DEF q

LEMMA RoundOfPassed ==
    ASSUME NEW T \in Rows, T # <<>>, NEW passed
    PROVE  Round(100 * Cardinality(ScoredOf(T) \cap passed), Cardinality(ScoredOf(T))) \in 0..100
<1> DEFINE m == Cardinality(ScoredOf(T))
           c == Cardinality(ScoredOf(T) \cap passed)
<1>1. m \in Nat /\ m # 0 /\ IsFiniteSet(ScoredOf(T))
  BY ScoredSome
<1>2. IsFiniteSet(ScoredOf(T) \cap passed) /\ c <= m
  BY <1>1, FS_Intersection
<1>3. c \in Nat
  BY <1>2, FS_CardinalityType
<1> HIDE DEF m, c
<1>4. Round(100 * c, m) \in 0..100
  BY <1>1, <1>2, <1>3, RoundPercent
<1>5. QED
  BY <1>4 DEF m, c

\* A run earns between nothing and everything.
LEMMA EarnedType ==
    ASSUME NEW T \in Rows, NEW S \in Percents, NEW some \in BOOLEAN, NEW passed
    PROVE  EarnedPercent(T, S, some, passed) \in 0..100
<1>1. 0 \in 0..100 /\ 100 \in 0..100
  OBVIOUS
<1>2. CASE T = <<>>
  BY <1>1, <1>2 DEF EarnedPercent
<1>3. CASE T # <<>> /\ S # <<>>
  <2> DEFINE t == Total(PaidOf(T, S, passed))
  <2>1. t \in 0..100
    BY <1>3, PaidWithin
  <2>2. EarnedPercent(T, S, some, passed) = IF t > 100 THEN 100 ELSE t
    BY <1>3 DEF EarnedPercent
  <2> HIDE DEF t
  <2>3. QED
    BY <1>1, <2>1, <2>2
<1>4. CASE T # <<>> /\ S = <<>> /\ some
  <2> DEFINE t == Round(100 * Cardinality(ScoredOf(T) \cap passed), Cardinality(ScoredOf(T)))
  <2>1. t \in 0..100
    BY <1>4, RoundOfPassed
  <2>2. EarnedPercent(T, S, some, passed) = t
    BY <1>4 DEF EarnedPercent
  <2>3. QED
    BY <2>1, <2>2
<1>5. CASE T # <<>> /\ S = <<>> /\ ~some
  <2>1. EarnedPercent(T, S, some, passed) = IF ScoredOf(T) \subseteq passed THEN 100 ELSE 0
    BY <1>5 DEF EarnedPercent
  <2>2. QED
    BY <1>1, <2>1
<1>6. QED
  BY <1>2, <1>3, <1>4, <1>5

\* A run that passed nothing earns nothing.
LEMMA NothingEarned ==
    ASSUME NEW T \in Rows, NEW S \in Percents, NEW some \in BOOLEAN
    PROVE  EarnedPercent(T, S, some, {}) = 0
<1>1. CASE T = <<>>
  BY <1>1 DEF EarnedPercent
<1>2. CASE T # <<>> /\ S # <<>>
  <2> DEFINE q == PaidOf(T, S, {})
  <2>1. \A h \in DOMAIN S : ~Pays(T, h, {})
    BY DEF Pays
  <2>2. DOMAIN q = {}
    BY <2>1 DEF PaidOf
  <2>3. EarnedPercent(T, S, some, {}) = IF Total(q) > 100 THEN 100 ELSE Total(q)
    BY <1>2 DEF EarnedPercent
  <2> HIDE DEF q
  <2>4. Total(q) = 0
    <3>1. Points(q) = {}
      BY <2>2 DEF Points
    <3>2. QED
      BY <3>1, FS_EmptySet DEF Total
  <2>5. QED
    BY <2>3, <2>4
<1>3. CASE T # <<>> /\ S = <<>> /\ some
  <2> DEFINE m == Cardinality(ScoredOf(T))
             c == Cardinality(ScoredOf(T) \cap {})
  <2>1. m \in Nat /\ m # 0
    BY <1>3, ScoredSome
  <2>2. c = 0
    BY FS_EmptySet
  <2>3. EarnedPercent(T, S, some, {}) = Round(100 * c, m)
    BY <1>3 DEF EarnedPercent
  <2> HIDE DEF m, c
  <2>4. QED
    BY <2>1, <2>2, <2>3, RoundNearest
<1>4. CASE T # <<>> /\ S = <<>> /\ ~some
  <2>1. EarnedPercent(T, S, some, {}) = IF ScoredOf(T) \subseteq {} THEN 100 ELSE 0
    BY <1>4 DEF EarnedPercent
  <2>2. ScoredOf(T) # {}
    BY <1>4, ScoredSome, FS_EmptySet
  <2>3. QED
    BY <2>1, <2>2
<1>5. QED
  BY <1>1, <1>2, <1>3, <1>4

\* What a run that stopped where it had to earns: all that was promised, if it went through
\* or the problem has partial scores, and never more.
LEMMA FairEarned ==
    ASSUME NEW k \in SetName, TestsOf[k] # <<>>,
           NEW sub, sub.some \in BOOLEAN,
           NEW passed, passed \subseteq Solves(k, sub),
           passed = Solves(k, sub) \/ ~sub.some,
           sub.earned = EarnedPercent(TestsOf[k], SharesOf[k], sub.some, passed)
    PROVE  Fairly(k, sub) /\ (passed = DOMAIN TestsOf[k] => sub.earned = 100)
<1> DEFINE T == TestsOf[k]
           S == SharesOf[k]
           all == Solves(k, sub)
           earned == sub.earned
<1>1. T \in Rows /\ T # <<>> /\ S \in Percents /\ all \subseteq DOMAIN T
  BY DEF Rows, Percents, Solves
<1>0. earned = EarnedPercent(T, S, sub.some, passed)
  OBVIOUS
<1>2. CASE S # <<>>
  <2> DEFINE whole == {g \in DOMAIN S : Group(T, g) \subseteq all}
             q == PaidOf(T, S, passed)
             w == [g \in whole |-> S[g]]
  <2>1. /\ IsFiniteSet(DOMAIN S) /\ Total(S) = 100
        /\ \A g \in DOMAIN S : S[g] \in Nat
        /\ \A g \in DOMAIN S : Group(T, g) # {}
    BY <1>2, SharesWhole
  <2>2. Promise(k, sub) = Total(w)
    BY DEF Promise
  <2>3. earned = IF Total(q) > 100 THEN 100 ELSE Total(q)
    BY <1>0, <1>1, <1>2 DEF EarnedPercent
  <2>4. q = [g \in {h \in DOMAIN S : Group(T, h) \subseteq passed} |-> S[g]]
    <3>1. \A h \in DOMAIN S : Pays(T, h, passed) <=> Group(T, h) \subseteq passed
      BY <2>1 DEF Pays
    <3>2. {h \in DOMAIN S : Pays(T, h, passed)} = {h \in DOMAIN S : Group(T, h) \subseteq passed}
      BY <3>1
    <3>3. QED
      BY <3>2 DEF PaidOf
  <2>5. Total(q) \in 0..100
    BY <1>1, <1>2, PaidWithin
  <2>6. Total(w) \in Nat /\ Total(q) <= Total(w)
    <3>1. DOMAIN w \subseteq DOMAIN S /\ \A g \in DOMAIN w : w[g] = S[g]
      OBVIOUS
    <3>2. DOMAIN q \subseteq DOMAIN w /\ \A g \in DOMAIN q : q[g] = w[g]
      BY <2>4
    <3> HIDE DEF w, q, S
    <3>3. Total(w) \in Nat
      BY <2>1, <3>1, FewerPoints
    <3>4. IsFiniteSet(DOMAIN w) /\ \A g \in DOMAIN w : w[g] \in Nat
      BY <2>1, <3>1, FS_Subset
    <3>5. Total(q) <= Total(w)
      BY <3>2, <3>4, FewerPoints
    <3>6. QED
      BY <3>3, <3>5
  <2>7. passed = all => q = w
    BY <2>4
  <2>8. ASSUME passed = DOMAIN T PROVE Total(q) = 100
    <3>1. \A g \in DOMAIN S : Group(T, g) \subseteq passed
      BY <2>8 DEF Group
    <3>2. {h \in DOMAIN S : Group(T, h) \subseteq passed} = DOMAIN S
      BY <3>1
    <3>3. DOMAIN q = DOMAIN S /\ \A g \in DOMAIN S : q[g] = S[g]
      BY <2>4, <3>2
    <3>4. Points(q) = Points(S)
      BY <3>3 DEF Points
    <3>5. QED
      BY <3>4, <2>1 DEF Total
  <2> HIDE DEF q, w
  <2>9. earned = Total(q)
    <3>1. ~(Total(q) > 100)
      BY <2>5, Hundred, Zenon
    <3>2. QED
      BY <2>3, <3>1
  <2>10. earned <= Promise(k, sub) /\ (sub.some => earned = Promise(k, sub))
    BY <2>2, <2>5, <2>6, <2>7, <2>9
  <2>11. QED
    BY <1>2, <2>8, <2>9, <2>10 DEF Fairly
<1>3. CASE S = <<>> /\ sub.some
  <2> DEFINE m == Cardinality(ScoredOf(T))
             c == Cardinality(ScoredOf(T) \cap passed)
  <2>1. earned = Round(100 * c, m)
    BY <1>0, <1>1, <1>3 DEF EarnedPercent
  <2>2. m \in Nat /\ m # 0 /\ IsFiniteSet(ScoredOf(T))
    BY <1>1, ScoredSome
  <2>3. c \in Nat
    BY <2>2, FS_Intersection, FS_CardinalityType
  <2>4. passed = all
    BY <1>3
  <2>5. Nearest(earned, c, m)
    <3> HIDE DEF m, c, earned
    <3> QED  BY <2>1, <2>2, <2>3, RoundNearest
  <2>6. ASSUME passed = DOMAIN T PROVE earned = 100
    <3>1. c = m
      <4>1. ScoredOf(T) \cap passed = ScoredOf(T)
        BY <2>6, <1>1, ScoredSome
      <4>2. QED
        BY <4>1
    <3> HIDE DEF m, c, earned
    <3>2. QED
      BY <2>1, <2>2, <3>1, RoundPercent
  <2>7. Fairly(k, sub)
    BY <1>3, <2>4, <2>5 DEF Fairly
  <2>8. QED
    BY <2>6, <2>7
<1>4. CASE S = <<>> /\ ~sub.some
  <2>1. earned = IF ScoredOf(T) \subseteq passed THEN 100 ELSE 0
    BY <1>0, <1>1, <1>4 DEF EarnedPercent
  <2>2. ScoredOf(T) \subseteq passed => ScoredOf(T) \cap all = ScoredOf(T)
    OBVIOUS
  <2>3. ScoredOf(T) \subseteq DOMAIN T
    BY <1>1, ScoredSome
  <2>4. Fairly(k, sub)
    BY <1>4, <2>1, <2>2 DEF Fairly
  <2>5. QED
    BY <2>1, <2>3, <2>4
<1>5. QED
  BY <1>2, <1>3, <1>4

----------------------------------------------------------------------------
(* The types. *)

LEMMA IdsOf ==
    ASSUME NEW k \in SetName
    PROVE  DOMAIN TestsOf[k] \subseteq Idx
  BY DEF Idx

LEMMA NoSetIsNone == NoSet \notin SetName
  BY NamesAssumption DEF NoSet, SetName

LEMMA RowsAreRows ==
    ASSUME RowsOK
    PROVE  tests \in Rows /\ shares \in Percents /\ DOMAIN tests \subseteq Idx
<1>1. CASE origin = NoSet
  BY <1>1 DEF RowsOK, Rows, Percents
<1>2. CASE origin # NoSet
  <2>1. origin \in SetName
    BY <1>2 DEF RowsOK, Set
  <2>2. QED
    BY <1>2, <2>1, IdsOf DEF RowsOK, Rows, Percents
<1>3. QED
  BY <1>1, <1>2

LEMMA ContentsStored ==
    ASSUME NEW k \in SetName, NEW j \in DOMAIN TestsOf[k]
    PROVE  Contents(k, j) \in Stored
  BY DEF Stored

LEMMA IdleOK ==
    ASSUME NEW last
    PROVE  HandlerOK(Idle, last)
<1>1. << >> \in Seq(SUBSET Nat)
  BY EmptySeq
<1>2. Idle \in Request
  BY <1>1 DEF Idle, Request, Steps, Set, NoId
<1>3. QED
  BY <1>2 DEF HandlerOK, Idle

\* A handler that begins is one of a known kind, at its first step.
LEMMA HandlerType ==
    ASSUME NEW op \in {"delete", "replace", "upload", "bulk", "express"}, NEW step \in Steps,
           NEW id \in Nat, NEW k \in Set, NEW sources \in Seq(SUBSET Nat), NEW made \in Nat
    PROVE  Handler(op, step, id, k, sources, made) \in Request
  BY DEF Handler, Request

\* Handlers that nothing is done to keep what they hold, and one may be told that it is not
\* alone, or that it is.
LEMMA HandlerStays ==
    ASSUME NEW h, NEW m \in Nat, NEW n \in Nat, m <= n, HandlerOK(h, m)
    PROVE  HandlerOK(h, n)
<1>1. 1..m \subseteq 1..n
  OBVIOUS
<1>2. QED
  BY <1>1 DEF HandlerOK

LEMMA HandlerAlone ==
    ASSUME NEW h, NEW n, HandlerOK(h, n), h.op # "none", NEW b \in BOOLEAN,
           NEW g, g = [h EXCEPT !.alone = b]
    PROVE  HandlerOK(g, n)
<1>1. [h EXCEPT !.alone = b] \in Request
  BY DEF HandlerOK, Request
<1>2. QED
  BY <1>1 DEF HandlerOK, Request

LEMMA HandlersStep ==
    ASSUME HandlersOK, lastId \in Nat, lastId' \in Nat, lastId <= lastId',
           NEW t \in Thread, NEW h, HandlerOK(h, lastId'), at' = [at EXCEPT ![t] = h]
    PROVE  HandlersOK'
<1>1. at' \in [Thread -> Request]
  BY DEF HandlersOK, HandlerOK
<1>2. ASSUME NEW u \in Thread PROVE HandlerOK(at'[u], lastId')
  <2>1. CASE u = t
    BY <2>1 DEF HandlersOK
  <2>2. CASE u # t
    <3>1. at'[u] = at[u] /\ HandlerOK(at[u], lastId)
      BY <2>2 DEF HandlersOK
    <3>2. QED
      BY <3>1, HandlerStays
  <2>3. QED
    BY <2>1, <2>2
<1>3. QED
  BY <1>1, <1>2 DEF HandlersOK

LEMMA HandlersBegin ==
    ASSUME HandlersOK, lastId \in Nat, lastId' \in Nat, lastId <= lastId',
           NEW t \in Thread, NEW h, HandlerOK(h, lastId'), h.op # "none", Begins(t, h)
    PROVE  HandlersOK'
<1>1. (Writers = {}) \in BOOLEAN
  OBVIOUS
<1>2. ASSUME NEW u \in Thread PROVE HandlerOK(at'[u], lastId') /\ at'[u] \in Request
  <2>1. CASE u = t
    <3>1. at'[u] = [h EXCEPT !.alone = (Writers = {})]
      BY <2>1 DEF Begins
    <3>2. HandlerOK(at'[u], lastId')
      BY <1>1, <3>1, HandlerAlone, Zenon
    <3>3. QED
      BY <3>2 DEF HandlerOK
  <2>2. CASE u # t /\ Writing(u)
    <3>1. at'[u] = [at[u] EXCEPT !.alone = FALSE]
      BY <2>2 DEF Begins
    <3>2. HandlerOK(at[u], lastId') /\ at[u].op # "none"
      BY <2>2, HandlerStays DEF HandlersOK, HandlerOK, Writing
    <3>3. HandlerOK(at'[u], lastId')
      BY <3>1, <3>2, HandlerAlone, Zenon
    <3>4. QED
      BY <3>3 DEF HandlerOK
  <2>3. CASE u # t /\ ~Writing(u)
    <3>1. at'[u] = at[u] /\ HandlerOK(at[u], lastId)
      BY <2>3 DEF Begins, HandlersOK
    <3>2. QED
      BY <3>1, HandlerStays DEF HandlerOK
  <2>4. QED
    BY <2>1, <2>2, <2>3
<1>3. at' \in [Thread -> Request]
  <2>1. at' = [u \in Thread |-> at'[u]]
    BY DEF Begins
  <2>2. QED
    BY <2>1, <1>2
<1>4. QED
  BY <1>2, <1>3 DEF HandlersOK

LEMMA RowsStay ==
    ASSUME RowsOK, UNCHANGED <<slug, lastId, partial, tests, shares, origin>>
    PROVE  RowsOK'
  BY DEF RowsOK

LEMMA SubsStay ==
    ASSUME SubsOK, UNCHANGED <<slug, partial, subs>>
    PROVE  SubsOK'
  BY DEF SubsOK

LEMMA CountsStay ==
    ASSUME CountsOK, lastId \in Nat, lastId' \in Nat, lastId <= lastId',
           requests' \in 0..MaxRequests, faults' \in 0..MaxFaults, torn' \in BOOLEAN,
           packaged' = packaged, accepted' = accepted, stranded' = stranded
    PROVE  CountsOK'
<1>1. 1..lastId \subseteq 1..lastId'
  OBVIOUS
<1>2. QED
  BY <1>1 DEF CountsOK

\* The judging goes on, or is told that it is not undisturbed.
LEMMA RunStays ==
    ASSUME RunOK, DOMAIN subs \subseteq DOMAIN subs',
           \/ run' = run
           \/ run' = [run EXCEPT !.quiet = FALSE]
    PROVE  RunOK'
<1>1. run \in Judging
  BY DEF RunOK
<1>2. CASE run' = run
  BY <1>2 DEF RunOK
<1>3. CASE run' = [run EXCEPT !.quiet = FALSE]
  <2>1. run' \in Judging
    BY <1>1, <1>3 DEF Judging
  <2>2. /\ run'.step = run.step /\ run'.sub = run.sub /\ run'.tests = run.tests
        /\ run'.next = run.next /\ run'.passed = run.passed
    BY <1>1, <1>3 DEF Judging
  <2>3. QED
    BY <2>1, <2>2 DEF RunOK
<1>4. QED
  BY <1>2, <1>3

LEMMA Bounds ==
    /\ MaxBulk \in Nat /\ MaxIds \in Nat /\ MaxSubs \in Nat
    /\ MaxRequests \in Nat /\ MaxFaults \in Nat /\ MaxSamples \in Nat
  BY BoundsAssumption

LEMMA Troubled ==
    ASSUME TypeInv, Trouble
    PROVE  faults' \in 0..MaxFaults
  BY Bounds DEF TypeInv, CountsOK, Trouble

LEMMA NoRunType == NoRun \in Judging
  BY DEF NoRun, Judging, Rows, Percents, Stored, Set

\* Of a directory that could not be removed, some files are left, or nothing.
LEMMA LeftoversTyped ==
    ASSUME TypeInv, dir' \in Leftovers
    PROVE  DirOK'
<1>1. CASE dir = NoDir
  BY <1>1 DEF Leftovers, DirOK
<1>2. CASE dir # NoDir
  <2>1. dir \in [Idx -> Stored] /\ Missing \in Stored
    BY <1>2 DEF TypeInv, DirOK, Stored
  <2>2. CASE dir' = NoDir
    BY <2>2 DEF DirOK
  <2>3. CASE dir' # NoDir
    <3>1. PICK kept \in SUBSET Idx : dir' = [i \in Idx |-> IF i \in kept THEN dir[i] ELSE Missing]
      BY <1>2, <2>3 DEF Leftovers
    <3>2. QED
      BY <2>1, <3>1 DEF DirOK
  <2>4. QED
    BY <2>2, <2>3
<1>3. QED
  BY <1>1, <1>2

LEMMA TypeStart ==
    ASSUME Init
    PROVE  TypeInv
<1>0. 0 \in 0..MaxIds /\ 0 \in 0..0 /\ 0 \in 0..MaxRequests /\ 0 \in 0..MaxFaults
  BY Bounds
<1>1. RowsOK
  <2>1. slug = 0 /\ lastId = 0 /\ partial = FALSE /\ tests = <<>> /\ shares = <<>>
        /\ origin = NoSet
    BY DEF Init, NoId
  <2>2. QED
    BY <1>0, <2>1 DEF RowsOK, Set
<1>2. SubsOK
  <2>1. subs \in Seq(Submission) /\ DOMAIN subs = {}
    BY EmptySeq DEF Init
  <2>2. QED
    BY <2>1 DEF SubsOK
<1>3. DirOK
  BY DEF Init, DirOK
<1>4. HandlersOK
  <2>1. HandlerOK(Idle, lastId)
    BY IdleOK
  <2>2. QED
    BY <2>1 DEF Init, HandlersOK, HandlerOK
<1>5. RunOK
  <2>1. NoRun \in Judging
    BY NoRunType
  <2>2. QED
    BY <2>1 DEF Init, RunOK, NoRun
<1>6. CountsOK
  BY <1>0 DEF Init, CountsOK
<1>7. QED
  BY <1>1, <1>2, <1>3, <1>4, <1>5, <1>6 DEF TypeInv

LEMMA NoSubType == NoSub \in Submission
  BY DEF NoSub, Submission, Set, NoId

\* The submissions of a deleted problem are gone, and no others.
LEMMA RowDeleted ==
    ASSUME TypeInv, NEW id, DeleteRow(id)
    PROVE  /\ RowsOK' /\ SubsOK' /\ DOMAIN subs' = DOMAIN subs
           /\ lastId' = lastId /\ partial' = partial
           /\ slug' = IF slug = id THEN NoId ELSE slug
           /\ slug = id => tests' = <<>> /\ origin' = NoSet
           /\ slug # id => tests' = tests /\ origin' = origin /\ shares' = shares
           /\ \A s \in DOMAIN subs : slug # id => subs'[s] = subs[s]
<1>1. CASE slug = id
  <2>1. RowsOK'
    BY <1>1 DEF TypeInv, RowsOK, DeleteRow, NoId, Set
  <2>2. ASSUME NEW s \in DOMAIN subs PROVE subs'[s] = NoSub
    BY <1>1 DEF TypeInv, SubsOK, SubmissionOK, DeleteRow
  <2>3. subs' = [s \in DOMAIN subs |-> NoSub]
    BY <2>2 DEF DeleteRow
  <2>4. Len(subs) \in Nat /\ DOMAIN subs = 1..Len(subs)
    BY DEF TypeInv, SubsOK
  <2>5. subs' \in Seq(Submission)
    BY <2>3, <2>4, NoSubType
  <2>6. SubsOK'
    BY <2>3, <2>5 DEF SubsOK, SubmissionOK
  <2>7. QED
    BY <1>1, <2>1, <2>3, <2>6 DEF DeleteRow
<1>2. CASE slug # id
  <2>1. UNCHANGED <<slug, lastId, partial, tests, shares, origin>>
    BY <1>2 DEF DeleteRow
  <2>2. ASSUME NEW s \in DOMAIN subs PROVE subs'[s] = subs[s]
    BY <1>2 DEF TypeInv, SubsOK, SubmissionOK, DeleteRow
  <2>3. Len(subs) \in Nat /\ DOMAIN subs = 1..Len(subs) /\ subs \in Seq(Submission)
    BY DEF TypeInv, SubsOK
  <2>4. subs' = subs
    <3>1. subs' = [s \in DOMAIN subs |-> subs[s]]
      BY <2>2 DEF DeleteRow
    <3>2. QED
      BY <3>1, <2>3
  <2>5. RowsOK' /\ SubsOK'
    BY <2>1, <2>4, RowsStay, SubsStay DEF TypeInv
  <2>6. QED
    BY <1>2, <2>1, <2>4, <2>5
<1>3. QED
  BY <1>1, <1>2

\* A new problem takes the slug, without tests and without submissions.
LEMMA RowInserted ==
    ASSUME TypeInv, NEW some \in BOOLEAN, InsertRow(some)
    PROVE  /\ RowsOK' /\ SubsOK' /\ slug = NoId /\ slug' = lastId + 1 /\ lastId' = lastId + 1
           /\ lastId \in Nat /\ lastId' \in Nat /\ lastId <= lastId'
           /\ subs' = subs /\ tests' = tests /\ origin' = origin /\ tests = <<>>
<1>1. lastId \in Nat /\ lastId + 1 \in 0..MaxIds
  BY Bounds DEF TypeInv, RowsOK, InsertRow
<1>2. origin = NoSet /\ tests = <<>> /\ shares = <<>>
  BY DEF TypeInv, RowsOK, InsertRow
<1>3. RowsOK'
  BY <1>1, <1>2 DEF InsertRow, RowsOK, NoId, Set
<1>4. \A s \in DOMAIN subs : subs[s] = NoSub
  BY DEF TypeInv, SubsOK, SubmissionOK, InsertRow
<1>5. SubsOK'
  BY <1>4 DEF InsertRow, SubsOK, SubmissionOK, TypeInv
<1>6. QED
  BY <1>1, <1>2, <1>3, <1>5 DEF InsertRow

LEMMA Moves ==
    ASSUME HandlersOK, lastId \in Nat, lastId' = lastId, NEW t \in Thread, NEW step,
           HandlerOK([at[t] EXCEPT !.step = step], lastId), Goes(t, step)
    PROVE  HandlersOK'
<1> DEFINE h == [at[t] EXCEPT !.step = step]
<1>1. at' = [at EXCEPT ![t] = h]
  BY DEF Goes
<1> HIDE DEF h
<1>2. HandlerOK(h, lastId') /\ lastId <= lastId' /\ lastId' \in Nat
  BY DEF h
<1>3. QED
  BY <1>1, <1>2, HandlersStep

LEMMA Ending ==
    ASSUME HandlersOK, lastId \in Nat, lastId' = lastId, NEW t \in Thread, Ends(t)
    PROVE  HandlersOK'
<1>1. HandlerOK(Idle, lastId') /\ lastId <= lastId'
  BY IdleOK
<1>2. QED
  BY <1>1, HandlersStep DEF Ends

\* A handler that fails ends, or goes on to take its problem back.
LEMMA Failing ==
    ASSUME TypeInv, lastId' = lastId, NEW t \in Thread, NEW leaves \in BOOLEAN,
           at[t].step \in {"clear", "write", "lookup", "queue"}, Fails(t, leaves)
    PROVE  HandlersOK' /\ torn' \in BOOLEAN
<1>1. HandlersOK /\ lastId \in Nat /\ torn \in BOOLEAN
  BY DEF TypeInv, RowsOK, CountsOK
<1>2. CASE at[t].op = "express"
  <2>1. HandlerOK([at[t] EXCEPT !.step = "undo"], lastId)
    <3>1. HandlerOK(at[t], lastId) /\ at[t] \in Request
      BY <1>1 DEF HandlersOK, HandlerOK
    <3>2. [at[t] EXCEPT !.step = "undo"] \in Request
      BY <3>1 DEF Request, Steps
    <3>3. QED
      BY <1>2, <3>1, <3>2 DEF HandlerOK, Request
  <2>2. QED
    BY <1>1, <1>2, <2>1, Moves DEF Fails
<1>3. CASE at[t].op # "express"
  <2>1. HandlersOK'
    BY <1>1, <1>3, Ending DEF Fails
  <2>2. torn' \in BOOLEAN
    BY <1>1, <1>3 DEF Fails
  <2>3. QED
    BY <2>1, <2>2
<1>4. QED
  BY <1>2, <1>3

LEMMA DataStays ==
    ASSUME TypeInv, UNCHANGED database
    PROVE  /\ RowsOK' /\ SubsOK' /\ subs' = subs
           /\ lastId' = lastId /\ lastId \in Nat /\ lastId' \in Nat /\ lastId <= lastId'
<1>1. RowsOK' /\ SubsOK' /\ subs' = subs /\ lastId' = lastId
  BY RowsStay, SubsStay DEF TypeInv, database
<1>2. lastId \in Nat
  BY DEF TypeInv, RowsOK
<1>3. QED
  BY <1>1, <1>2

\* A request that is taken counts, and finds its thread free.
LEMMA Taking ==
    ASSUME TypeInv, NEW t \in Thread, Takes(t)
    PROVE  requests' \in 0..MaxRequests /\ at[t].step = "idle"
<1>1. requests \in 0..MaxRequests /\ requests < MaxRequests /\ requests' = requests + 1
  BY DEF TypeInv, CountsOK, Takes
<1>2. requests' \in 0..MaxRequests
  BY <1>1, Bounds
<1>3. QED
  BY <1>2 DEF Takes, At

LEMMA CountsKept ==
    ASSUME TypeInv
    PROVE  /\ requests \in 0..MaxRequests /\ faults \in 0..MaxFaults /\ torn \in BOOLEAN
           /\ packaged \subseteq 1..lastId /\ accepted \subseteq 1..lastId
           /\ stranded \subseteq 1..lastId
  BY DEF TypeInv, CountsOK

\* A handler that begins keeps the types, if it is one of those that there are.
LEMMA Beginning ==
    ASSUME TypeInv, NEW t \in Thread, NEW h, h.op # "none", HandlerOK(h, lastId'), Begins(t, h),
           lastId \in Nat, lastId' \in Nat, lastId <= lastId', subs' = subs
    PROVE  HandlersOK' /\ RunOK' /\ torn' \in BOOLEAN
<1>1. HandlersOK'
  BY HandlersBegin DEF TypeInv
<1>2. run' = run \/ run' = [run EXCEPT !.quiet = FALSE]
  BY DEF Begins
<1>3. RunOK'
  BY <1>2, RunStays DEF TypeInv
<1>4. torn' \in BOOLEAN
  BY CountsKept DEF Begins
<1>5. QED
  BY <1>1, <1>3, <1>4

LEMMA TypeCreate ==
    ASSUME TypeInv, NEW t \in Thread, NEW some \in BOOLEAN, CreateProblem(t, some)
    PROVE  TypeInv'
<1>1. Takes(t) /\ InsertRow(some)
      /\ UNCHANGED <<dir, at, run, faults, torn, packaged, accepted, stranded>>
  BY DEF CreateProblem, outcomes
<1>2. RowsOK' /\ SubsOK' /\ subs' = subs
      /\ lastId \in Nat /\ lastId' \in Nat /\ lastId <= lastId'
  BY <1>1, RowInserted
<1>3. DirOK' /\ RunOK'
  BY <1>1, <1>2, RunStays DEF TypeInv, DirOK
<1>4. HandlersOK'
  BY <1>1, <1>2, HandlerStays DEF TypeInv, HandlersOK
<1>5. CountsOK'
  BY <1>1, <1>2, Taking, CountsKept, CountsStay DEF TypeInv
<1>6. QED
  BY <1>2, <1>3, <1>4, <1>5 DEF TypeInv

\* What the four requests that find their problem first have in common.
LEMMA TypeBegins ==
    ASSUME TypeInv, NEW t \in Thread, Takes(t), NEW h, h.op # "none", HandlerOK(h, lastId),
           Begins(t, h), UNCHANGED <<database, dir, faults, outcomes>>
    PROVE  TypeInv'
<1>1. RowsOK' /\ SubsOK' /\ subs' = subs
      /\ lastId' = lastId /\ lastId \in Nat /\ lastId' \in Nat /\ lastId <= lastId'
  BY DataStays
<1>2. HandlersOK' /\ RunOK' /\ torn' \in BOOLEAN
  BY <1>1, Beginning
<1>3. CountsOK'
  <2>1. packaged' = packaged /\ accepted' = accepted /\ stranded' = stranded /\ faults' = faults
    BY DEF outcomes
  <2>2. QED
    BY <1>1, <1>2, <2>1, Taking, CountsKept, CountsStay DEF TypeInv
<1>4. DirOK'
  BY DEF TypeInv, DirOK
<1>5. QED
  BY <1>1, <1>2, <1>3, <1>4 DEF TypeInv

LEMMA TypeDelete ==
    ASSUME TypeInv, NEW t \in Thread, Delete(t)
    PROVE  TypeInv'
<1> DEFINE h == Handler("delete", "row", slug, NoSet, <<>>, NoId)
<1>1. /\ slug \in Nat /\ slug # NoId /\ NoSet \in Set /\ NoId \in Nat
      /\ <<>> \in Seq(SUBSET Nat)
  BY EmptySeq DEF TypeInv, RowsOK, Set, NoId, Delete
<1>2. h \in Request
  BY <1>1, HandlerType DEF Steps
<1>3. h.op # "none" /\ HandlerOK(h, lastId)
  BY <1>1, <1>2 DEF HandlerOK, Handler
<1> HIDE DEF h
<1>4. QED
  BY <1>3, TypeBegins DEF Delete, h

LEMMA TypeReplace ==
    ASSUME TypeInv, NEW t \in Thread, NEW j \in DOMAIN Inline, ReplaceTests(t, j)
    PROVE  TypeInv'
<1> DEFINE k == <<j, 0>>
           h == Handler("replace", "clear", slug, k, <<>>, NoId)
<1>1. /\ slug \in Nat /\ slug # NoId /\ k \in SetName /\ k \in Set /\ NoId \in Nat
      /\ <<>> \in Seq(SUBSET Nat)
  BY EmptySeq DEF TypeInv, RowsOK, Set, SetName, NoId, ReplaceTests
<1>2. TestsOf[k] # <<>>
  <2>1. j \notin DOMAIN Archive /\ k[1] = j
    BY NamesAssumption
  <2> HIDE DEF k
  <2>2. DOMAIN TestsOf[k] = DOMAIN Inline[j]
    BY <1>1, <2>1 DEF TestsOf
  <2>3. Inline[j] \in Seq([case : Nat, sample : BOOLEAN, subtask : Nat]) /\ Inline[j] # <<>>
    BY InlineAssumption DEF ReplaceTests
  <2>4. Len(Inline[j]) # 0 /\ Len(Inline[j]) \in Nat /\ DOMAIN Inline[j] = 1..Len(Inline[j])
    BY <2>3, EmptySeq
  <2>5. 1 \in DOMAIN TestsOf[k]
    BY <2>2, <2>4
  <2>6. QED
    BY <2>5
<1>3. h \in Request
  BY <1>1, HandlerType DEF Steps
<1>4. h.op # "none" /\ HandlerOK(h, lastId)
  <2>1. 1 <= Len(TestsOf[k]) + 1
    BY <1>1, TestsType
  <2> HIDE DEF k
  <2>2. QED
    BY <1>1, <1>2, <1>3, <2>1 DEF HandlerOK, Handler
<1> HIDE DEF h
<1>5. QED
  BY <1>4, TypeBegins DEF ReplaceTests, h

LEMMA TypeUpload ==
    ASSUME TypeInv, NEW t \in Thread, UploadTests(t)
    PROVE  TypeInv'
<1> DEFINE h == Handler("upload", "await", slug, NoSet, <<>>, NoId)
<1>1. /\ slug \in Nat /\ slug # NoId /\ NoSet \in Set /\ NoId \in Nat
      /\ <<>> \in Seq(SUBSET Nat)
  BY EmptySeq DEF TypeInv, RowsOK, Set, NoId, UploadTests
<1>2. h \in Request
  BY <1>1, HandlerType DEF Steps
<1>3. h.op # "none" /\ HandlerOK(h, lastId)
  BY <1>1, <1>2 DEF HandlerOK, Handler
<1> HIDE DEF h
<1>4. QED
  BY <1>3, TypeBegins DEF UploadTests, h

LEMMA TypeBulk ==
    ASSUME TypeInv, NEW t \in Thread, BulkSubmit(t)
    PROVE  TypeInv'
<1> DEFINE h == Handler("bulk", "await", slug, NoSet, <<>>, NoId)
<1>1. /\ slug \in Nat /\ slug # NoId /\ NoSet \in Set /\ NoId \in Nat
      /\ <<>> \in Seq(SUBSET Nat)
  BY EmptySeq DEF TypeInv, RowsOK, Set, NoId, BulkSubmit
<1>2. h \in Request
  BY <1>1, HandlerType DEF Steps
<1>3. HandlerOK(h, lastId)
  BY <1>1, <1>2 DEF HandlerOK, Handler
<1> HIDE DEF h
<1>4. /\ Takes(t) /\ at' = [at EXCEPT ![t] = h]
      /\ UNCHANGED database
      /\ UNCHANGED <<dir, run, faults, torn, packaged, accepted, stranded>>
  BY DEF BulkSubmit, h, outcomes
<1>5. RowsOK' /\ SubsOK' /\ subs' = subs
      /\ lastId' = lastId /\ lastId \in Nat /\ lastId' \in Nat /\ lastId <= lastId'
  BY <1>4, DataStays
<1>6. HandlersOK'
  <2>1. HandlerOK(h, lastId')
    BY <1>3, <1>5
  <2>2. QED
    BY <1>4, <1>5, <2>1, HandlersStep DEF TypeInv
<1>7. CountsOK'
  BY <1>4, <1>5, Taking, CountsKept, CountsStay DEF TypeInv
<1>8. DirOK' /\ RunOK'
  BY <1>4, <1>5, RunStays DEF TypeInv, DirOK
<1>9. QED
  BY <1>5, <1>6, <1>7, <1>8 DEF TypeInv

LEMMA TypeExpress ==
    ASSUME TypeInv, NEW t \in Thread, NEW p \in Package, NEW some \in BOOLEAN,
           ExpressCreate(t, p, some)
    PROVE  TypeInv'
<1> DEFINE k == <<p.set, 0>>
           h == Handler("express", "clear", lastId + 1, k, p.sources, lastId + 1)
<1>1. /\ Takes(t) /\ InsertRow(some) /\ Parses(p.set) /\ Begins(t, h)
      /\ UNCHANGED <<dir, faults, accepted, stranded>> /\ packaged' = packaged \cup {lastId + 1}
  BY DEF ExpressCreate
<1>2. RowsOK' /\ SubsOK' /\ subs' = subs /\ lastId' = lastId + 1
      /\ lastId \in Nat /\ lastId' \in Nat /\ lastId <= lastId'
  BY <1>1, RowInserted
<1>3. /\ k \in SetName /\ k \in Set /\ p.sources \in Seq(SUBSET Nat)
      /\ TestsOf[k] # <<>>
  <2>1. p.set \in DOMAIN Archive /\ p.sources \in Seq(SUBSET Nat)
    BY PackageAssumption
  <2>2. k \in SetName /\ k[1] = p.set
    BY <2>1, Bounds DEF SetName
  <2> HIDE DEF k
  <2>3. TestsOf[k] # <<>>
    BY <1>1, <2>1, <2>2, ArchiveTests DEF Parses
  <2>4. QED
    BY <2>1, <2>2, <2>3 DEF Set
<1>4. h \in Request
  BY <1>2, <1>3, HandlerType DEF Steps
<1>5. h.op # "none" /\ HandlerOK(h, lastId')
  <2>1. 1 <= Len(TestsOf[k]) + 1
    BY <1>3, TestsType
  <2>2. lastId + 1 \in 1..lastId' /\ lastId + 1 # NoId
    BY <1>2 DEF NoId
  <2> HIDE DEF k
  <2>3. QED
    BY <1>3, <1>4, <2>1, <2>2 DEF HandlerOK, Handler
<1> HIDE DEF h
<1>6. HandlersOK' /\ RunOK' /\ torn' \in BOOLEAN
  BY <1>1, <1>2, <1>5, Beginning
<1>7. CountsOK'
  <2>1. 1..lastId \subseteq 1..lastId' /\ lastId + 1 \in 1..lastId'
    BY <1>2
  <2>2. packaged' \subseteq 1..lastId' /\ accepted' \subseteq 1..lastId'
        /\ stranded' \subseteq 1..lastId'
    BY <1>1, <2>1, CountsKept
  <2>3. requests' \in 0..MaxRequests /\ faults' \in 0..MaxFaults
    BY <1>1, Taking, CountsKept
  <2>4. QED
    BY <1>6, <2>2, <2>3 DEF CountsOK
<1>8. DirOK'
  BY <1>1 DEF TypeInv, DirOK
<1>9. QED
  BY <1>2, <1>6, <1>7, <1>8 DEF TypeInv

\* A step of a handler that leaves rows, counts and the judging alone.
LEMMA TypeQuiet ==
    ASSUME TypeInv, UNCHANGED <<database, run>>, HandlersOK', DirOK', torn' \in BOOLEAN,
           requests' = requests, faults' \in 0..MaxFaults,
           packaged' = packaged, accepted' = accepted, stranded' \subseteq 1..lastId
    PROVE  TypeInv'
<1>1. UNCHANGED database /\ run' = run
  OBVIOUS
<1>2. RowsOK' /\ SubsOK' /\ subs' = subs
      /\ lastId' = lastId /\ lastId \in Nat /\ lastId' \in Nat /\ lastId <= lastId'
  BY <1>1, DataStays
<1>3. RunOK'
  BY <1>1, <1>2, RunStays DEF TypeInv
<1>4. CountsOK'
  BY <1>2, CountsKept DEF CountsOK
<1>5. QED
  BY <1>2, <1>3, <1>4 DEF TypeInv

LEMMA HandlerKept ==
    ASSUME TypeInv, NEW t \in Thread
    PROVE  HandlerOK(at[t], lastId) /\ at[t] \in Request /\ lastId \in Nat
  BY DEF TypeInv, RowsOK, HandlersOK, HandlerOK

LEMMA TypeResumeBulk ==
    ASSUME TypeInv, NEW t \in Thread, NEW solves \in Solution, ResumeBulk(t, <<solves>>)
    PROVE  TypeInv'
<1> DEFINE sources == <<solves>>
           h == [at[t] EXCEPT !.step = "queue", !.left = sources]
<1>1. /\ at[t].step = "await" /\ at[t].op = "bulk" /\ UNCHANGED <<database, dir, run, torn>>
      /\ at' = [at EXCEPT ![t] = h]
      /\ requests' = requests /\ faults' = faults
      /\ packaged' = packaged /\ accepted' = accepted /\ stranded' = stranded
  BY DEF ResumeBulk, At, bounds, outcomes
<1>2. /\ HandlerOK(at[t], lastId) /\ at[t] \in Request /\ lastId \in Nat
      /\ lastId' = lastId /\ lastId <= lastId'
  BY <1>1, HandlerKept DEF database
<1>3. sources \in Seq(SUBSET Nat)
  BY SolutionAssumption
<1> HIDE DEF sources
<1>4. h \in Request
  BY <1>2, <1>3 DEF Request, Steps
<1>5. HandlerOK(h, lastId')
  BY <1>1, <1>2, <1>4 DEF HandlerOK, Request
<1> HIDE DEF h
<1>6. HandlersOK'
  BY <1>1, <1>2, <1>5, HandlersStep DEF TypeInv
<1>7. DirOK' /\ torn' \in BOOLEAN /\ faults' \in 0..MaxFaults
  BY <1>1, CountsKept DEF TypeInv, DirOK
<1>8. QED
  BY <1>1, <1>6, <1>7, CountsKept, TypeQuiet

LEMMA TypeResume ==
    ASSUME TypeInv, NEW t \in Thread, NEW a \in DOMAIN Archive, NEW n \in 0..MaxSamples,
           Resume(t, a, n)
    PROVE  TypeInv'
<1> DEFINE k == <<a, n>>
           h == [at[t] EXCEPT !.step = "clear", !.set = k]
<1>1. /\ at[t].step = "await" /\ at[t].op = "upload" /\ UNCHANGED <<database, dir, run, torn>>
      /\ IF Parses(a) THEN at' = [at EXCEPT ![t] = h] ELSE Ends(t)
      /\ requests' = requests /\ faults' = faults
      /\ packaged' = packaged /\ accepted' = accepted /\ stranded' = stranded
  BY DEF Resume, At, bounds, outcomes
<1>2. /\ HandlerOK(at[t], lastId) /\ at[t] \in Request /\ lastId \in Nat
      /\ lastId' = lastId /\ lastId <= lastId'
  BY <1>1, HandlerKept DEF database
<1>3. HandlersOK'
  <2>1. CASE Parses(a)
    <3>1. k \in SetName /\ k[1] = a
      BY DEF SetName
    <3> HIDE DEF k
    <3>2. TestsOf[k] # <<>>
      BY <2>1, <3>1, ArchiveTests DEF Parses
    <3>3. 1 <= Len(TestsOf[k]) + 1
      BY <3>1, TestsType
    <3>4. h \in Request
      BY <1>2, <3>1 DEF Request, Steps, Set
    <3>5. HandlerOK(h, lastId')
      BY <1>1, <1>2, <3>1, <3>2, <3>3, <3>4 DEF HandlerOK, Request
    <3> HIDE DEF h
    <3>6. at' = [at EXCEPT ![t] = h] /\ HandlersOK
      BY <1>1, <2>1 DEF TypeInv
    <3>7. QED
      BY <1>2, <3>5, <3>6, HandlersStep
  <2>2. CASE ~Parses(a)
    BY <1>1, <1>2, <2>2, Ending DEF TypeInv
  <2>3. QED
    BY <2>1, <2>2
<1>4. DirOK' /\ torn' \in BOOLEAN /\ faults' \in 0..MaxFaults
  BY <1>1, CountsKept DEF TypeInv, DirOK
<1>5. QED
  BY <1>1, <1>3, <1>4, CountsKept, TypeQuiet

\* A handler that fails, or ends early.
LEMMA TypeFails ==
    ASSUME TypeInv, NEW t \in Thread, NEW leaves \in BOOLEAN, Trouble,
           at[t].step \in {"clear", "write", "lookup", "queue"}, Fails(t, leaves),
           UNCHANGED <<database, run, requests, outcomes>>, DirOK'
    PROVE  TypeInv'
<1>1. /\ UNCHANGED <<database, run>> /\ requests' = requests
      /\ packaged' = packaged /\ accepted' = accepted /\ stranded' = stranded
  BY DEF outcomes
<1>2. faults' \in 0..MaxFaults /\ lastId' = lastId
  BY <1>1, Troubled DEF database
<1>3. HandlersOK' /\ torn' \in BOOLEAN
  BY <1>2, Failing
<1>4. QED
  BY <1>1, <1>2, <1>3, CountsKept, TypeQuiet

LEMMA TypeEnds ==
    ASSUME TypeInv, NEW t \in Thread, Trouble, Ends(t), torn' \in BOOLEAN,
           UNCHANGED <<database, run, requests, packaged, accepted>>,
           stranded' \subseteq 1..lastId, DirOK'
    PROVE  TypeInv'
<1>1. faults' \in 0..MaxFaults /\ lastId' = lastId /\ lastId \in Nat /\ HandlersOK
  BY Troubled DEF database, TypeInv, RowsOK
<1>2. HandlersOK'
  BY <1>1, Ending
<1>3. QED
  BY <1>1, <1>2, TypeQuiet

LEMMA TypeClearFails ==
    ASSUME TypeInv, NEW t \in Thread, ClearFails(t)
    PROVE  TypeInv'
<1>1. /\ at[t].step = "clear" /\ Trouble /\ Fails(t, TRUE)
      /\ UNCHANGED <<database, run, requests, outcomes>> /\ dir' \in Leftovers
  BY DEF ClearFails, At
<1>2. QED
  BY <1>1, LeftoversTyped, TypeFails

LEMMA TypeClear ==
    ASSUME TypeInv, NEW t \in Thread, ClearDirectory(t)
    PROVE  TypeInv'
<1>1. /\ at[t].step = "clear" /\ UNCHANGED <<database, run, torn>> /\ dir' = NoFiles
      /\ Goes(t, "write")
      /\ requests' = requests /\ faults' = faults
      /\ packaged' = packaged /\ accepted' = accepted /\ stranded' = stranded
  BY DEF ClearDirectory, At, Cleared, bounds, outcomes
<1>2. HandlerOK(at[t], lastId) /\ at[t] \in Request /\ lastId \in Nat /\ lastId' = lastId
  BY <1>1, HandlerKept DEF database
<1>3. HandlersOK'
  <2>1. [at[t] EXCEPT !.step = "write"] \in Request
    BY <1>2 DEF Request, Steps
  <2>2. HandlerOK([at[t] EXCEPT !.step = "write"], lastId)
    BY <1>1, <1>2, <2>1 DEF HandlerOK, Request
  <2>3. QED
    BY <1>1, <1>2, <2>2, Moves DEF TypeInv
<1>4. DirOK'
  BY <1>1 DEF DirOK, NoFiles, Stored
<1>5. QED
  BY <1>1, <1>3, <1>4, CountsKept, TypeQuiet

\* What a handler writes next.
LEMMA NextTest ==
    ASSUME TypeInv, NEW t \in Thread, at[t].step = "write"
    PROVE  /\ at[t].set \in SetName /\ at[t].set # NoSet /\ TestsOf[at[t].set] # <<>>
           /\ at[t].next \in Nat \ {0} /\ at[t].next <= Len(TestsOf[at[t].set]) + 1
           /\ at[t].next <= Len(TestsOf[at[t].set]) =>
                  at[t].next \in DOMAIN TestsOf[at[t].set] /\ at[t].next \in Idx
<1>1. HandlerOK(at[t], lastId) /\ at[t] \in Request
  BY HandlerKept
<1>2. /\ at[t].set \in SetName /\ TestsOf[at[t].set] # <<>>
      /\ at[t].next \in Nat \ {0} /\ at[t].next <= Len(TestsOf[at[t].set]) + 1
  BY <1>1 DEF HandlerOK, Request
<1>3. at[t].set # NoSet
  BY <1>2, NoSetIsNone
<1>4. /\ Len(TestsOf[at[t].set]) \in Nat
      /\ DOMAIN TestsOf[at[t].set] = 1..Len(TestsOf[at[t].set])
      /\ DOMAIN TestsOf[at[t].set] \subseteq Idx
  BY <1>2, TestsType, IdsOf
<1>5. QED
  BY <1>2, <1>3, <1>4

LEMMA TypeWrite ==
    ASSUME TypeInv, NEW t \in Thread, WriteFiles(t)
    PROVE  TypeInv'
<1>1. /\ at[t].step = "write" /\ UNCHANGED <<database, run>>
      /\ at[t].next <= Len(TestsOf[at[t].set])
      /\ requests' = requests /\ faults' = faults
      /\ packaged' = packaged /\ accepted' = accepted /\ stranded' = stranded
  BY DEF WriteFiles, At, bounds, outcomes
<1>2. HandlerOK(at[t], lastId) /\ at[t] \in Request /\ lastId \in Nat /\ lastId' = lastId
  BY <1>1, HandlerKept DEF database
<1>3. CASE dir = NoDir
  <2>1. Fails(t, TRUE) /\ dir' = dir
    BY <1>3 DEF WriteFiles
  <2>2. HandlersOK' /\ torn' \in BOOLEAN
    BY <1>1, <1>2, <2>1, Failing
  <2>3. QED
    BY <1>1, <2>1, <2>2, CountsKept, TypeQuiet DEF TypeInv, DirOK
<1>4. CASE dir # NoDir
  <2> DEFINE h == [at[t] EXCEPT !.next = @ + 1]
  <2>1. /\ dir' = [dir EXCEPT ![at[t].next] = Contents(at[t].set, at[t].next)]
        /\ at' = [at EXCEPT ![t] = h] /\ torn' = torn
    BY <1>4 DEF WriteFiles
  <2>2. HandlerOK(h, lastId')
    <3>1. h \in Request
      BY <1>2 DEF Request
    <3>2. at[t].next + 1 <= Len(TestsOf[at[t].set]) + 1
      BY <1>1, NextTest, TestsType
    <3>3. QED
      BY <1>1, <1>2, <3>1, <3>2 DEF HandlerOK, Request
  <2>3. HandlersOK'
    <3> HIDE DEF h
    <3>1. lastId' \in Nat /\ lastId <= lastId'
      BY <1>2
    <3>2. QED
      BY <1>2, <2>1, <2>2, <3>1, HandlersStep DEF TypeInv
  <2>4. DirOK'
    BY <1>1, <1>4, <2>1, NextTest, ContentsStored DEF TypeInv, DirOK
  <2>5. QED
    BY <1>1, <2>1, <2>3, <2>4, CountsKept, TypeQuiet
<1>5. QED
  BY <1>3, <1>4

LEMMA TypeWriteFails ==
    ASSUME TypeInv, NEW t \in Thread, WriteFails(t)
    PROVE  TypeInv'
<1>1. /\ at[t].step = "write" /\ Trouble /\ Fails(t, TRUE)
      /\ UNCHANGED <<database, run, requests, outcomes>> /\ dir' = dir
  BY DEF WriteFails, At
<1>2. DirOK'
  BY <1>1 DEF TypeInv, DirOK
<1>3. QED
  BY <1>1, <1>2, TypeFails

LEMMA TypeCommit ==
    ASSUME TypeInv, NEW t \in Thread, CommitTests(t)
    PROVE  TypeInv'
<1>1. /\ at[t].step = "write"
      /\ UNCHANGED <<slug, lastId, partial, subs, dir, run, requests, faults>>
      /\ UNCHANGED <<packaged, accepted, stranded>>
  BY DEF CommitTests, At, bounds, outcomes
<1>2. HandlerOK(at[t], lastId) /\ at[t] \in Request /\ lastId \in Nat /\ HandlersOK
  BY HandlerKept DEF TypeInv
<1>3. HandlersOK' /\ torn' \in BOOLEAN /\ RowsOK'
  <2>1. CASE slug # at[t].problem
    <3>1. Fails(t, TRUE) /\ UNCHANGED <<tests, shares, origin>>
      BY <2>1 DEF CommitTests
    <3>2. QED
      BY <1>1, <3>1, Failing, RowsStay DEF TypeInv
  <2>2. CASE slug = at[t].problem
    <3>1. /\ tests' = TestsOf[at[t].set] /\ shares' = SharesOf[at[t].set]
          /\ origin' = at[t].set
          /\ IF at[t].op = "express" THEN Goes(t, "lookup") /\ UNCHANGED torn
             ELSE Ends(t) /\ Heals(t)
      BY <2>2 DEF CommitTests
    <3>2. slug # NoId
      BY <1>1, <1>2, <2>2 DEF HandlerOK, Request
    <3>3. RowsOK'
      BY <1>1, <3>1, <3>2, NextTest DEF TypeInv, RowsOK, Set
    <3>4. CASE at[t].op = "express"
      <4>1. [at[t] EXCEPT !.step = "lookup"] \in Request
        BY <1>2 DEF Request, Steps
      <4>2. HandlerOK([at[t] EXCEPT !.step = "lookup"], lastId)
        BY <1>2, <3>4, <4>1 DEF HandlerOK, Request
      <4>3. HandlersOK' /\ torn' = torn
        BY <1>1, <1>2, <3>1, <3>4, <4>2, Moves
      <4>4. QED
        BY <3>3, <4>3, CountsKept
    <3>5. CASE at[t].op # "express"
      <4>1. HandlersOK'
        BY <1>1, <1>2, <3>1, <3>5, Ending
      <4>2. torn' \in BOOLEAN
        BY <3>1, <3>5, <1>2, CountsKept DEF Heals, Request
      <4>3. QED
        BY <3>3, <4>1, <4>2
    <3>6. QED
      BY <3>4, <3>5
  <2>3. QED
    BY <2>1, <2>2
<1>4. SubsOK' /\ DirOK' /\ RunOK'
  BY <1>1, SubsStay, RunStays DEF TypeInv, DirOK
<1>5. CountsOK'
  BY <1>1, <1>3 DEF TypeInv, CountsOK
<1>6. QED
  BY <1>3, <1>4, <1>5 DEF TypeInv

LEMMA TypeLookup ==
    ASSUME TypeInv, NEW t \in Thread, Lookup(t)
    PROVE  TypeInv'
<1>1. /\ at[t].step = "lookup" /\ UNCHANGED <<database, dir, run>>
      /\ requests' = requests /\ faults' = faults
      /\ packaged' = packaged /\ accepted' = accepted /\ stranded' = stranded
  BY DEF Lookup, At, bounds, outcomes
<1>2. HandlerOK(at[t], lastId) /\ at[t] \in Request /\ lastId \in Nat /\ lastId' = lastId
  BY <1>1, HandlerKept DEF database
<1>3. HandlersOK' /\ torn' \in BOOLEAN
  <2>1. CASE slug = NoId
    BY <1>1, <1>2, <2>1, Failing DEF Lookup
  <2>2. CASE slug # NoId
    <3> DEFINE h == [at[t] EXCEPT !.step = "queue", !.problem = slug]
    <3>1. at' = [at EXCEPT ![t] = h] /\ torn' = torn
      BY <2>2 DEF Lookup
    <3>2. slug \in Nat
      BY DEF TypeInv, RowsOK
    <3>3. h \in Request
      BY <1>2, <3>2 DEF Request, Steps
    <3>4. HandlerOK(h, lastId')
      BY <1>1, <1>2, <2>2, <3>3 DEF HandlerOK, Request
    <3> HIDE DEF h
    <3>5. lastId' \in Nat /\ lastId <= lastId'
      BY <1>2
    <3>6. QED
      BY <1>2, <3>1, <3>4, <3>5, CountsKept, HandlersStep DEF TypeInv
  <2>3. QED
    BY <2>1, <2>2
<1>4. DirOK' /\ faults' \in 0..MaxFaults
  BY <1>1, CountsKept DEF TypeInv, DirOK
<1>5. QED
  BY <1>1, <1>3, <1>4, CountsKept, TypeQuiet

\* A submission that is queued is one of the problem that has the slug, and the others stay.
LEMMA Queues ==
    ASSUME TypeInv, NEW t \in Thread, QueueSource(t), slug = at[t].problem
    PROVE  /\ SubsOK' /\ slug # NoId
           /\ DOMAIN subs \subseteq DOMAIN subs'
           /\ \A s \in DOMAIN subs : subs'[s] = subs[s]
           /\ \A s \in DOMAIN subs' \ DOMAIN subs :
                  subs'[s].of = NoSet /\ subs'[s].state = "PENDING"
           /\ \E s \in DOMAIN subs' : subs'[s].problem = slug
           /\ at[t].left \in Seq(SUBSET Nat) /\ at[t].left # <<>>
<1> DEFINE new == [problem |-> slug, state |-> "PENDING", solves |-> Head(at[t].left),
                   earned |-> 0, of |-> NoSet, some |-> partial]
<1>1. subs' = Append(subs, new) /\ at[t].left # <<>> /\ UNCHANGED <<slug, partial>>
      /\ at[t].step = "queue"
  BY DEF QueueSource, More, At
<1>2. HandlerOK(at[t], lastId) /\ at[t] \in Request
  BY HandlerKept
<1>3. at[t].left \in Seq(SUBSET Nat) /\ slug # NoId
  BY <1>1, <1>2 DEF HandlerOK, Request
<1>4. Head(at[t].left) \in SUBSET Nat
  BY <1>1, <1>3, HeadTailProperties
<1>5. slug \in Nat /\ partial \in BOOLEAN
  BY DEF TypeInv, RowsOK
<1>6. new \in Submission
  <2>1. 0 \in 0..100
    OBVIOUS
  <2>2. QED
    BY <1>4, <1>5, <2>1 DEF Submission, States, Set
<1>7. SubmissionOK(new, slug, partial) /\ new.problem = slug /\ new.of = NoSet
      /\ new.state = "PENDING"
  BY <1>3 DEF SubmissionOK
<1> HIDE DEF new
<1>8. subs \in Seq(Submission) /\ Len(subs) \in Nat /\ DOMAIN subs = 1..Len(subs)
  BY DEF TypeInv, SubsOK
<1>9. /\ subs' \in Seq(Submission) /\ Len(subs') = Len(subs) + 1
      /\ \A i \in 1..Len(subs) : subs'[i] = subs[i]
      /\ subs'[Len(subs) + 1] = new
  BY <1>1, <1>6, <1>8, AppendProperties
<1>10. DOMAIN subs' = 1..(Len(subs) + 1)
  BY <1>9
<1>11. DOMAIN subs \subseteq DOMAIN subs' /\ \A s \in DOMAIN subs : subs'[s] = subs[s]
  BY <1>8, <1>9, <1>10
<1>12. \A s \in DOMAIN subs' \ DOMAIN subs : subs'[s] = new
  BY <1>8, <1>9, <1>10
<1>13. \E s \in DOMAIN subs' : subs'[s] = new
  BY <1>8, <1>9, <1>10
<1>14. \A s \in DOMAIN subs' : SubmissionOK(subs'[s], slug, partial)
  BY <1>7, <1>11, <1>12 DEF TypeInv, SubsOK
<1>15. SubsOK'
  BY <1>1, <1>9, <1>14 DEF SubsOK
<1>16. QED
  BY <1>1, <1>3, <1>7, <1>11, <1>12, <1>13, <1>15

LEMMA TypeQueueSource ==
    ASSUME TypeInv, NEW t \in Thread, QueueSource(t)
    PROVE  TypeInv'
<1>1. /\ at[t].step = "queue"
      /\ UNCHANGED <<slug, lastId, partial, tests, shares, origin, dir, run>>
      /\ requests' = requests /\ faults' = faults
      /\ packaged' = packaged /\ accepted' = accepted /\ stranded' = stranded
  BY DEF QueueSource, At, bounds, outcomes
<1>2. HandlerOK(at[t], lastId) /\ at[t] \in Request /\ lastId \in Nat /\ lastId' \in Nat
      /\ lastId <= lastId'
  BY <1>1, HandlerKept
<1>3. HandlersOK' /\ torn' \in BOOLEAN /\ SubsOK' /\ DOMAIN subs \subseteq DOMAIN subs'
  <2>1. CASE slug # at[t].problem
    <3>1. Fails(t, FALSE) /\ subs' = subs
      BY <2>1 DEF QueueSource
    <3>2. QED
      BY <1>1, <3>1, Failing, SubsStay DEF TypeInv
  <2>2. CASE slug = at[t].problem
    <3> DEFINE h == [at[t] EXCEPT !.left = Tail(@), !.queued = @ + 1]
    <3>1. at' = [at EXCEPT ![t] = h] /\ torn' = torn
      BY <2>2 DEF QueueSource
    <3>2. at[t].left \in Seq(SUBSET Nat) /\ at[t].left # <<>>
      BY <2>2, Queues
    <3>3. Tail(at[t].left) \in Seq(SUBSET Nat)
      BY <3>2, HeadTailProperties
    <3>4. h \in Request
      <4>1. PICK rest \in Seq(SUBSET Nat) : rest = Tail(at[t].left)
        BY <3>3
      <4>2. PICK n \in Nat : n = at[t].queued + 1
        BY <1>2 DEF Request
      <4>3. h = [at[t] EXCEPT !.left = rest, !.queued = n]
        BY <4>1, <4>2
      <4>4. QED
        BY <1>2, <4>3 DEF Request
    <3>5. HandlerOK(h, lastId')
      BY <1>1, <1>2, <3>4 DEF HandlerOK, Request
    <3> HIDE DEF h
    <3>6. HandlersOK'
      BY <1>2, <3>1, <3>5, HandlersStep DEF TypeInv
    <3>7. QED
      BY <2>2, <3>1, <3>6, CountsKept, Queues
  <2>3. QED
    BY <2>1, <2>2
<1>4. RowsOK' /\ DirOK' /\ RunOK'
  BY <1>1, <1>3, RowsStay, RunStays DEF TypeInv, DirOK
<1>5. CountsOK'
  BY <1>1, <1>3 DEF TypeInv, CountsOK
<1>6. QED
  BY <1>3, <1>4, <1>5 DEF TypeInv

LEMMA TypeQueueFails ==
    ASSUME TypeInv, NEW t \in Thread, QueueFails(t)
    PROVE  TypeInv'
<1>1. /\ at[t].step \in {"lookup", "queue"} /\ Trouble /\ Fails(t, FALSE)
      /\ UNCHANGED <<database, run, requests, outcomes>> /\ dir' = dir
  BY DEF QueueFails, At
<1>2. DirOK'
  BY <1>1 DEF TypeInv, DirOK
<1>3. QED
  BY <1>1, <1>2, TypeFails

LEMMA TypeQueued ==
    ASSUME TypeInv, NEW t \in Thread, Queued(t)
    PROVE  TypeInv'
<1>1. /\ at[t].step = "queue" /\ UNCHANGED <<database, dir, run>>
      /\ requests' = requests /\ faults' = faults
      /\ packaged' = packaged /\ stranded' = stranded
  BY DEF Queued, At, bounds
<1>2. HandlerOK(at[t], lastId) /\ at[t] \in Request /\ lastId \in Nat /\ lastId' = lastId
  BY <1>1, HandlerKept DEF database
<1>3. HandlersOK' /\ torn' \in BOOLEAN /\ accepted' \subseteq 1..lastId
  <2>1. CASE Worthless(t)
    <3>1. Goes(t, "undo") /\ torn' = torn /\ accepted' = accepted /\ at[t].op = "express"
      BY <2>1 DEF Queued, Worthless
    <3>2. [at[t] EXCEPT !.step = "undo"] \in Request
      BY <1>2 DEF Request, Steps
    <3>3. HandlerOK([at[t] EXCEPT !.step = "undo"], lastId)
      BY <1>2, <3>1, <3>2 DEF HandlerOK, Request
    <3>4. HandlersOK'
      BY <1>2, <3>1, <3>3, Moves DEF TypeInv
    <3>5. QED
      BY <3>1, <3>4, CountsKept
  <2>2. CASE ~Worthless(t)
    <3>1. HandlersOK'
      BY <1>2, <2>2, Ending DEF Queued, TypeInv
    <3>2. torn' \in BOOLEAN
      BY <1>2, <2>2, CountsKept DEF Queued, Heals, Request
    <3>3. \/ accepted' = accepted
          \/ accepted' = accepted \cup {at[t].made} /\ at[t].op = "express"
      BY <2>2 DEF Queued
    <3>4. at[t].op = "express" => at[t].made \in 1..lastId
      BY <1>2 DEF HandlerOK
    <3>5. QED
      BY <3>1, <3>2, <3>3, <3>4, CountsKept
  <2>3. QED
    BY <2>1, <2>2
<1>4. RowsOK' /\ SubsOK' /\ subs' = subs
  BY <1>1, DataStays
<1>5. DirOK' /\ RunOK'
  BY <1>1, <1>4, RunStays DEF TypeInv, DirOK
<1>6. CountsOK'
  BY <1>1, <1>2, <1>3, CountsKept DEF CountsOK
<1>7. QED
  BY <1>3, <1>4, <1>5, <1>6 DEF TypeInv

\* A problem is taken back, or deleted: what the two have in common.
LEMMA TypeRowGone ==
    ASSUME TypeInv, NEW t \in Thread, NEW id, DeleteRow(id), at[t].step \in {"undo", "row"},
           Goes(t, "files"), UNCHANGED <<dir, run, bounds, torn, outcomes>>
    PROVE  TypeInv'
<1>1. HandlerOK(at[t], lastId) /\ at[t] \in Request /\ lastId \in Nat
  BY HandlerKept
<1>2. RowsOK' /\ SubsOK' /\ DOMAIN subs' = DOMAIN subs /\ lastId' = lastId
  BY RowDeleted
<1>3. HandlersOK'
  <2>1. [at[t] EXCEPT !.step = "files"] \in Request
    BY <1>1 DEF Request, Steps
  <2>2. HandlerOK([at[t] EXCEPT !.step = "files"], lastId)
    BY <1>1, <2>1 DEF HandlerOK, Request
  <2>3. QED
    BY <1>1, <1>2, <2>2, Moves DEF TypeInv
<1>4. DirOK' /\ RunOK'
  BY <1>2, RunStays DEF TypeInv, DirOK
<1>5. CountsOK'
  BY <1>2, CountsKept DEF CountsOK, bounds, outcomes
<1>6. QED
  BY <1>2, <1>3, <1>4, <1>5 DEF TypeInv

LEMMA TypeUndo ==
    ASSUME TypeInv, NEW t \in Thread, Undo(t)
    PROVE  TypeInv'
  BY TypeRowGone DEF Undo, At

LEMMA TypeDeleteProblem ==
    ASSUME TypeInv, NEW t \in Thread, DeleteProblem(t)
    PROVE  TypeInv'
  BY TypeRowGone DEF DeleteProblem, At

LEMMA TypeUndoFails ==
    ASSUME TypeInv, NEW t \in Thread, UndoFails(t)
    PROVE  TypeInv'
<1>1. /\ at[t].step = "undo" /\ Trouble /\ Ends(t) /\ torn' \in BOOLEAN
      /\ stranded' = stranded \cup {at[t].made}
      /\ UNCHANGED <<database, dir, run, requests, packaged, accepted>>
  BY DEF UndoFails, At
<1>2. at[t].op = "express" /\ at[t].made \in 1..lastId
  BY <1>1, HandlerKept DEF HandlerOK, Request
<1>3. stranded' \subseteq 1..lastId
  BY <1>1, <1>2, CountsKept
<1>4. DirOK'
  BY <1>1 DEF TypeInv, DirOK
<1>5. QED
  BY <1>1, <1>3, <1>4, TypeEnds

LEMMA TypeDeleteFails ==
    ASSUME TypeInv, NEW t \in Thread, DeleteFails(t)
    PROVE  TypeInv'
<1>1. /\ Trouble /\ Ends(t) /\ torn' = torn
      /\ UNCHANGED <<database, dir, run, requests, packaged, accepted>> /\ stranded' = stranded
  BY DEF DeleteFails, outcomes
<1>2. DirOK'
  BY <1>1 DEF TypeInv, DirOK
<1>3. QED
  BY <1>1, <1>2, CountsKept, TypeEnds

LEMMA TypeFilesStay ==
    ASSUME TypeInv, NEW t \in Thread, FilesStay(t)
    PROVE  TypeInv'
<1>1. /\ Trouble /\ Ends(t) /\ torn' \in BOOLEAN /\ dir' \in Leftovers
      /\ UNCHANGED <<database, run, requests, packaged, accepted>> /\ stranded' = stranded
  BY DEF FilesStay, outcomes
<1>2. QED
  BY <1>1, LeftoversTyped, CountsKept, TypeEnds

LEMMA TypeDeleteFiles ==
    ASSUME TypeInv, NEW t \in Thread, DeleteFiles(t)
    PROVE  TypeInv'
<1>1. /\ UNCHANGED <<database, run>> /\ dir' = NoDir /\ Ends(t) /\ Heals(t)
      /\ requests' = requests /\ faults' = faults
      /\ packaged' = packaged /\ accepted' = accepted /\ stranded' = stranded
  BY DEF DeleteFiles, bounds, outcomes
<1>2. at[t] \in Request /\ lastId \in Nat /\ lastId' = lastId
  BY <1>1, HandlerKept DEF database
<1>3. HandlersOK' /\ DirOK'
  BY <1>1, <1>2, Ending DEF TypeInv, DirOK
<1>4. torn' \in BOOLEAN
  BY <1>1, <1>2, CountsKept DEF Heals, Request
<1>5. QED
  BY <1>1, <1>3, <1>4, CountsKept, TypeQuiet

LEMMA RunKept ==
    ASSUME TypeInv
    PROVE  /\ run \in Judging /\ run.tests \in Rows /\ run.shares \in Percents
           /\ Len(run.tests) \in Nat /\ DOMAIN run.tests = 1..Len(run.tests)
           /\ DOMAIN run.tests \subseteq Idx
<1>1. run \in Judging /\ run.tests \in Rows /\ run.shares \in Percents
  BY DEF TypeInv, RunOK, Judging
<1>2. Len(run.tests) \in Nat /\ DOMAIN run.tests = 1..Len(run.tests)
  BY <1>1, RowsType
<1>3. DOMAIN run.tests \subseteq Idx
  <2>1. CASE run.tests = <<>>
    BY <2>1
  <2>2. CASE run.tests # <<>>
    BY <1>1, <2>2, IdsOf DEF Rows
  <2>3. QED
    BY <2>1, <2>2
<1>4. QED
  BY <1>1, <1>2, <1>3

\* A step of the judging that changes nothing but the judging.
LEMMA TypeJudges ==
    ASSUME TypeInv, UNCHANGED <<database, dir, at, requests, torn, outcomes>>,
           faults' \in 0..MaxFaults, RunOK'
    PROVE  TypeInv'
<1>1. UNCHANGED database /\ UNCHANGED <<dir, at, requests, torn, packaged, accepted, stranded>>
  BY DEF outcomes
<1>2. RowsOK' /\ SubsOK' /\ lastId' = lastId
  BY <1>1, DataStays
<1>3. DirOK' /\ HandlersOK' /\ CountsOK'
  BY <1>1, <1>2 DEF TypeInv, DirOK, HandlersOK, CountsOK
<1>4. QED
  BY <1>2, <1>3 DEF TypeInv

LEMMA TypeJudging ==
    ASSUME TypeInv, UNCHANGED <<database, dir, at, bounds, torn, outcomes>>, RunOK'
    PROVE  TypeInv'
  BY CountsKept, TypeJudges DEF bounds

\* A submission whose state or result is written is still one of the problem.
LEMMA SubChanged ==
    ASSUME TypeInv, NEW s, Live(s), NEW r \in Submission, SubmissionOK(r, slug, partial),
           subs' = [subs EXCEPT ![s] = r], UNCHANGED <<slug, partial>>
    PROVE  SubsOK' /\ DOMAIN subs' = DOMAIN subs /\ s \in DOMAIN subs
<1>1. subs \in Seq(Submission) /\ Len(subs) \in Nat /\ DOMAIN subs = 1..Len(subs)
      /\ s \in DOMAIN subs
  BY DEF TypeInv, SubsOK, Live
<1>2. subs' \in [1..Len(subs) -> Submission]
  BY <1>1
<1>3. subs' \in Seq(Submission)
  BY <1>1, <1>2
<1>4. DOMAIN subs' = DOMAIN subs
  OBVIOUS
<1>5. ASSUME NEW u \in DOMAIN subs' PROVE SubmissionOK(subs'[u], slug, partial)
  BY <1>1, <1>4 DEF TypeInv, SubsOK
<1>6. QED
  BY <1>1, <1>3, <1>4, <1>5 DEF SubsOK

LEMMA LiveSub ==
    ASSUME TypeInv, NEW s, Live(s)
    PROVE  /\ s \in DOMAIN subs /\ s \in Nat /\ subs[s] \in Submission
           /\ subs[s].problem = slug /\ slug # NoId /\ subs[s].some = partial
           /\ subs[s].state \in States
           /\ subs[s].state \in {"PENDING", "JUDGING"} => subs[s].of = NoSet
<1>1. subs \in Seq(Submission) /\ DOMAIN subs = 1..Len(subs) /\ Len(subs) \in Nat
      /\ s \in DOMAIN subs
  BY DEF TypeInv, SubsOK, Live
<1>2. subs[s] \in Submission
  BY <1>1, ElementOfSeq
<1>3. SubmissionOK(subs[s], slug, partial) /\ subs[s] # NoSub
  BY <1>1 DEF TypeInv, SubsOK, Live, NoSub
<1>4. QED
  BY <1>1, <1>2, <1>3 DEF SubmissionOK, Submission

LEMMA TypeLoadTests ==
    ASSUME TypeInv, NEW s \in DOMAIN subs, LoadTests(s)
    PROVE  TypeInv'
<1>1. /\ Live(s) /\ subs[s].state = "PENDING"
      /\ UNCHANGED <<slug, lastId, partial, tests, shares, origin, dir, at>>
      /\ UNCHANGED <<requests, faults, torn, packaged, accepted, stranded>>
      /\ subs' = [subs EXCEPT ![s].state = "JUDGING"]
  BY DEF LoadTests, bounds, outcomes
<1> DEFINE r == [subs[s] EXCEPT !.state = "JUDGING"]
<1>2. /\ s \in Nat /\ subs[s] \in Submission /\ subs[s].problem = slug /\ slug # NoId
      /\ subs[s].some = partial /\ subs[s].of = NoSet
  BY <1>1, LiveSub
<1>3. r \in Submission /\ SubmissionOK(r, slug, partial)
  BY <1>2 DEF Submission, States, SubmissionOK
<1>4. subs' = [subs EXCEPT ![s] = r]
  BY <1>1
<1>5. SubsOK' /\ DOMAIN subs' = DOMAIN subs
  <2> HIDE DEF r
  <2> QED  BY <1>1, <1>3, <1>4, SubChanged
<1>6. RunOK'
  <2>1. tests \in Rows /\ <<>> \in Percents /\ partial \in BOOLEAN /\ origin \in Set
    BY RowsAreRows DEF TypeInv, RowsOK, Percents
  <2>2. subs[s].solves \in SUBSET Nat /\ Missing \in Stored
    BY <1>2 DEF Submission, Stored
  <2>3. PICK q \in BOOLEAN : q = (~torn /\ Writers = {})
    OBVIOUS
  <2>4. run' = [step |-> IF tests = <<>> THEN "store" ELSE "shares", sub |-> s,
                tests |-> tests, shares |-> <<>>, solves |-> subs[s].solves,
                some |-> partial, next |-> 1, input |-> Missing, passed |-> {},
                exit |-> IF tests = <<>> THEN "IE" ELSE "none", quiet |-> q, of |-> origin]
    BY <2>3, Zenon DEF LoadTests
  <2>5. run' \in Judging
    BY <1>2, <2>1, <2>2, <2>4 DEF Judging
  <2>6. QED
    BY <1>5, <2>4, <2>5 DEF RunOK
<1>7. RowsOK' /\ DirOK' /\ HandlersOK' /\ CountsOK'
  BY <1>1, RowsStay DEF TypeInv, DirOK, HandlersOK, CountsOK
<1>8. QED
  BY <1>5, <1>6, <1>7 DEF TypeInv

LEMMA TypeLoadShares ==
    ASSUME TypeInv, LoadShares
    PROVE  TypeInv'
<1>1. run.step = "shares" /\ UNCHANGED <<database, dir, at, bounds, torn, outcomes>>
  BY DEF LoadShares
<1>2. PICK p \in Percents : run' = [run EXCEPT !.step = "input", !.shares = p]
  <2>1. shares \in Percents /\ <<>> \in Percents
    BY RowsAreRows DEF TypeInv, Percents
  <2>2. QED
    BY <2>1 DEF LoadShares
<1>3. run \in Judging /\ RunOK
  BY RunKept DEF TypeInv
<1>4. run' \in Judging
  BY <1>2, <1>3 DEF Judging
<1>5. /\ run'.step = "input" /\ run'.sub = run.sub /\ run'.tests = run.tests
      /\ run'.next = run.next /\ run'.passed = run.passed
  BY <1>2, <1>3 DEF Judging
<1>6. run.next \in DOMAIN run.tests
  <2>1. run.tests # <<>> /\ run.next = 1
    BY <1>1, <1>3 DEF RunOK
  <2>2. Len(run.tests) # 0
    BY <2>1, RunKept, RowsType
  <2>3. QED
    BY <2>1, <2>2, RunKept
<1>7. subs' = subs
  BY <1>1 DEF database
<1>8. RunOK'
  BY <1>1, <1>3, <1>4, <1>5, <1>6, <1>7 DEF RunOK
<1>9. QED
  BY <1>1, <1>8, TypeJudging

LEMMA TypeReadInput ==
    ASSUME TypeInv, ReadInput
    PROVE  TypeInv'
<1>1. /\ run.step = "input" /\ UNCHANGED <<database, dir, at, bounds, torn, outcomes>>
      /\ run' = [run EXCEPT !.step = "answer", !.input = FileAt(run.next)]
  BY DEF ReadInput
<1>2. run \in Judging /\ RunOK /\ run.next \in Idx /\ run.next \in DOMAIN run.tests
  BY <1>1, RunKept DEF TypeInv, RunOK
<1>3. FileAt(run.next) \in Stored
  BY <1>2 DEF FileAt, TypeInv, DirOK, Stored
<1>4. run' \in Judging
  BY <1>1, <1>2, <1>3 DEF Judging
<1>5. /\ run'.step = "answer" /\ run'.sub = run.sub /\ run'.tests = run.tests
      /\ run'.next = run.next /\ run'.passed = run.passed
  BY <1>1, <1>2 DEF Judging
<1>6. subs' = subs
  BY <1>1 DEF database
<1>7. RunOK'
  BY <1>1, <1>2, <1>4, <1>5, <1>6 DEF RunOK
<1>8. QED
  BY <1>1, <1>7, TypeJudging

LEMMA TypeReadAnswer ==
    ASSUME TypeInv, NEW ok \in BOOLEAN, ReadAnswer(ok)
    PROVE  TypeInv'
<1>1. run.step = "answer" /\ UNCHANGED <<database, dir, at, bounds, torn, outcomes>>
  BY DEF ReadAnswer
<1>2. run \in Judging /\ RunOK /\ run.next \in DOMAIN run.tests
  BY <1>1, RunKept DEF TypeInv, RunOK
<1> DEFINE step == IF Stops(ok) THEN "store" ELSE "input"
           passed == IF ok THEN run.passed \cup {run.next} ELSE run.passed
<1>3. run' = [run EXCEPT !.passed = passed, !.step = step, !.next = run.next + 1,
                         !.input = Missing]
  BY DEF ReadAnswer
<1>4. /\ step \in {"store", "input"} /\ passed \subseteq DOMAIN run.tests
      /\ passed \in SUBSET Nat
      /\ step = "input" => run.next # Len(run.tests)
  BY <1>2, RunKept DEF RunOK, Judging, Stops
<1> HIDE DEF step, passed
<1>5. run' \in Judging
  <2>1. PICK n \in Nat \ {0} : n = run.next + 1
    BY <1>2 DEF Judging
  <2>2. PICK p \in SUBSET Nat : p = passed
    BY <1>4
  <2>3. PICK s \in {"store", "input"} : s = step
    BY <1>4
  <2>4. run' = [run EXCEPT !.passed = p, !.step = s, !.next = n, !.input = Missing]
    BY <1>3, <2>1, <2>2, <2>3
  <2>5. Missing \in Stored
    BY DEF Stored
  <2>6. QED
    BY <1>2, <2>4, <2>5 DEF Judging
<1>6. /\ run'.step = step /\ run'.sub = run.sub /\ run'.tests = run.tests
      /\ run'.next = run.next + 1 /\ run'.passed = passed
  BY <1>2, <1>3 DEF Judging
<1>7. step = "input" => run.next + 1 \in DOMAIN run.tests
  BY <1>2, <1>4, RunKept
<1>8. subs' = subs
  BY <1>1 DEF database
<1>9. RunOK'
  BY <1>1, <1>2, <1>4, <1>5, <1>6, <1>7, <1>8 DEF RunOK
<1>10. QED
  BY <1>1, <1>9, TypeJudging

LEMMA TypeTestBreaks ==
    ASSUME TypeInv, TestBreaks
    PROVE  TypeInv'
<1>1. run.step = "answer" /\ UNCHANGED <<database, dir, at, requests, torn, outcomes>> /\ Trouble
  BY DEF TestBreaks
<1>2. run \in Judging /\ RunOK /\ run.next \in DOMAIN run.tests
  BY <1>1, RunKept DEF TypeInv, RunOK
<1>3. PICK e \in {"none", "CE", "AB", "IE"} :
          e = IF run.exit = "none" /\ run.passed = 1..(run.next - 1) THEN "IE" ELSE run.exit
  BY <1>2 DEF Judging
<1>4. PICK step \in {"store", "input"} : step = IF Stops(FALSE) THEN "store" ELSE "input"
  OBVIOUS
<1>5. PICK n \in Nat \ {0} : n = run.next + 1
  BY <1>2 DEF Judging
<1>6. run' = [run EXCEPT !.exit = e, !.step = step, !.next = n, !.input = Missing,
                         !.quiet = FALSE]
  BY <1>3, <1>4, <1>5 DEF TestBreaks
<1>7. step = "input" => n \in DOMAIN run.tests
  BY <1>2, <1>4, <1>5, RunKept DEF Stops
<1>8. run' \in Judging
  BY <1>2, <1>6 DEF Judging, Stored
<1>9. /\ run'.step = step /\ run'.sub = run.sub /\ run'.tests = run.tests
      /\ run'.next = n /\ run'.passed = run.passed
  BY <1>2, <1>6 DEF Judging
<1>10. RunOK'
  BY <1>1, <1>2, <1>7, <1>8, <1>9 DEF RunOK, database
<1>11. QED
  BY <1>1, <1>10, Troubled, TypeJudges

LEMMA TypeReturns ==
    ASSUME TypeInv, NEW verdict \in {"CE", "AB"}, Returns(verdict)
    PROVE  TypeInv'
<1>1. /\ run.step \in {"input", "answer"} /\ UNCHANGED <<database, dir, at, bounds, torn, outcomes>>
      /\ run' = [run EXCEPT !.exit = verdict, !.step = "store"]
  BY DEF Returns
<1>2. run \in Judging /\ RunOK
  BY RunKept DEF TypeInv, RunOK
<1>3. run' \in Judging
  BY <1>1, <1>2 DEF Judging
<1>4. /\ run'.step = "store" /\ run'.sub = run.sub /\ run'.tests = run.tests
      /\ run'.passed = run.passed
  BY <1>1, <1>2 DEF Judging
<1>5. RunOK'
  BY <1>1, <1>2, <1>3, <1>4 DEF RunOK, database
<1>6. QED
  BY <1>1, <1>5, TypeJudging

LEMMA TypeRaises ==
    ASSUME TypeInv, Raises
    PROVE  TypeInv'
<1>1. /\ run.step \in {"shares", "input", "answer"} /\ Trouble
      /\ UNCHANGED <<database, dir, at, requests, torn, outcomes>>
      /\ run' = [run EXCEPT !.exit = "IE", !.step = "store", !.passed = {}]
  BY DEF Raises
<1>2. run \in Judging /\ RunOK
  BY RunKept DEF TypeInv, RunOK
<1>3. run' \in Judging
  BY <1>1, <1>2 DEF Judging
<1>4. /\ run'.step = "store" /\ run'.sub = run.sub /\ run'.tests = run.tests
      /\ run'.passed = {}
  BY <1>1, <1>2 DEF Judging
<1>5. RunOK'
  BY <1>1, <1>2, <1>3, <1>4 DEF RunOK, database
<1>6. QED
  BY <1>1, <1>5, Troubled, TypeJudges

\* What is stored for a submission that is still there.
Outcome(r) ==
    [r EXCEPT !.state = VerdictOf(run), !.earned = Earns(run),
              !.of = IF run.quiet THEN run.of ELSE NoSet]

LEMMA OutcomeOf ==
    ASSUME TypeInv, NEW r \in Submission
    PROVE  /\ Outcome(r) \in Submission
           /\ Outcome(r).problem = r.problem /\ Outcome(r).some = r.some
           /\ Outcome(r).solves = r.solves
           /\ Outcome(r).state = VerdictOf(run) /\ Outcome(r).earned = Earns(run)
           /\ Outcome(r).of = IF run.quiet THEN run.of ELSE NoSet
           /\ VerdictOf(run) \in {"AC", "failed", "CE", "AB", "IE"}
<1> DEFINE of == IF run.quiet THEN run.of ELSE NoSet
<1>1. run \in Judging /\ run.some \in BOOLEAN /\ run.of \in Set
  BY RunKept DEF Judging
<1>2. Earns(run) \in 0..100
  <2>1. EarnedPercent(run.tests, run.shares, run.some, run.passed) \in 0..100
    BY <1>1, RunKept, EarnedType
  <2>2. 0 \in 0..100
    OBVIOUS
  <2>3. QED
    BY <2>1, <2>2, Zenon DEF Earns
<1>3. VerdictOf(run) \in {"AC", "failed", "CE", "AB", "IE"}
  BY <1>1 DEF VerdictOf, Judging
<1>4. of \in Set
  BY <1>1 DEF Set
<1>5. Outcome(r) = [r EXCEPT !.state = VerdictOf(run), !.earned = Earns(run), !.of = of]
  BY DEF Outcome
<1> HIDE DEF of
<1>6. PICK v \in {"AC", "failed", "CE", "AB", "IE"} : v = VerdictOf(run)
  BY <1>3
<1>7. PICK e \in 0..100 : e = Earns(run)
  BY <1>2
<1>8. Outcome(r) = [r EXCEPT !.state = v, !.earned = e, !.of = of]
  BY <1>5, <1>6, <1>7
<1>9. /\ Outcome(r) \in Submission
      /\ Outcome(r).problem = r.problem /\ Outcome(r).some = r.some
      /\ Outcome(r).solves = r.solves
      /\ Outcome(r).state = v /\ Outcome(r).earned = e /\ Outcome(r).of = of
  BY <1>4, <1>8 DEF Submission, States
<1>10. QED
  BY <1>6, <1>7, <1>9 DEF of

LEMMA TypeStore ==
    ASSUME TypeInv, Store
    PROVE  TypeInv'
<1>1. /\ run.step = "store" /\ run' = NoRun
      /\ UNCHANGED <<slug, lastId, partial, tests, shares, origin, dir, at>>
      /\ UNCHANGED <<requests, faults, torn, packaged, accepted, stranded>>
  BY DEF Store, bounds, outcomes
<1>2. SubsOK'
  <2>1. CASE ~Live(run.sub)
    BY <1>1, <2>1, SubsStay DEF Store, TypeInv
  <2>2. CASE Live(run.sub)
    <3> DEFINE s == run.sub
    <3>1. subs' = [subs EXCEPT ![s] = Outcome(subs[s])]
      BY <2>2 DEF Store, Outcome
    <3>2. /\ subs[s] \in Submission /\ subs[s].problem = slug /\ slug # NoId
          /\ subs[s].some = partial
      BY <2>2, LiveSub
    <3>3. Outcome(subs[s]) \in Submission /\ SubmissionOK(Outcome(subs[s]), slug, partial)
      BY <3>2, OutcomeOf DEF SubmissionOK
    <3> HIDE DEF s
    <3>4. Live(s)
      BY <2>2 DEF s
    <3>5. QED
      BY <1>1, <3>1, <3>3, <3>4, SubChanged
  <2>3. QED
    BY <2>1, <2>2
<1>3. RunOK'
  <2>1. NoRun \in Judging
    BY NoRunType
  <2>2. QED
    BY <1>1, <2>1 DEF RunOK, NoRun
<1>4. RowsOK' /\ DirOK' /\ HandlersOK' /\ CountsOK'
  BY <1>1, RowsStay DEF TypeInv, DirOK, HandlersOK, CountsOK
<1>5. QED
  BY <1>2, <1>3, <1>4 DEF TypeInv

\* A stop leaves the rows and files, and queues again what was being judged.
LEMMA Stopped ==
    ASSUME TypeInv, Stop
    PROVE  /\ SubsOK' /\ DOMAIN subs' = DOMAIN subs
           /\ \A s \in DOMAIN subs :
                  /\ subs'[s].problem = subs[s].problem /\ subs'[s].of = subs[s].of
                  /\ subs'[s] = subs[s] \/ (subs'[s].state = "PENDING" /\ subs[s].of = NoSet)
<1> DEFINE again(r) == IF r.state = "JUDGING"
                       THEN [r EXCEPT !.state = "PENDING", !.earned = 0] ELSE r
<1>1. subs \in Seq(Submission) /\ Len(subs) \in Nat /\ DOMAIN subs = 1..Len(subs)
  BY DEF TypeInv, SubsOK
<1>2. subs' = [s \in DOMAIN subs |-> again(subs[s])] /\ UNCHANGED <<slug, partial>>
  BY DEF Stop
<1>3. ASSUME NEW s \in DOMAIN subs
      PROVE  /\ again(subs[s]) \in Submission /\ SubmissionOK(again(subs[s]), slug, partial)
             /\ again(subs[s]).problem = subs[s].problem /\ again(subs[s]).of = subs[s].of
             /\ \/ again(subs[s]) = subs[s]
                \/ again(subs[s]).state = "PENDING" /\ subs[s].of = NoSet
  <2>1. subs[s] \in Submission /\ SubmissionOK(subs[s], slug, partial)
    BY <1>1, ElementOfSeq DEF TypeInv, SubsOK
  <2>2. CASE subs[s].state = "JUDGING"
    <3>1. subs[s] # NoSub
      BY <2>2 DEF NoSub
    <3>2. PICK r : r = [subs[s] EXCEPT !.state = "PENDING", !.earned = 0]
      OBVIOUS
    <3>3. r \in Submission
      <4>1. PICK q : q = [subs[s] EXCEPT !.state = "PENDING"]
        OBVIOUS
      <4>2. q \in Submission
        BY <2>1, <4>1 DEF Submission, States
      <4>3. r = [q EXCEPT !.earned = 0] /\ 0 \in 0..100
        BY <3>2, <4>1
      <4>4. QED
        BY <4>2, <4>3 DEF Submission
    <3>4. /\ r.problem = subs[s].problem /\ r.some = subs[s].some /\ r.state = "PENDING"
          /\ r.of = subs[s].of
      BY <2>1, <3>2 DEF Submission
    <3>5. SubmissionOK(r, slug, partial) /\ subs[s].of = NoSet
      BY <2>1, <2>2, <3>1, <3>4 DEF SubmissionOK
    <3>6. again(subs[s]) = r
      BY <2>2, <3>2
    <3> HIDE DEF again
    <3>7. QED
      BY <3>3, <3>4, <3>5, <3>6
  <2>3. CASE subs[s].state # "JUDGING"
    BY <2>1, <2>3
  <2>4. QED
    BY <2>2, <2>3
<1> HIDE DEF again
<1>4. DOMAIN subs' = DOMAIN subs /\ \A s \in DOMAIN subs : subs'[s] = again(subs[s])
  BY <1>2
<1>5. subs' \in [1..Len(subs) -> Submission]
  BY <1>1, <1>2, <1>3
<1>6. subs' \in Seq(Submission)
  BY <1>1, <1>5
<1>7. SubsOK'
  BY <1>2, <1>3, <1>4, <1>6 DEF SubsOK
<1>8. QED
  BY <1>3, <1>4, <1>7

LEMMA TypeStop ==
    ASSUME TypeInv, Stop
    PROVE  TypeInv'
<1>1. /\ UNCHANGED <<slug, lastId, partial, tests, shares, origin, dir, requests, packaged, accepted>>
      /\ run' = NoRun /\ at' = [t \in Thread |-> Idle] /\ torn' = (torn \/ Writers # {})
      /\ stranded' = stranded \cup ({at[t].made : t \in Thread} \ {NoId})
  BY DEF Stop
<1>2. SubsOK'
  BY Stopped
<1>3. HandlersOK'
  <2>1. HandlerOK(Idle, lastId') /\ Idle \in Request
    BY IdleOK DEF HandlerOK
  <2>2. QED
    BY <1>1, <2>1 DEF HandlersOK
<1>4. RunOK'
  BY <1>1, NoRunType DEF RunOK, NoRun
<1>5. CountsOK'
  <2>1. ASSUME NEW m \in stranded' PROVE m \in 1..lastId
    <3>1. CASE m \in stranded
      BY <3>1, CountsKept
    <3>2. CASE m \notin stranded
      <4>1. PICK t \in Thread : m = at[t].made /\ m # NoId
        BY <1>1, <2>1, <3>2
      <4>2. QED
        BY <4>1, HandlerKept DEF HandlerOK
    <3>3. QED
      BY <3>1, <3>2
  <2>2. faults' \in 0..MaxFaults
    BY Troubled DEF Stop
  <2>3. torn' \in BOOLEAN
    BY <1>1, CountsKept
  <2>4. QED
    BY <1>1, <2>1, <2>2, <2>3, CountsKept DEF CountsOK
<1>6. RowsOK' /\ DirOK'
  BY <1>1, RowsStay DEF TypeInv, DirOK
<1>7. QED
  BY <1>2, <1>3, <1>4, <1>5, <1>6 DEF TypeInv

LEMMA TypeStep ==
    ASSUME TypeInv, [Next]_vars
    PROVE  TypeInv'
<1>1. ASSUME NEW t \in Thread, RequestStep(t) PROVE TypeInv'
  BY <1>1, TypeCreate, TypeDelete, TypeReplace, TypeUpload, TypeBulk, TypeExpress, TypeResume,
     TypeResumeBulk, TypeClear, TypeClearFails, TypeWrite, TypeWriteFails, TypeCommit,
     TypeLookup, TypeQueueSource, TypeQueueFails, TypeQueued, TypeUndo, TypeUndoFails,
     TypeDeleteProblem, TypeDeleteFails, TypeDeleteFiles, TypeFilesStay DEF RequestStep
<1>2. ASSUME JudgeStep PROVE TypeInv'
  BY <1>2, TypeLoadTests, TypeLoadShares, TypeReadInput, TypeStore, TypeReadAnswer,
     TypeTestBreaks, TypeReturns, TypeRaises DEF JudgeStep
<1>3. CASE UNCHANGED vars
  <2>1. UNCHANGED <<slug, lastId, partial, tests, shares, dir, subs, at, run, requests, faults,
                    origin, torn, packaged, accepted, stranded>>
    BY <1>3 DEF vars, database, bounds, outcomes
  <2>2. QED
    BY <2>1 DEF TypeInv, RowsOK, SubsOK, DirOK, HandlersOK, RunOK, CountsOK
<1>4. QED
  BY <1>1, <1>2, <1>3, TypeStop DEF Next

LEMMA TypeAlways == Spec => []TypeInv
<1>1. Init => TypeInv
  BY TypeStart
<1>2. TypeInv /\ [Next]_vars => TypeInv'
  BY TypeStep
<1>3. QED
  BY <1>1, <1>2, PTL DEF Spec

LEMMA TypesFollow ==
    ASSUME TypeInv
    PROVE  TypeOK
<1>1. slug \in 0..lastId /\ lastId \in 0..MaxIds /\ partial \in BOOLEAN /\ origin \in Set
  BY DEF TypeInv, RowsOK
<1>2. tests \in Rows
  BY RowsAreRows DEF TypeInv
<1>3. \A g \in DOMAIN shares : shares[g] \in 0..100
  <2>1. CASE shares = <<>>
    BY <2>1
  <2>2. CASE shares # <<>>
    <3>1. PICK k \in SetName : shares = SharesOf[k]
      BY <2>2, RowsAreRows DEF TypeInv, Percents
    <3>2. QED
      BY <2>2, <3>1, SharesWhole
  <2>3. QED
    BY <2>1, <2>2
<1>4. dir = NoDir \/ \A i \in Idx : dir[i] \in Stored
  BY DEF TypeInv, DirOK
<1>5. ASSUME NEW s \in DOMAIN subs
      PROVE  subs[s] = NoSub \/
                 /\ subs[s].problem = slug /\ slug # NoId
                 /\ subs[s].state \in {"PENDING", "JUDGING", "AC", "failed", "CE", "AB", "IE"}
                 /\ subs[s].earned \in 0..100 /\ subs[s].of \in Set
  <2>1. subs \in Seq(Submission) /\ SubmissionOK(subs[s], slug, partial)
    BY DEF TypeInv, SubsOK
  <2>2. subs[s] \in Submission
    BY <2>1, ElementOfSeq
  <2>3. QED
    BY <2>1, <2>2 DEF SubmissionOK, Submission, States
<1>6. ASSUME NEW t \in Thread
      PROVE  at[t].step \in
                 {"idle", "await", "row", "files", "clear", "write", "lookup", "queue", "undo"}
  BY HandlerKept DEF Request, Steps
<1>7. run.step \in {"idle", "shares", "input", "answer", "store"}
  BY RunKept DEF Judging
<1>8. QED
  BY <1>1, <1>2, <1>3, <1>4, <1>5, <1>6, <1>7, CountsKept DEF TypeOK

\* TypeOK, whatever the archives and however many threads: among the rest, a submission that
\* is there belongs to the problem that has the slug, and what it has earned is a percentage.
THEOREM AuthoringTyped == Spec => []TypeOK
<1>1. TypeInv => TypeOK
  BY TypesFollow
<1>2. QED
  BY <1>1, TypeAlways, PTL

\* SharesCover: the percentages that a problem's subtasks have make 100, whichever archive
\* they came from, over subtasks that have tests, and leave no hidden test worth nothing.
THEOREM PercentagesCover == Spec => []SharesCover
<1>1. ASSUME TypeInv PROVE SharesCover
  <2>1. SUFFICES ASSUME shares # <<>>
                 PROVE  /\ Total(shares) = 100
                        /\ \A g \in DOMAIN shares : \E i \in DOMAIN tests : tests[i].subtask = g
                        /\ \A i \in DOMAIN tests :
                               tests[i].sample \/ tests[i].subtask \in DOMAIN shares
    BY DEF SharesCover
  <2>2. origin \in SetName /\ tests = TestsOf[origin] /\ shares = SharesOf[origin]
    BY <1>1, <2>1 DEF TypeInv, RowsOK, Set
  <2>3. /\ Total(SharesOf[origin]) = 100
        /\ \A g \in DOMAIN SharesOf[origin] : Group(TestsOf[origin], g) # {}
        /\ \A i \in DOMAIN TestsOf[origin] :
               TestsOf[origin][i].sample
               \/ TestsOf[origin][i].subtask \in DOMAIN SharesOf[origin]
    BY <2>1, <2>2, SharesWhole
  <2>4. QED
    BY <2>2, <2>3 DEF Group
<1>2. QED
  BY <1>1, TypeAlways, PTL

----------------------------------------------------------------------------
(* The directory and the rows. *)

\* A writer goes on: what it has to show is that it is as far as it says, when it is alone.
LEMMA WriterGoesOn ==
    ASSUME TypeInv, PlaceInv, NEW t \in Thread, Writing(t), NEW h \in Request,
           at' = [at EXCEPT ![t] = h], h.step # "idle", h.op # "bulk", h.alone = at[t].alone,
           torn' = torn, Sole(t) /\ at[t].alone => AloneOK(t)',
           Sole(t) /\ ~torn /\ h.step \in Early => DirWhole'
    PROVE  PlaceInv'
<1>1. at'[t] = h /\ \A u \in Thread : u # t => at'[u] = at[u]
  BY DEF TypeInv, HandlersOK
<1>2. \A u \in Thread : Writing(u)' <=> Writing(u)
  BY <1>1 DEF Writing
<1>3. Sole(t)' <=> Sole(t)
  BY <1>2 DEF Sole
<1>4. ASSUME NEW u \in Thread, Writing(u)', at'[u].alone PROVE Sole(u)' /\ AloneOK(u)'
  <2>1. Writing(u) /\ at[u].alone
    BY <1>1, <1>2, <1>4
  <2>2. u = t /\ Sole(t)
    BY <2>1 DEF PlaceInv, AloneInv, Sole
  <2>3. QED
    BY <1>3, <2>1, <2>2
<1>5. TornInv'
  BY <1>1, <1>2 DEF PlaceInv, TornInv
<1>6. ASSUME ~torn', \A u \in Thread : Writing(u)' => at'[u].step \in Early PROVE DirWhole'
  <2>1. at[t].alone
    BY <1>6 DEF PlaceInv, TornInv
  <2>2. Sole(t)
    BY <2>1 DEF PlaceInv, AloneInv
  <2>3. h.step \in Early
    BY <1>1, <1>2, <1>6
  <2>4. QED
    BY <1>6, <2>2, <2>3
<1>7. QED
  BY <1>4, <1>5, <1>6 DEF PlaceInv, AloneInv, WholeInv

\* A writer ends: alone, it has left the directory whole, or the directory counts as torn.
LEMMA WriterEnds ==
    ASSUME TypeInv, PlaceInv, NEW t \in Thread, Writing(t), Ends(t),
           ~torn' => at[t].alone, Sole(t) /\ ~torn' => DirWhole'
    PROVE  PlaceInv'
<1>1. at'[t] = Idle /\ \A u \in Thread : u # t => at'[u] = at[u]
  BY DEF TypeInv, HandlersOK, Ends
<1>2. \A u \in Thread : Writing(u)' <=> Writing(u) /\ u # t
  BY <1>1 DEF Writing, Idle
<1>3. ASSUME NEW u \in Thread, Writing(u)', at'[u].alone PROVE FALSE
  <2>1. Writing(u) /\ at[u].alone /\ u # t
    BY <1>1, <1>2, <1>3
  <2>2. QED
    BY <2>1 DEF PlaceInv, AloneInv, Sole
<1>4. ASSUME ~torn' PROVE Sole(t) /\ \A u \in Thread : ~Writing(u)'
  BY <1>2, <1>4 DEF PlaceInv, AloneInv, Sole
<1>5. QED
  BY <1>3, <1>4 DEF PlaceInv, AloneInv, TornInv, WholeInv

\* A writer begins: it is alone if nobody else is writing, and then nothing has changed yet.
LEMMA WriterBegins ==
    ASSUME TypeInv, PlaceInv, NEW t \in Thread, at[t].step = "idle", NEW h \in Request,
           Begins(t, h), h.step \in Early, h.op # "bulk",
           h.op = "express" => slug' = h.made,
           h.step = "row" => slug' = h.problem,
           UNCHANGED <<dir, tests, origin>>
    PROVE  PlaceInv'
<1>1. PICK b \in BOOLEAN : b = (Writers = {})
  OBVIOUS
<1>2. at'[t] = [h EXCEPT !.alone = b]
  BY <1>1 DEF Begins
<1>3. /\ at'[t].alone = b /\ at'[t].step = h.step /\ at'[t].op = h.op
      /\ at'[t].made = h.made /\ at'[t].problem = h.problem
  BY <1>2 DEF Request
<1>4. ASSUME NEW u \in Thread, u # t
      PROVE  /\ Writing(u)' <=> Writing(u)
             /\ Writing(u) => ~at'[u].alone
  <2>1. at'[u] = IF Writing(u) THEN [at[u] EXCEPT !.alone = FALSE] ELSE at[u]
    BY <1>4 DEF Begins
  <2>2. at[u] \in Request
    BY HandlerKept
  <2>3. CASE Writing(u)
    <3>1. at'[u].alone = FALSE /\ at'[u].step = at[u].step /\ at'[u].op = at[u].op
      BY <2>1, <2>2, <2>3 DEF Request
    <3>2. QED
      BY <2>3, <3>1 DEF Writing
  <2>4. CASE ~Writing(u)
    BY <2>1, <2>4 DEF Writing
  <2>5. QED
    BY <2>3, <2>4
<1>5. ~Writing(t) /\ Writing(t)'
  BY <1>3 DEF Writing, Early
<1>6. (b = TRUE) <=> \A u \in Thread : ~Writing(u)
  BY <1>1 DEF Writers
<1>7. ~torn' <=> ~torn /\ b = TRUE
  BY <1>1 DEF Begins
<1>8. ASSUME NEW u \in Thread, Writing(u)', at'[u].alone PROVE Sole(u)' /\ AloneOK(u)'
  <2>1. u = t /\ b = TRUE
    BY <1>3, <1>4, <1>8
  <2>2. Sole(t)'
    BY <1>4, <1>6, <2>1 DEF Sole
  <2>3. AloneOK(t)'
    BY <1>3 DEF AloneOK, Early
  <2>4. QED
    BY <2>1, <2>2, <2>3
<1>9. TornInv'
  BY <1>3, <1>4, <1>6, <1>7 DEF TornInv
<1>10. ASSUME ~torn' PROVE DirWhole'
  <2>1. DirWhole
    BY <1>6, <1>7, <1>10 DEF PlaceInv, WholeInv
  <2>2. QED
    BY <2>1 DEF DirWhole
<1>11. QED
  BY <1>8, <1>9, <1>10 DEF PlaceInv, AloneInv, WholeInv

\* No writer moves, and the rows and the directory stay.
LEMMA NobodyWrites ==
    ASSUME TypeInv, PlaceInv, UNCHANGED <<dir, tests, origin, torn>>,
           \A u \in Thread : Writing(u)' <=> Writing(u),
           \A u \in Thread : Writing(u) => at'[u] = at[u],
           slug' = slug \/ slug = NoId
    PROVE  PlaceInv'
<1>1. DirWhole' <=> DirWhole
  BY DEF DirWhole
<1>2. ASSUME NEW u \in Thread, Writing(u)', at'[u].alone PROVE Sole(u)' /\ AloneOK(u)'
  <2>1. Writing(u) /\ at[u].alone /\ at'[u] = at[u]
    BY <1>2
  <2>2. Sole(u) /\ AloneOK(u)
    BY <2>1 DEF PlaceInv, AloneInv
  <2>3. HandlerOK(at[u], lastId) /\ at[u] \in Request /\ at[u].op # "none"
    BY <2>1, HandlerKept DEF HandlerOK, Writing
  <2>4. Written(at[u].set, at[u].next)' <=> Written(at[u].set, at[u].next)
    BY <2>1 DEF Written
  <2>5. /\ at[u].op = "express" /\ at[u].step # "files" => slug' = at[u].made
        /\ at[u].step = "row" => slug' = at[u].problem
    BY <2>2, <2>3 DEF AloneOK, HandlerOK, NoId
  <2>6. AloneOK(u)'
    BY <1>1, <2>1, <2>2, <2>4, <2>5 DEF AloneOK
  <2>7. Sole(u)'
    BY <2>2 DEF Sole
  <2>8. QED
    BY <2>6, <2>7
<1>3. TornInv'
  BY DEF PlaceInv, TornInv
<1>4. WholeInv'
  BY <1>1 DEF PlaceInv, WholeInv
<1>5. QED
  BY <1>2, <1>3, <1>4 DEF PlaceInv, AloneInv

\* A step of a request that is not a writer.
LEMMA OtherStep ==
    ASSUME TypeInv, PlaceInv, UNCHANGED <<dir, tests, origin, torn>>,
           NEW t \in Thread, ~Writing(t), ~Writing(t)', NEW h, at' = [at EXCEPT ![t] = h],
           slug' = slug
    PROVE  PlaceInv'
<1>1. \A u \in Thread : u # t => at'[u] = at[u]
  BY DEF TypeInv, HandlersOK
<1>2. \A u \in Thread : Writing(u)' <=> Writing(u)
  BY <1>1 DEF Writing
<1>3. QED
  BY <1>1, <1>2, NobodyWrites

\* A writer that fails takes its problem back, or leaves the directory torn.
LEMMA WriterFails ==
    ASSUME TypeInv, PlaceInv, NEW t \in Thread, Writing(t), NEW leaves \in BOOLEAN,
           Fails(t, leaves), leaves \/ at[t].op = "express",
           at[t].step # "files", UNCHANGED <<slug, tests, origin>>
    PROVE  PlaceInv'
<1>1. at[t] \in Request
  BY HandlerKept
<1>2. CASE at[t].op = "express"
  <2> DEFINE h == [at[t] EXCEPT !.step = "undo"]
  <2>1. at' = [at EXCEPT ![t] = h] /\ torn' = torn
    BY <1>2 DEF Fails, Goes
  <2>2. /\ h \in Request /\ h.step = "undo" /\ h.op = "express" /\ h.alone = at[t].alone
        /\ h.made = at[t].made
    BY <1>1, <1>2 DEF Request, Steps
  <2>3. at'[t] = h
    BY <2>1 DEF TypeInv, HandlersOK
  <2>4. ASSUME at[t].alone PROVE AloneOK(t)'
    <3>1. slug = at[t].made
      BY <1>2, <2>4 DEF PlaceInv, AloneInv, AloneOK
    <3>2. QED
      BY <2>2, <2>3, <3>1 DEF AloneOK
  <2> HIDE DEF h
  <2>5. QED
    BY <2>1, <2>2, <2>4, WriterGoesOn DEF Early
<1>3. CASE at[t].op # "express"
  BY <1>3, WriterEnds DEF Fails
<1>4. QED
  BY <1>2, <1>3

LEMMA PlaceCreate ==
    ASSUME TypeInv, PlaceInv, NEW t \in Thread, NEW some \in BOOLEAN, CreateProblem(t, some)
    PROVE  PlaceInv'
<1>1. InsertRow(some) /\ UNCHANGED <<dir, at, torn>>
  BY DEF CreateProblem
<1>2. slug = NoId /\ UNCHANGED <<tests, origin>>
  BY <1>1 DEF InsertRow
<1>3. QED
  BY <1>1, <1>2, NobodyWrites DEF Writing

LEMMA PlaceDelete ==
    ASSUME TypeInv, PlaceInv, NEW t \in Thread, Delete(t)
    PROVE  PlaceInv'
<1> DEFINE h == Handler("delete", "row", slug, NoSet, <<>>, NoId)
<1>1. slug \in Nat /\ NoSet \in Set /\ NoId \in Nat /\ <<>> \in Seq(SUBSET Nat)
  BY EmptySeq DEF TypeInv, RowsOK, Set, NoId
<1>2. h \in Request /\ h.step = "row" /\ h.op = "delete" /\ h.problem = slug
  BY <1>1, HandlerType DEF Steps, Handler
<1> HIDE DEF h
<1>3. Takes(t) /\ Begins(t, h) /\ UNCHANGED <<dir, tests, origin, slug>>
  BY DEF Delete, h, database
<1>4. at[t].step = "idle"
  BY <1>3, Taking
<1>5. QED
  BY <1>2, <1>3, <1>4, WriterBegins DEF Early

LEMMA PlaceReplace ==
    ASSUME TypeInv, PlaceInv, NEW t \in Thread, NEW j \in DOMAIN Inline, ReplaceTests(t, j)
    PROVE  PlaceInv'
<1> DEFINE k == <<j, 0>>
           h == Handler("replace", "clear", slug, k, <<>>, NoId)
<1>1. slug \in Nat /\ k \in Set /\ NoId \in Nat /\ <<>> \in Seq(SUBSET Nat)
  BY EmptySeq DEF TypeInv, RowsOK, Set, SetName, NoId
<1>2. h \in Request /\ h.step = "clear" /\ h.op = "replace"
  BY <1>1, HandlerType DEF Steps, Handler
<1> HIDE DEF h
<1>3. Takes(t) /\ Begins(t, h) /\ UNCHANGED <<dir, tests, origin, slug>>
  BY DEF ReplaceTests, h, database
<1>4. at[t].step = "idle"
  BY <1>3, Taking
<1>5. QED
  BY <1>2, <1>3, <1>4, WriterBegins DEF Early

LEMMA PlaceUpload ==
    ASSUME TypeInv, PlaceInv, NEW t \in Thread, UploadTests(t)
    PROVE  PlaceInv'
<1> DEFINE h == Handler("upload", "await", slug, NoSet, <<>>, NoId)
<1>1. slug \in Nat /\ NoSet \in Set /\ NoId \in Nat /\ <<>> \in Seq(SUBSET Nat)
  BY EmptySeq DEF TypeInv, RowsOK, Set, NoId
<1>2. h \in Request /\ h.step = "await" /\ h.op = "upload"
  BY <1>1, HandlerType DEF Steps, Handler
<1> HIDE DEF h
<1>3. Takes(t) /\ Begins(t, h) /\ UNCHANGED <<dir, tests, origin, slug>>
  BY DEF UploadTests, h, database
<1>4. at[t].step = "idle"
  BY <1>3, Taking
<1>5. QED
  BY <1>2, <1>3, <1>4, WriterBegins DEF Early

LEMMA PlaceBulk ==
    ASSUME TypeInv, PlaceInv, NEW t \in Thread, BulkSubmit(t)
    PROVE  PlaceInv'
<1> DEFINE h == Handler("bulk", "await", slug, NoSet, <<>>, NoId)
<1>1. h.op = "bulk"
  BY DEF Handler
<1> HIDE DEF h
<1>2. Takes(t) /\ at' = [at EXCEPT ![t] = h] /\ UNCHANGED <<dir, tests, origin, torn, slug>>
  BY DEF BulkSubmit, h, database
<1>3. ~Writing(t) /\ ~Writing(t)'
  <2>1. at'[t] = h
    BY <1>2 DEF TypeInv, HandlersOK
  <2>2. QED
    BY <1>1, <1>2, <2>1, Taking DEF Writing
<1>4. QED
  BY <1>2, <1>3, OtherStep

LEMMA PlaceExpress ==
    ASSUME TypeInv, PlaceInv, NEW t \in Thread, NEW p \in Package, NEW some \in BOOLEAN,
           ExpressCreate(t, p, some)
    PROVE  PlaceInv'
<1> DEFINE k == <<p.set, 0>>
           h == Handler("express", "clear", lastId + 1, k, p.sources, lastId + 1)
<1>1. lastId \in Nat /\ lastId + 1 \in Nat /\ k \in Set /\ p.sources \in Seq(SUBSET Nat)
  BY PackageAssumption, Bounds DEF TypeInv, RowsOK, Set, SetName
<1>2. h \in Request /\ h.step = "clear" /\ h.op = "express" /\ h.made = lastId + 1
  BY <1>1, HandlerType DEF Steps, Handler
<1> HIDE DEF h
<1>3. /\ Takes(t) /\ Begins(t, h) /\ UNCHANGED <<dir, tests, origin>>
      /\ slug' = lastId + 1
  BY DEF ExpressCreate, InsertRow, h
<1>4. at[t].step = "idle"
  BY <1>3, Taking
<1>5. QED
  BY <1>2, <1>3, <1>4, WriterBegins DEF Early

\* A handler at one of its steps, whatever the step, is no idle one.
LEMMA Bulk ==
    ASSUME TypeInv, NEW t \in Thread, at[t].step # "idle"
    PROVE  /\ Writing(t) <=> at[t].op # "bulk"
           /\ at[t].op = "bulk" <=> at[t].op = "bulk" /\ at[t].step \in {"await", "queue"}
           /\ at[t] \in Request /\ at[t].alone \in BOOLEAN
<1>1. HandlerOK(at[t], lastId) /\ at[t] \in Request
  BY HandlerKept
<1>2. QED
  BY <1>1 DEF Writing, HandlerOK, Request

\* Where a handler ends that is no writer, it changes nothing.
LEMMA OtherEnds ==
    ASSUME TypeInv, PlaceInv, NEW t \in Thread, ~Writing(t), Ends(t),
           UNCHANGED <<slug, dir, tests, origin, torn>>
    PROVE  PlaceInv'
<1>1. at' = [at EXCEPT ![t] = Idle] /\ at'[t] = Idle
  BY DEF Ends, TypeInv, HandlersOK
<1>2. ~Writing(t)'
  BY <1>1 DEF Writing, Idle
<1>3. QED
  BY <1>1, <1>2, OtherStep

\* One that ends where it has changed nothing leaves the directory as it was.
LEMMA EarlyEnds ==
    ASSUME TypeInv, PlaceInv, NEW t \in Thread, Writing(t), at[t].step \in Early, Ends(t),
           UNCHANGED <<dir, tests, origin, torn>>
    PROVE  PlaceInv'
<1>1. ASSUME ~torn, Sole(t) PROVE DirWhole
  <2>1. \A u \in Thread : Writing(u) => at[u].step \in Early
    BY <1>1 DEF Sole
  <2>2. QED
    BY <1>1, <2>1 DEF PlaceInv, WholeInv
<1>2. DirWhole' <=> DirWhole
  BY DEF DirWhole
<1>3. ~torn' => at[t].alone
  BY DEF PlaceInv, TornInv
<1>4. QED
  BY <1>1, <1>2, <1>3, WriterEnds

LEMMA PlaceResumeBulk ==
    ASSUME TypeInv, PlaceInv, NEW t \in Thread, NEW sources, ResumeBulk(t, sources)
    PROVE  PlaceInv'
<1> DEFINE h == [at[t] EXCEPT !.step = "queue", !.left = sources]
<1>1. /\ at[t].step = "await" /\ at[t].op = "bulk" /\ UNCHANGED <<slug, dir, tests, origin, torn>>
      /\ at' = [at EXCEPT ![t] = h]
  BY DEF ResumeBulk, At, database
<1>2. at'[t] = h /\ at[t] \in Request
  BY <1>1, HandlerKept DEF TypeInv, HandlersOK
<1>3. at'[t].op = "bulk"
  BY <1>1, <1>2 DEF Request
<1> HIDE DEF h
<1>4. QED
  BY <1>1, <1>3, OtherStep DEF Writing

LEMMA PlaceResume ==
    ASSUME TypeInv, PlaceInv, NEW t \in Thread, NEW a \in DOMAIN Archive, NEW n \in 0..MaxSamples,
           Resume(t, a, n)
    PROVE  PlaceInv'
<1> DEFINE k == <<a, n>>
           h == [at[t] EXCEPT !.step = "clear", !.set = k]
<1>1. /\ at[t].step = "await" /\ at[t].op = "upload" /\ UNCHANGED <<slug, dir, tests, origin, torn>>
      /\ IF Parses(a) THEN at' = [at EXCEPT ![t] = h] ELSE Ends(t)
  BY DEF Resume, At, database
<1>2. at[t] \in Request /\ Writing(t)
  BY <1>1, Bulk
<1>3. CASE Parses(a)
  <2>1. at' = [at EXCEPT ![t] = h]
    BY <1>1, <1>3
  <2>2. k \in Set
    BY DEF Set, SetName
  <2> HIDE DEF k
  <2>3. h \in Request /\ h.step = "clear" /\ h.op = "upload" /\ h.alone = at[t].alone
    BY <1>1, <1>2, <2>2 DEF Request, Steps
  <2>4. at'[t] = h
    BY <2>1 DEF TypeInv, HandlersOK
  <2> HIDE DEF h
  <2>5. AloneOK(t)'
    BY <2>3, <2>4 DEF AloneOK
  <2>6. ASSUME ~torn, Sole(t) PROVE DirWhole'
    <3>1. \A u \in Thread : Writing(u) => at[u].step \in Early
      BY <1>1, <2>6 DEF Sole, Early
    <3>2. DirWhole
      BY <2>6, <3>1 DEF PlaceInv, WholeInv
    <3>3. QED
      BY <1>1, <3>2 DEF DirWhole
  <2>7. QED
    BY <1>1, <1>2, <2>1, <2>3, <2>5, <2>6, WriterGoesOn
<1>4. CASE ~Parses(a)
  BY <1>1, <1>2, <1>4, EarlyEnds DEF Early
<1>5. QED
  BY <1>3, <1>4

LEMMA PlaceClear ==
    ASSUME TypeInv, PlaceInv, NEW t \in Thread, ClearDirectory(t)
    PROVE  PlaceInv'
<1>1. /\ at[t].step = "clear" /\ UNCHANGED <<slug, tests, origin, torn>> /\ dir' = NoFiles
      /\ Goes(t, "write")
  BY DEF ClearDirectory, At, Cleared, database
<1>2. at[t] \in Request /\ Writing(t)
  BY <1>1, Bulk
<1> DEFINE h == [at[t] EXCEPT !.step = "write"]
<1>3. at' = [at EXCEPT ![t] = h]
  BY <1>1 DEF Goes
<1>4. /\ h \in Request /\ h.step = "write" /\ h.op = at[t].op /\ h.alone = at[t].alone
      /\ h.made = at[t].made /\ h.set = at[t].set /\ h.next = at[t].next
  BY <1>2 DEF Request, Steps
<1>5. at'[t] = h
  BY <1>3 DEF TypeInv, HandlersOK
<1>6. at[t].next = 1 /\ at[t].set \in SetName /\ TestsOf[at[t].set] # <<>>
  BY <1>1, HandlerKept DEF HandlerOK
<1>7. Written(at[t].set, 1)'
  <2>1. NoFiles # NoDir
    <3>1. 1 \in DOMAIN TestsOf[at[t].set]
      <4>1. Len(TestsOf[at[t].set]) # 0 /\ Len(TestsOf[at[t].set]) \in Nat
            /\ DOMAIN TestsOf[at[t].set] = 1..Len(TestsOf[at[t].set])
        BY <1>6, TestsType, EmptySeq
      <4>2. QED
        BY <4>1
    <3>2. 1 \in Idx
      BY <1>6, <3>1, IdsOf
    <3>3. DOMAIN NoFiles = Idx /\ DOMAIN NoDir = {}
      BY DEF NoFiles, NoDir
    <3>4. QED
      BY <3>2, <3>3
  <2>2. ASSUME NEW i \in Idx PROVE ~(i < 1)
    <3>1. PICK k \in SetName : i \in DOMAIN TestsOf[k]
      BY DEF Idx
    <3>2. DOMAIN TestsOf[k] = 1..Len(TestsOf[k])
      BY TestsType
    <3>3. QED
      BY <3>1, <3>2
  <2>3. QED
    BY <1>1, <1>5, <1>4, <2>1, <2>2 DEF Written, NoFiles
<1>8. ASSUME at[t].alone PROVE AloneOK(t)'
  <2>1. at[t].op = "express" => slug = at[t].made
    BY <1>1, <1>2, <1>8 DEF PlaceInv, AloneInv, AloneOK
  <2>2. QED
    BY <1>1, <1>4, <1>5, <1>6, <1>7, <2>1 DEF AloneOK, Written
<1> HIDE DEF h
<1>9. h.step # "idle" /\ h.step \notin Early /\ h.op # "bulk"
  BY <1>1, <1>4, <1>2, Bulk DEF Early
<1>10. QED
  BY <1>1, <1>2, <1>3, <1>4, <1>8, <1>9, WriterGoesOn

LEMMA PlaceClearFails ==
    ASSUME TypeInv, PlaceInv, NEW t \in Thread, ClearFails(t)
    PROVE  PlaceInv'
<1>1. /\ at[t].step = "clear" /\ UNCHANGED <<slug, tests, origin>> /\ Fails(t, TRUE)
  BY DEF ClearFails, At, database
<1>2. Writing(t)
  BY <1>1, Bulk, HandlerKept DEF HandlerOK
<1>3. QED
  BY <1>1, <1>2, WriterFails

LEMMA IdxNat == \A i \in Idx : i \in Nat /\ i # 0
<1>1. ASSUME NEW k \in SetName, NEW i \in DOMAIN TestsOf[k] PROVE i \in Nat /\ i # 0
  <2>1. DOMAIN TestsOf[k] = 1..Len(TestsOf[k]) /\ Len(TestsOf[k]) \in Nat
    BY TestsType
  <2>2. QED
    BY <2>1
<1>2. QED
  BY <1>1 DEF Idx

\* All tests are written once the next one is past the last.
LEMMA AllWritten ==
    ASSUME TypeInv, NEW t \in Thread, at[t].step = "write",
           at[t].next > Len(TestsOf[at[t].set]), Written(at[t].set, at[t].next)
    PROVE  /\ dir # NoDir
           /\ \A i \in Idx : dir[i] = IF i \in DOMAIN TestsOf[at[t].set]
                                      THEN Contents(at[t].set, i) ELSE Missing
<1>1. /\ at[t].set \in SetName /\ at[t].next \in Nat
      /\ at[t].next <= Len(TestsOf[at[t].set]) + 1
  BY NextTest
<1>2. /\ Len(TestsOf[at[t].set]) \in Nat
      /\ DOMAIN TestsOf[at[t].set] = 1..Len(TestsOf[at[t].set])
  BY <1>1, TestsType
<1>3. at[t].next = Len(TestsOf[at[t].set]) + 1
  BY <1>1, <1>2
<1>4. \A i \in Idx : i < at[t].next <=> i \in DOMAIN TestsOf[at[t].set]
  BY <1>2, <1>3, IdxNat
<1>5. QED
  BY <1>4 DEF Written

LEMMA PlaceWrite ==
    ASSUME TypeInv, PlaceInv, NEW t \in Thread, WriteFiles(t)
    PROVE  PlaceInv'
<1>1. /\ at[t].step = "write" /\ UNCHANGED <<slug, tests, origin>>
      /\ at[t].next <= Len(TestsOf[at[t].set])
  BY DEF WriteFiles, At, database
<1>2. at[t] \in Request /\ Writing(t) /\ at[t].op # "bulk" /\ at[t].op # "none"
  BY <1>1, Bulk, HandlerKept DEF HandlerOK
<1>3. CASE dir = NoDir
  BY <1>1, <1>2, <1>3, WriterFails DEF WriteFiles
<1>4. CASE dir # NoDir
  <2> DEFINE h == [at[t] EXCEPT !.next = @ + 1]
  <2>1. /\ dir' = [dir EXCEPT ![at[t].next] = Contents(at[t].set, at[t].next)]
        /\ at' = [at EXCEPT ![t] = h] /\ torn' = torn
    BY <1>4 DEF WriteFiles
  <2>2. at[t].next \in Nat \ {0} /\ at[t].next \in Idx
    BY <1>1, NextTest
  <2>3. /\ h \in Request /\ h.step = "write" /\ h.op = at[t].op /\ h.alone = at[t].alone
        /\ h.made = at[t].made /\ h.set = at[t].set /\ h.next = at[t].next + 1
    BY <1>1, <1>2, <2>2 DEF Request
  <2>4. at'[t] = h
    BY <2>1 DEF TypeInv, HandlersOK
  <2> HIDE DEF h
  <2>5. ASSUME at[t].alone PROVE AloneOK(t)'
    <3>1. AloneOK(t)
      BY <1>2, <2>5 DEF PlaceInv, AloneInv
    <3>2. Written(at[t].set, at[t].next)
      BY <1>1, <3>1 DEF AloneOK
    <3>3. DOMAIN dir = Idx
      BY <1>4 DEF TypeInv, DirOK
    <3>4. dir' # NoDir
      BY <2>1, <2>2, <3>3 DEF NoDir
    <3>5. ASSUME NEW i \in Idx
          PROVE  dir'[i] = IF i < at[t].next + 1 THEN Contents(at[t].set, i) ELSE Missing
      <4>1. CASE i = at[t].next
        BY <2>1, <2>2, <3>3, <4>1
      <4>2. CASE i # at[t].next
        <5>1. dir'[i] = IF i < at[t].next THEN Contents(at[t].set, i) ELSE Missing
          BY <2>1, <3>2, <4>2 DEF Written
        <5>2. i < at[t].next <=> i < at[t].next + 1
          BY <2>2, <4>2, IdxNat
        <5>3. QED
          BY <5>1, <5>2
      <4>3. QED
        BY <4>1, <4>2
    <3>6. at[t].op = "express" => slug = at[t].made
      BY <1>1, <3>1 DEF AloneOK
    <3>7. QED
      BY <1>1, <2>3, <2>4, <3>4, <3>5, <3>6 DEF AloneOK, Written
  <2>6. h.step # "idle" /\ h.step \notin Early /\ h.op # "bulk"
    BY <1>2, <2>3 DEF Early
  <2>7. QED
    BY <1>2, <2>1, <2>3, <2>5, <2>6, WriterGoesOn
<1>5. QED
  BY <1>3, <1>4

LEMMA PlaceWriteFails ==
    ASSUME TypeInv, PlaceInv, NEW t \in Thread, WriteFails(t)
    PROVE  PlaceInv'
<1>1. /\ at[t].step = "write" /\ UNCHANGED <<slug, tests, origin, dir>> /\ Fails(t, TRUE)
  BY DEF WriteFails, At, database
<1>2. Writing(t)
  BY <1>1, Bulk
<1>3. QED
  BY <1>1, <1>2, WriterFails

\* A writer that comes to its end heals the directory, or was not alone.
LEMMA WriterHeals ==
    ASSUME TypeInv, PlaceInv, NEW t \in Thread, Writing(t), Ends(t), Heals(t),
           AloneOK(t) => DirWhole'
    PROVE  PlaceInv'
<1>1. at[t].alone \in BOOLEAN /\ torn \in BOOLEAN
  BY Bulk, CountsKept DEF Writing
<1>2. ~torn' => at[t].alone
  BY <1>1 DEF Heals, PlaceInv, TornInv
<1>3. ~torn' => DirWhole'
  BY <1>2 DEF PlaceInv, AloneInv
<1>4. QED
  BY <1>2, <1>3, WriterEnds

LEMMA PlaceCommit ==
    ASSUME TypeInv, PlaceInv, NEW t \in Thread, CommitTests(t)
    PROVE  PlaceInv'
<1>1. /\ at[t].step = "write" /\ UNCHANGED <<slug, dir>>
      /\ at[t].next > Len(TestsOf[at[t].set])
  BY DEF CommitTests, At
<1>2. at[t] \in Request /\ Writing(t)
  BY <1>1, Bulk
<1>3. CASE slug # at[t].problem
  BY <1>1, <1>2, <1>3, WriterFails DEF CommitTests
<1>4. CASE slug = at[t].problem
  <2>1. /\ tests' = TestsOf[at[t].set] /\ origin' = at[t].set /\ TestsOf[at[t].set] # <<>>
        /\ IF at[t].op = "express" THEN Goes(t, "lookup") /\ UNCHANGED torn
           ELSE Ends(t) /\ Heals(t)
    BY <1>1, <1>4, NextTest DEF CommitTests
  <2>2. AloneOK(t) => DirWhole'
    BY <1>1, <2>1, AllWritten DEF AloneOK, DirWhole
  <2>3. CASE at[t].op = "express"
    <3> DEFINE h == [at[t] EXCEPT !.step = "lookup"]
    <3>1. at' = [at EXCEPT ![t] = h] /\ torn' = torn
      BY <2>1, <2>3 DEF Goes
    <3>2. /\ h \in Request /\ h.step = "lookup" /\ h.op = "express" /\ h.alone = at[t].alone
          /\ h.made = at[t].made
      BY <1>2, <2>3 DEF Request, Steps
    <3>3. at'[t] = h
      BY <3>1 DEF TypeInv, HandlersOK
    <3> HIDE DEF h
    <3>4. ASSUME at[t].alone PROVE AloneOK(t)'
      <4>1. AloneOK(t)
        BY <1>2, <3>4 DEF PlaceInv, AloneInv
      <4>2. slug = at[t].made
        BY <1>1, <2>3, <4>1 DEF AloneOK
      <4>3. QED
        BY <1>1, <2>1, <2>2, <3>2, <3>3, <4>1, <4>2 DEF AloneOK
    <3>5. QED
      BY <1>2, <3>1, <3>2, <3>4, WriterGoesOn DEF Early
  <2>4. CASE at[t].op # "express"
    BY <1>2, <2>1, <2>2, <2>4, WriterHeals
  <2>5. QED
    BY <2>3, <2>4
<1>5. QED
  BY <1>3, <1>4

LEMMA PlaceLookup ==
    ASSUME TypeInv, PlaceInv, NEW t \in Thread, Lookup(t)
    PROVE  PlaceInv'
<1>1. at[t].step = "lookup" /\ UNCHANGED <<slug, tests, origin, dir>>
  BY DEF Lookup, At, database
<1>2. at[t] \in Request /\ Writing(t) /\ at[t].op = "express"
  BY <1>1, Bulk, HandlerKept DEF HandlerOK, Request
<1>3. CASE slug = NoId
  BY <1>1, <1>2, <1>3, WriterFails DEF Lookup
<1>4. CASE slug # NoId
  <2> DEFINE h == [at[t] EXCEPT !.step = "queue", !.problem = slug]
  <2>1. at' = [at EXCEPT ![t] = h] /\ torn' = torn
    BY <1>4 DEF Lookup
  <2>2. slug \in Nat
    BY DEF TypeInv, RowsOK
  <2>3. /\ h \in Request /\ h.step = "queue" /\ h.op = "express" /\ h.alone = at[t].alone
        /\ h.made = at[t].made
    BY <1>2, <2>2 DEF Request, Steps
  <2>4. at'[t] = h
    BY <2>1 DEF TypeInv, HandlersOK
  <2> HIDE DEF h
  <2>5. ASSUME at[t].alone PROVE AloneOK(t)'
    <3>1. AloneOK(t)
      BY <1>2, <2>5 DEF PlaceInv, AloneInv
    <3>2. QED
      BY <1>1, <1>2, <2>3, <2>4, <3>1 DEF AloneOK, DirWhole
  <2>6. QED
    BY <1>2, <2>1, <2>3, <2>5, WriterGoesOn DEF Early
<1>5. QED
  BY <1>3, <1>4

\* At the step `queue' there is an express_create, or a bulk_submit.
LEMMA Queueing ==
    ASSUME TypeInv, NEW t \in Thread, at[t].step = "queue"
    PROVE  /\ at[t] \in Request /\ at[t].op \in {"bulk", "express"}
           /\ Writing(t) <=> at[t].op = "express"
<1>1. at[t] \in Request /\ (Writing(t) <=> at[t].op # "bulk") /\ HandlerOK(at[t], lastId)
  BY Bulk, HandlerKept
<1>2. QED
  BY <1>1 DEF HandlerOK, Request

LEMMA PlaceQueueStops ==
    ASSUME TypeInv, PlaceInv, NEW t \in Thread, at[t].step = "queue", Fails(t, FALSE),
           UNCHANGED <<slug, tests, origin, dir>>
    PROVE  PlaceInv'
<1>1. CASE at[t].op = "express"
  BY <1>1, Queueing, WriterFails
<1>2. CASE at[t].op # "express"
  <2>1. Ends(t) /\ torn' = torn /\ ~Writing(t)
    BY <1>2, Queueing, CountsKept DEF Fails
  <2>2. QED
    BY <2>1, OtherEnds
<1>3. QED
  BY <1>1, <1>2

LEMMA PlaceQueueSource ==
    ASSUME TypeInv, PlaceInv, NEW t \in Thread, QueueSource(t)
    PROVE  PlaceInv'
<1>1. at[t].step = "queue" /\ UNCHANGED <<slug, tests, origin, dir>>
  BY DEF QueueSource, At
<1>2. CASE slug # at[t].problem
  BY <1>1, <1>2, PlaceQueueStops DEF QueueSource
<1>3. CASE slug = at[t].problem
  <2> DEFINE h == [at[t] EXCEPT !.left = Tail(@), !.queued = @ + 1]
  <2>1. at' = [at EXCEPT ![t] = h] /\ torn' = torn
    BY <1>3 DEF QueueSource
  <2>2. at'[t] = h
    BY <2>1 DEF TypeInv, HandlersOK
  <2>3. /\ h.step = "queue" /\ h.op = at[t].op /\ h.alone = at[t].alone
        /\ h.made = at[t].made
    BY <1>1, Queueing DEF Request
  <2>4. HandlersOK'
    BY TypeQueueSource DEF TypeInv
  <2>5. h \in Request
    BY <2>2, <2>4 DEF HandlersOK
  <2> HIDE DEF h
  <2>6. CASE at[t].op = "express"
    <3>1. Writing(t)
      BY <1>1, <2>6, Queueing
    <3>2. ASSUME at[t].alone PROVE AloneOK(t)'
      <4>1. AloneOK(t)
        BY <3>1, <3>2 DEF PlaceInv, AloneInv
      <4>2. QED
        BY <1>1, <2>2, <2>3, <4>1 DEF AloneOK, DirWhole
    <3>3. QED
      BY <2>1, <2>3, <2>5, <2>6, <3>1, <3>2, WriterGoesOn DEF Early
  <2>7. CASE at[t].op # "express"
    <3>1. ~Writing(t) /\ at[t].op = "bulk"
      BY <1>1, <2>7, Queueing
    <3>2. ~Writing(t)'
      BY <2>2, <2>3, <3>1 DEF Writing
    <3>3. QED
      BY <1>1, <2>1, <3>1, <3>2, OtherStep
  <2>8. QED
    BY <2>6, <2>7
<1>4. QED
  BY <1>2, <1>3

LEMMA PlaceQueueFails ==
    ASSUME TypeInv, PlaceInv, NEW t \in Thread, QueueFails(t)
    PROVE  PlaceInv'
<1>1. /\ at[t].step \in {"lookup", "queue"} /\ Fails(t, FALSE)
      /\ UNCHANGED <<slug, tests, origin, dir>>
  BY DEF QueueFails, At, database
<1>2. CASE at[t].step = "queue"
  BY <1>1, <1>2, PlaceQueueStops
<1>3. CASE at[t].step = "lookup"
  <2>1. at[t].op = "express" /\ Writing(t)
    BY <1>3, Bulk, HandlerKept DEF HandlerOK, Request
  <2>2. QED
    BY <1>1, <1>3, <2>1, WriterFails
<1>4. QED
  BY <1>1, <1>2, <1>3

LEMMA PlaceQueued ==
    ASSUME TypeInv, PlaceInv, NEW t \in Thread, Queued(t)
    PROVE  PlaceInv'
<1>1. at[t].step = "queue" /\ UNCHANGED <<slug, tests, origin, dir>>
  BY DEF Queued, At, database
<1>2. CASE Worthless(t)
  <2>1. Fails(t, FALSE)
    BY <1>2 DEF Queued, Worthless, Fails
  <2>2. QED
    BY <1>1, <2>1, PlaceQueueStops
<1>3. CASE ~Worthless(t) /\ at[t].op = "express"
  <2>1. Ends(t) /\ Heals(t) /\ Writing(t)
    BY <1>1, <1>3, Queueing DEF Queued
  <2>2. AloneOK(t) => DirWhole'
    BY <1>1 DEF AloneOK, DirWhole
  <2>3. QED
    BY <2>1, <2>2, WriterHeals
<1>4. CASE ~Worthless(t) /\ at[t].op # "express"
  <2>1. Ends(t) /\ torn' = torn /\ ~Writing(t)
    BY <1>1, <1>4, Queueing DEF Queued
  <2>2. QED
    BY <1>1, <2>1, OtherEnds
<1>5. QED
  BY <1>2, <1>3, <1>4

LEMMA PlaceRowGone ==
    ASSUME TypeInv, PlaceInv, NEW t \in Thread, at[t].step \in {"row", "undo"}, NEW id,
           DeleteRow(id), Goes(t, "files"), UNCHANGED <<dir, torn>>,
           AloneOK(t) => slug = id
    PROVE  PlaceInv'
<1>1. at[t] \in Request /\ Writing(t)
  BY Bulk
<1> DEFINE h == [at[t] EXCEPT !.step = "files"]
<1>2. at' = [at EXCEPT ![t] = h]
  BY DEF Goes
<1>3. h \in Request /\ h.step = "files" /\ h.op = at[t].op /\ h.alone = at[t].alone
  BY <1>1 DEF Request, Steps
<1>4. at'[t] = h
  BY <1>2 DEF TypeInv, HandlersOK
<1> HIDE DEF h
<1>5. ASSUME at[t].alone PROVE AloneOK(t)'
  <2>1. slug = id
    BY <1>1, <1>5 DEF PlaceInv, AloneInv
  <2>2. tests' = <<>>
    BY <2>1, RowDeleted
  <2>3. QED
    BY <1>3, <1>4, <2>2 DEF AloneOK
<1>6. h.step # "idle" /\ h.step \notin Early /\ h.op # "bulk"
  BY <1>1, <1>3, Bulk DEF Early
<1>7. QED
  BY <1>1, <1>2, <1>3, <1>5, <1>6, WriterGoesOn

LEMMA PlaceUndo ==
    ASSUME TypeInv, PlaceInv, NEW t \in Thread, Undo(t)
    PROVE  PlaceInv'
<1>1. /\ at[t].step = "undo" /\ DeleteRow(at[t].made) /\ Goes(t, "files")
      /\ UNCHANGED <<dir, torn>>
  BY DEF Undo, At
<1>2. at[t].op = "express"
  BY <1>1, HandlerKept DEF HandlerOK, Request
<1>3. AloneOK(t) => slug = at[t].made
  BY <1>1, <1>2 DEF AloneOK
<1>4. QED
  BY <1>1, <1>3, PlaceRowGone

LEMMA PlaceDeleteProblem ==
    ASSUME TypeInv, PlaceInv, NEW t \in Thread, DeleteProblem(t)
    PROVE  PlaceInv'
<1>1. /\ at[t].step = "row" /\ DeleteRow(at[t].problem) /\ Goes(t, "files")
      /\ UNCHANGED <<dir, torn>>
  BY DEF DeleteProblem, At
<1>2. AloneOK(t) => slug = at[t].problem
  BY <1>1 DEF AloneOK
<1>3. QED
  BY <1>1, <1>2, PlaceRowGone

LEMMA PlaceDeleteFiles ==
    ASSUME TypeInv, PlaceInv, NEW t \in Thread, DeleteFiles(t)
    PROVE  PlaceInv'
<1>1. at[t].step = "files" /\ dir' = NoDir /\ Ends(t) /\ Heals(t) /\ tests' = tests
  BY DEF DeleteFiles, At, database
<1>2. Writing(t)
  BY <1>1, Bulk, HandlerKept DEF HandlerOK
<1>3. AloneOK(t) => DirWhole'
  BY <1>1 DEF AloneOK, DirWhole
<1>4. QED
  BY <1>1, <1>2, <1>3, WriterHeals

\* A handler that ends while files may be left counts as torn; a DELETE that fails has
\* changed nothing.
LEMMA PlaceUndoFails ==
    ASSUME TypeInv, PlaceInv, NEW t \in Thread, UndoFails(t)
    PROVE  PlaceInv'
<1>1. at[t].step = "undo" /\ Ends(t) /\ torn' = TRUE
  BY DEF UndoFails, At
<1>2. Writing(t)
  BY <1>1, Bulk, HandlerKept DEF HandlerOK
<1>3. QED
  BY <1>1, <1>2, WriterEnds

LEMMA PlaceFilesStay ==
    ASSUME TypeInv, PlaceInv, NEW t \in Thread, FilesStay(t)
    PROVE  PlaceInv'
<1>1. at[t].step = "files" /\ Ends(t) /\ torn' = TRUE
  BY DEF FilesStay, At
<1>2. Writing(t)
  BY <1>1, Bulk, HandlerKept DEF HandlerOK
<1>3. QED
  BY <1>1, <1>2, WriterEnds

LEMMA PlaceDeleteFails ==
    ASSUME TypeInv, PlaceInv, NEW t \in Thread, DeleteFails(t)
    PROVE  PlaceInv'
<1>1. at[t].step = "row" /\ Ends(t) /\ UNCHANGED <<dir, tests, origin, torn>>
  BY DEF DeleteFails, At, database
<1>2. Writing(t)
  BY <1>1, Bulk, HandlerKept DEF HandlerOK
<1>3. QED
  BY <1>1, <1>2, EarlyEnds DEF Early

\* A stop ends all handlers, and whatever was in progress counts as torn.
LEMMA PlaceStop ==
    ASSUME TypeInv, PlaceInv, Stop
    PROVE  PlaceInv'
<1>1. /\ UNCHANGED <<dir, tests, origin>> /\ at' = [t \in Thread |-> Idle]
      /\ torn' = (torn \/ Writers # {})
  BY DEF Stop
<1>2. \A t \in Thread : ~Writing(t)'
  BY <1>1 DEF Writing, Idle
<1>3. ASSUME ~torn' PROVE DirWhole'
  <2>1. ~torn /\ \A t \in Thread : ~Writing(t)
    BY <1>1, <1>3 DEF Writers
  <2>2. DirWhole
    BY <2>1 DEF PlaceInv, WholeInv
  <2>3. QED
    BY <1>1, <2>2 DEF DirWhole
<1>4. QED
  BY <1>2, <1>3 DEF PlaceInv, AloneInv, TornInv, WholeInv

LEMMA PlaceStep ==
    ASSUME TypeInv, PlaceInv, [Next]_vars
    PROVE  PlaceInv'
<1>1. ASSUME NEW t \in Thread, RequestStep(t) PROVE PlaceInv'
  BY <1>1, PlaceCreate, PlaceDelete, PlaceReplace, PlaceUpload, PlaceBulk, PlaceExpress,
     PlaceResume, PlaceResumeBulk, PlaceClear, PlaceClearFails, PlaceWrite, PlaceWriteFails,
     PlaceCommit, PlaceLookup, PlaceQueueSource, PlaceQueueFails, PlaceQueued, PlaceUndo,
     PlaceUndoFails, PlaceDeleteProblem, PlaceDeleteFails, PlaceDeleteFiles, PlaceFilesStay
     DEF RequestStep
<1>2. ASSUME JudgeStep \/ UNCHANGED vars PROVE PlaceInv'
  <2>1. UNCHANGED <<slug, tests, origin, dir, at, torn>>
    BY <1>2 DEF JudgeStep, LoadTests, LoadShares, ReadInput, ReadAnswer, TestBreaks, Returns,
                Raises, Store, vars, database
  <2>2. QED
    BY <2>1, NobodyWrites DEF Writing
<1>3. QED
  BY <1>1, <1>2, PlaceStop DEF Next

LEMMA PlaceAlways == Spec => [](TypeInv /\ PlaceInv)
<1>1. Init => TypeInv /\ PlaceInv
  <2>1. ASSUME Init PROVE \A t \in Thread : ~Writing(t)
    BY <2>1 DEF Init, Writing, Idle
  <2>2. ASSUME Init PROVE DirWhole
    BY <2>2 DEF Init, DirWhole
  <2>3. QED
    BY <2>1, <2>2, TypeStart DEF PlaceInv, AloneInv, TornInv, WholeInv
<1>2. TypeInv /\ PlaceInv /\ [Next]_vars => (TypeInv /\ PlaceInv)'
  BY TypeStep, PlaceStep
<1>3. QED
  BY <1>1, <1>2, PTL DEF Spec

\* InPlace: once nobody is changing the test set, and unless changes of it overlapped or
\* stopped half-way, the directory of the slug holds the files of the rows and no others,
\* whatever was uploaded, replaced, taken back and deleted before.
THEOREM FilesInPlace == Spec => []InPlace
<1>1. TypeInv /\ PlaceInv => InPlace
  BY DEF PlaceInv, WholeInv, DirWhole, InPlace, Writers
<1>2. QED
  BY <1>1, PlaceAlways, PTL
----------------------------------------------------------------------------
(* What a package leaves. *)

\* The problem stays, with its tests and submissions, and handlers do what they may.
LEMMA PackageKeeps ==
    ASSUME TypeInv, PackageInv, UNCHANGED <<slug, accepted>>,
           tests' = tests \/ tests' # <<>>, DOMAIN subs \subseteq DOMAIN subs',
           \A s \in DOMAIN subs : subs'[s].problem = subs[s].problem,
           \A u \in Thread : ExpressOK(u) => ExpressOK(u)'
    PROVE  PackageInv'
  BY DEF PackageInv

\* A handler that is where it was, with what it had.
LEMMA ExpressStays ==
    ASSUME NEW u \in Thread, ExpressOK(u), slug' = slug,
           tests' = tests \/ tests' # <<>>, DOMAIN subs \subseteq DOMAIN subs',
           \A s \in DOMAIN subs : subs'[s].problem = subs[s].problem,
           at'[u].op = at[u].op, at'[u].step = at[u].step, at'[u].made = at[u].made,
           at'[u].queued = at[u].queued
    PROVE  ExpressOK(u)'
  BY DEF ExpressOK

LEMMA PackageMoves ==
    ASSUME TypeInv, PackageInv, UNCHANGED <<slug, accepted>>,
           tests' = tests \/ tests' # <<>>, DOMAIN subs \subseteq DOMAIN subs',
           \A s \in DOMAIN subs : subs'[s].problem = subs[s].problem,
           NEW t \in Thread, NEW h, at' = [at EXCEPT ![t] = h], ExpressOK(t)'
    PROVE  PackageInv'
<1>1. ASSUME NEW u \in Thread, u # t, ExpressOK(u) PROVE ExpressOK(u)'
  <2>1. at'[u] = at[u]
    BY <1>1 DEF TypeInv, HandlersOK
  <2>2. QED
    BY <1>1, <2>1, ExpressStays
<1>2. QED
  BY <1>1, PackageKeeps

LEMMA PackageEnds ==
    ASSUME TypeInv, PackageInv, UNCHANGED <<slug, accepted>>,
           tests' = tests \/ tests' # <<>>, DOMAIN subs \subseteq DOMAIN subs',
           \A s \in DOMAIN subs : subs'[s].problem = subs[s].problem,
           NEW t \in Thread, Ends(t)
    PROVE  PackageInv'
<1>1. at' = [at EXCEPT ![t] = Idle] /\ at'[t] = Idle
  BY DEF Ends, TypeInv, HandlersOK
<1>2. ExpressOK(t)'
  BY <1>1 DEF ExpressOK, Idle
<1>3. QED
  BY <1>1, <1>2, PackageMoves

\* A handler that goes on to its next step.
LEMMA PackageGoes ==
    ASSUME TypeInv, PackageInv, UNCHANGED <<slug, accepted>>,
           tests' = tests \/ tests' # <<>>, DOMAIN subs \subseteq DOMAIN subs',
           \A s \in DOMAIN subs : subs'[s].problem = subs[s].problem,
           NEW t \in Thread, NEW step \in Steps, Goes(t, step),
           \/ step = "undo"
           \/ step = "queue" /\ at[t].op = "bulk"
           \/ step \in {"clear", "write"} /\ at[t].step \in {"await", "clear"}
           \/ step = "lookup" /\ at[t].step = "write" /\ tests' # <<>>
    PROVE  PackageInv'
<1> DEFINE h == [at[t] EXCEPT !.step = step]
<1>1. at' = [at EXCEPT ![t] = h] /\ at'[t] = h
  BY DEF Goes, TypeInv, HandlersOK
<1>2. h.step = step /\ h.op = at[t].op /\ h.made = at[t].made /\ h.queued = at[t].queued
  BY HandlerKept DEF Request
<1> HIDE DEF h
<1>3. ExpressOK(t)
  BY DEF PackageInv
<1>4. ExpressOK(t)'
  BY <1>1, <1>2, <1>3 DEF ExpressOK
<1>5. QED
  BY <1>1, <1>4, PackageMoves

LEMMA PackageFails ==
    ASSUME TypeInv, PackageInv, UNCHANGED <<slug, tests, subs, accepted>>,
           NEW t \in Thread, NEW leaves, Fails(t, leaves)
    PROVE  PackageInv'
<1>1. "undo" \in Steps
  BY DEF Steps
<1>2. QED
  BY <1>1, PackageEnds, PackageGoes DEF Fails

\* A problem that is made anew is not accepted yet, and nobody's but its maker's.
LEMMA PackageFresh ==
    ASSUME TypeInv, PackageInv, slug' = lastId + 1, UNCHANGED <<tests, subs, accepted>>,
           \A u \in Thread :
               \/ /\ at'[u].op = at[u].op /\ at'[u].step = at[u].step
                  /\ at'[u].made = at[u].made /\ at'[u].queued = at[u].queued
               \/ at'[u].step = "clear" /\ at'[u].queued = 0
    PROVE  PackageInv'
<1>1. lastId \in Nat /\ lastId + 1 \notin 1..lastId
  BY DEF TypeInv, RowsOK
<1>2. slug' \notin accepted
  BY <1>1, CountsKept
<1>3. ASSUME NEW u \in Thread PROVE ExpressOK(u)'
  <2>1. at[u].op = "express" => at[u].made # slug'
    BY <1>1, HandlerKept DEF HandlerOK
  <2>2. ExpressOK(u)
    BY DEF PackageInv
  <2>3. QED
    BY <2>1, <2>2 DEF ExpressOK
<1>4. QED
  BY <1>2, <1>3 DEF PackageInv

\* A handler that begins leaves the others where they were.
LEMMA OthersStay ==
    ASSUME TypeInv, NEW t \in Thread, NEW h \in Request, Begins(t, h)
    PROVE  /\ at'[t].step = h.step /\ at'[t].op = h.op /\ at'[t].queued = h.queued
           /\ \A u \in Thread : u # t =>
                  at'[u].op = at[u].op /\ at'[u].step = at[u].step /\ at'[u].made = at[u].made
                      /\ at'[u].queued = at[u].queued
<1>1. PICK b \in BOOLEAN : b = (Writers = {})
  OBVIOUS
<1>2. at'[t] = [h EXCEPT !.alone = b]
  BY <1>1 DEF Begins
<1>3. ASSUME NEW u \in Thread, u # t
      PROVE  at'[u].op = at[u].op /\ at'[u].step = at[u].step /\ at'[u].made = at[u].made
                 /\ at'[u].queued = at[u].queued
  <2>1. at'[u] = at[u] \/ at'[u] = [at[u] EXCEPT !.alone = FALSE]
    BY <1>3 DEF Begins
  <2>2. at[u] \in Request
    BY HandlerKept
  <2>3. QED
    BY <2>1, <2>2 DEF Request
<1>4. QED
  BY <1>2, <1>3 DEF Request

LEMMA PackageBegins ==
    ASSUME TypeInv, PackageInv, NEW t \in Thread, NEW h \in Request, Begins(t, h),
           h.op # "express", h.queued = 0, UNCHANGED <<slug, tests, subs, accepted>>
    PROVE  PackageInv'
<1>1. ASSUME NEW u \in Thread, ExpressOK(u) PROVE ExpressOK(u)'
  <2>1. CASE u = t
    BY <2>1, OthersStay DEF ExpressOK
  <2>2. CASE u # t
    BY <1>1, <2>2, OthersStay, ExpressStays
  <2>3. QED
    BY <2>1, <2>2
<1>2. QED
  BY <1>1, PackageKeeps

\* The requests that find their problem first.
LEMMA Requested ==
    ASSUME TypeInv, NEW t \in Thread,
           \/ Delete(t)
           \/ \E k \in DOMAIN Inline : ReplaceTests(t, k)
           \/ UploadTests(t)
    PROVE  \E g \in Request : /\ g.op # "express" /\ g.queued = 0 /\ g.made = NoId /\ Begins(t, g)
                             /\ UNCHANGED <<slug, tests, subs, packaged, accepted, stranded>>
<1> DEFINE h(op, step, k) == Handler(op, step, slug, k, <<>>, NoId)
<1>1. ASSUME NEW op \in {"delete", "replace", "upload"}, NEW step \in Steps, NEW k \in Set
      PROVE  h(op, step, k) \in Request /\ h(op, step, k).op # "express"
                 /\ h(op, step, k).queued = 0 /\ h(op, step, k).made = NoId
  <2>1. slug \in Nat /\ NoId \in Nat /\ <<>> \in Seq(SUBSET Nat)
    BY EmptySeq DEF TypeInv, RowsOK, NoId
  <2>2. QED
    BY <2>1, HandlerType DEF Handler
<1>2. /\ NoSet \in Set /\ \A j \in DOMAIN Inline : <<j, 0>> \in Set
      /\ "row" \in Steps /\ "clear" \in Steps /\ "await" \in Steps
  BY DEF Set, SetName, Steps
<1>3. PICK op \in {"delete", "replace", "upload"}, step \in Steps, k \in Set :
          Begins(t, h(op, step, k)) /\ UNCHANGED <<slug, tests, subs, packaged, accepted, stranded>>
  <2>1. CASE Delete(t)
    BY <1>2, <2>1 DEF Delete, database, outcomes
  <2>2. CASE \E j \in DOMAIN Inline : ReplaceTests(t, j)
    <3>1. PICK j \in DOMAIN Inline : ReplaceTests(t, j)
      BY <2>2
    <3>2. PICK k \in Set : k = <<j, 0>>
      BY <1>2
    <3>3. QED
      BY <1>2, <3>1, <3>2 DEF ReplaceTests, database, outcomes
  <2>3. CASE UploadTests(t)
    BY <1>2, <2>3 DEF UploadTests, database, outcomes
  <2>4. QED
    BY <2>1, <2>2, <2>3
<1>4. QED
  <2> DEFINE g == h(op, step, k)
  <2>1. g \in Request /\ g.op # "express" /\ g.queued = 0 /\ g.made = NoId /\ Begins(t, g)
    BY <1>1, <1>3
  <2> HIDE DEF g
  <2>2. QED
    BY <1>3, <2>1

LEMMA PackageRequests ==
    ASSUME TypeInv, PackageInv, NEW t \in Thread,
           \/ Delete(t)
           \/ \E k \in DOMAIN Inline : ReplaceTests(t, k)
           \/ UploadTests(t)
    PROVE  PackageInv'
<1>1. PICK g \in Request : /\ g.op # "express" /\ g.queued = 0 /\ Begins(t, g)
                          /\ UNCHANGED <<slug, tests, subs, accepted>>
  BY Requested
<1>2. QED
  BY <1>1, PackageBegins

LEMMA PackageCreate ==
    ASSUME TypeInv, PackageInv, NEW t \in Thread, NEW some \in BOOLEAN, CreateProblem(t, some)
    PROVE  PackageInv'
<1>1. slug' = lastId + 1 /\ UNCHANGED <<tests, subs, accepted, at>>
  BY DEF CreateProblem, InsertRow, outcomes
<1>2. \A u \in Thread :
          at'[u].op = at[u].op /\ at'[u].step = at[u].step /\ at'[u].made = at[u].made
              /\ at'[u].queued = at[u].queued
  BY <1>1
<1>3. QED
  BY <1>1, <1>2, PackageFresh

LEMMA PackageExpress ==
    ASSUME TypeInv, PackageInv, NEW t \in Thread, NEW p \in Package, NEW some \in BOOLEAN,
           ExpressCreate(t, p, some)
    PROVE  PackageInv'
<1> DEFINE k == <<p.set, 0>>
           h == Handler("express", "clear", lastId + 1, k, p.sources, lastId + 1)
<1>1. lastId + 1 \in Nat /\ k \in Set /\ p.sources \in Seq(SUBSET Nat)
  BY PackageAssumption, Bounds DEF TypeInv, RowsOK, Set, SetName
<1>2. h \in Request /\ h.step = "clear" /\ h.queued = 0
  BY <1>1, HandlerType DEF Steps, Handler
<1> HIDE DEF h
<1>3. Begins(t, h) /\ slug' = lastId + 1 /\ UNCHANGED <<tests, subs, accepted>>
  BY DEF ExpressCreate, InsertRow, outcomes, h
<1>4. ASSUME NEW u \in Thread
      PROVE  \/ /\ at'[u].op = at[u].op /\ at'[u].step = at[u].step
                /\ at'[u].made = at[u].made /\ at'[u].queued = at[u].queued
             \/ at'[u].step = "clear" /\ at'[u].queued = 0
  BY <1>2, <1>3, OthersStay
<1>5. QED
  BY <1>3, <1>4, PackageFresh

LEMMA PackageBulk ==
    ASSUME TypeInv, PackageInv, NEW t \in Thread, BulkSubmit(t)
    PROVE  PackageInv'
<1> DEFINE h == Handler("bulk", "await", slug, NoSet, <<>>, NoId)
<1>1. h.op = "bulk" /\ h.queued = 0 /\ h.step = "await"
  BY DEF Handler
<1> HIDE DEF h
<1>2. at' = [at EXCEPT ![t] = h] /\ UNCHANGED <<slug, tests, subs, accepted>>
  BY DEF BulkSubmit, h, database, outcomes
<1>3. at'[t] = h
  BY <1>2 DEF TypeInv, HandlersOK
<1>4. ExpressOK(t)'
  BY <1>1, <1>3 DEF ExpressOK
<1>5. QED
  BY <1>2, <1>4, PackageMoves

LEMMA PackageResumeBulk ==
    ASSUME TypeInv, PackageInv, NEW t \in Thread, NEW sources, ResumeBulk(t, sources)
    PROVE  PackageInv'
<1> DEFINE h == [at[t] EXCEPT !.step = "queue", !.left = sources]
<1>1. at' = [at EXCEPT ![t] = h] /\ at[t].op = "bulk" /\ UNCHANGED <<slug, tests, subs, accepted>>
  BY DEF ResumeBulk, database, outcomes
<1>2. at'[t] = h /\ at[t] \in Request
  BY <1>1, HandlerKept DEF TypeInv, HandlersOK
<1>3. h.op = "bulk" /\ h.step = "queue"
  BY <1>1, <1>2 DEF Request
<1> HIDE DEF h
<1>4. ExpressOK(t)'
  BY <1>2, <1>3 DEF ExpressOK
<1>5. QED
  BY <1>1, <1>4, PackageMoves

LEMMA PackageResume ==
    ASSUME TypeInv, PackageInv, NEW t \in Thread, NEW a, NEW n, Resume(t, a, n)
    PROVE  PackageInv'
<1>1. /\ at[t].step = "await" /\ at[t].op = "upload" /\ UNCHANGED <<slug, tests, subs, accepted>>
  BY DEF Resume, At, database, outcomes
<1>2. CASE Parses(a)
  <2> DEFINE h == [at[t] EXCEPT !.step = "clear", !.set = <<a, n>>]
  <2>1. at' = [at EXCEPT ![t] = h]
    BY <1>2 DEF Resume
  <2>2. at'[t] = h /\ at[t] \in Request
    BY <2>1, HandlerKept DEF TypeInv, HandlersOK
  <2>3. h.op = "upload" /\ h.step = "clear" /\ h.queued = at[t].queued
    BY <1>1, <2>2 DEF Request
  <2> HIDE DEF h
  <2>4. ExpressOK(t)'
    BY <1>1, <2>2, <2>3 DEF ExpressOK, PackageInv
  <2>5. QED
    BY <1>1, <2>1, <2>4, PackageMoves
<1>3. CASE ~Parses(a)
  BY <1>1, <1>3, PackageEnds DEF Resume
<1>4. QED
  BY <1>2, <1>3

LEMMA PackageClear ==
    ASSUME TypeInv, PackageInv, NEW t \in Thread, ClearDirectory(t)
    PROVE  PackageInv'
<1>1. at[t].step = "clear" /\ UNCHANGED <<slug, tests, subs, accepted>>
      /\ Goes(t, "write") /\ "write" \in Steps
  BY DEF ClearDirectory, At, database, outcomes, Steps
<1>2. QED
  BY <1>1, PackageGoes

LEMMA PackageWrite ==
    ASSUME TypeInv, PackageInv, NEW t \in Thread, WriteFiles(t)
    PROVE  PackageInv'
<1>1. at[t].step = "write" /\ UNCHANGED <<slug, tests, subs, accepted>>
  BY DEF WriteFiles, At, database, outcomes
<1>2. CASE dir = NoDir
  BY <1>1, <1>2, PackageFails DEF WriteFiles
<1>3. CASE dir # NoDir
  <2> DEFINE h == [at[t] EXCEPT !.next = @ + 1]
  <2>1. at' = [at EXCEPT ![t] = h] /\ at'[t] = h
    BY <1>3 DEF WriteFiles, TypeInv, HandlersOK
  <2>2. h.step = at[t].step /\ h.op = at[t].op /\ h.made = at[t].made
        /\ h.queued = at[t].queued
    BY HandlerKept DEF Request
  <2> HIDE DEF h
  <2>3. ExpressOK(t)'
    BY <1>1, <2>1, <2>2, ExpressStays DEF PackageInv
  <2>4. QED
    BY <1>1, <2>1, <2>3, PackageMoves
<1>4. QED
  BY <1>2, <1>3

LEMMA PackageWriteFails ==
    ASSUME TypeInv, PackageInv, NEW t \in Thread, WriteFails(t)
    PROVE  PackageInv'
<1>1. Fails(t, TRUE) /\ UNCHANGED <<slug, tests, subs, accepted>>
  BY DEF WriteFails, database, outcomes
<1>2. QED
  BY <1>1, PackageFails

LEMMA PackageClearFails ==
    ASSUME TypeInv, PackageInv, NEW t \in Thread, ClearFails(t)
    PROVE  PackageInv'
<1>1. Fails(t, TRUE) /\ UNCHANGED <<slug, tests, subs, accepted>>
  BY DEF ClearFails, database, outcomes
<1>2. QED
  BY <1>1, PackageFails

LEMMA PackageCommit ==
    ASSUME TypeInv, PackageInv, NEW t \in Thread, CommitTests(t)
    PROVE  PackageInv'
<1>1. at[t].step = "write" /\ UNCHANGED <<slug, subs, accepted>>
      /\ "lookup" \in Steps
  BY DEF CommitTests, At, outcomes, Steps
<1>2. CASE slug # at[t].problem
  BY <1>1, <1>2, PackageFails DEF CommitTests
<1>3. CASE slug = at[t].problem
  <2>1. tests' # <<>>
    BY <1>1, <1>3, NextTest DEF CommitTests
  <2>2. Goes(t, "lookup") \/ Ends(t)
    BY <1>3 DEF CommitTests
  <2>3. QED
    BY <1>1, <2>1, <2>2, PackageGoes, PackageEnds
<1>4. QED
  BY <1>2, <1>3

LEMMA PackageLookup ==
    ASSUME TypeInv, PackageInv, NEW t \in Thread, Lookup(t)
    PROVE  PackageInv'
<1>1. at[t].step = "lookup" /\ UNCHANGED <<slug, tests, subs, accepted>>
  BY DEF Lookup, At, database, outcomes
<1>2. CASE slug = NoId
  BY <1>1, <1>2, PackageFails DEF Lookup
<1>3. CASE slug # NoId
  <2> DEFINE h == [at[t] EXCEPT !.step = "queue", !.problem = slug]
  <2>1. at' = [at EXCEPT ![t] = h] /\ at'[t] = h
    BY <1>3 DEF Lookup, TypeInv, HandlersOK
  <2>2. h.step = "queue" /\ h.op = at[t].op /\ h.made = at[t].made
        /\ h.queued = at[t].queued
    BY HandlerKept DEF Request
  <2> HIDE DEF h
  <2>3. ExpressOK(t)'
    BY <1>1, <2>1, <2>2 DEF PackageInv, ExpressOK
  <2>4. QED
    BY <1>1, <2>1, <2>3, PackageMoves
<1>4. QED
  BY <1>2, <1>3

LEMMA PackageQueueSource ==
    ASSUME TypeInv, PackageInv, NEW t \in Thread, QueueSource(t)
    PROVE  PackageInv'
<1>1. at[t].step = "queue" /\ UNCHANGED <<slug, tests, accepted>>
  BY DEF QueueSource, At, outcomes
<1>2. CASE slug # at[t].problem
  BY <1>1, <1>2, PackageFails DEF QueueSource
<1>3. CASE slug = at[t].problem
  <2> DEFINE h == [at[t] EXCEPT !.left = Tail(@), !.queued = @ + 1]
  <2>1. at' = [at EXCEPT ![t] = h] /\ at'[t] = h
    BY <1>3 DEF QueueSource, TypeInv, HandlersOK
  <2>2. h.step = at[t].step /\ h.op = at[t].op /\ h.made = at[t].made
    BY HandlerKept DEF Request
  <2> HIDE DEF h
  <2>3. /\ DOMAIN subs \subseteq DOMAIN subs'
        /\ \A s \in DOMAIN subs : subs'[s] = subs[s]
        /\ \E s \in DOMAIN subs' : subs'[s].problem = slug
    BY <1>3, Queues
  <2>4. ExpressOK(t)'
    BY <1>1, <2>1, <2>2, <2>3 DEF PackageInv, ExpressOK
  <2>5. QED
    BY <1>1, <2>1, <2>3, <2>4, PackageMoves
<1>4. QED
  BY <1>2, <1>3

LEMMA PackageQueueFails ==
    ASSUME TypeInv, PackageInv, NEW t \in Thread, QueueFails(t)
    PROVE  PackageInv'
<1>1. Fails(t, FALSE) /\ UNCHANGED <<slug, tests, subs, accepted>>
  BY DEF QueueFails, database, outcomes
<1>2. QED
  BY <1>1, PackageFails

LEMMA PackageQueued ==
    ASSUME TypeInv, PackageInv, NEW t \in Thread, Queued(t)
    PROVE  PackageInv'
<1>1. at[t].step = "queue" /\ UNCHANGED <<slug, tests, subs>> /\ "undo" \in Steps
  BY DEF Queued, At, database, Steps
<1>2. CASE accepted' = accepted
  <2>1. Goes(t, "undo") \/ Ends(t)
    BY DEF Queued
  <2>2. QED
    BY <1>1, <1>2, <2>1, PackageGoes, PackageEnds
<1>3. CASE accepted' # accepted
  <2>1. /\ Ends(t) /\ at[t].op = "express" /\ at[t].queued # 0
        /\ accepted' = accepted \cup {at[t].made}
    BY <1>3 DEF Queued, Worthless
  <2>2. ExpressOK(t) /\ at[t].queued \in Nat
    BY HandlerKept DEF PackageInv, Request
  <2>3. slug = at[t].made => tests # <<>> /\ \E s \in DOMAIN subs : subs[s].problem = slug
    BY <1>1, <2>1, <2>2 DEF ExpressOK
  <2>4. ASSUME NEW u \in Thread PROVE ExpressOK(u)'
    <3>1. at' = [at EXCEPT ![t] = Idle] /\ at \in [Thread -> Request]
      BY <2>1 DEF Ends, TypeInv, HandlersOK
    <3>2. CASE u = t
      BY <3>1, <3>2 DEF ExpressOK, Idle
    <3>3. CASE u # t
      BY <1>1, <3>1, <3>3 DEF PackageInv, ExpressOK
    <3>4. QED
      BY <3>2, <3>3
  <2>5. QED
    BY <1>1, <2>1, <2>3, <2>4 DEF PackageInv
<1>4. QED
  BY <1>2, <1>3

LEMMA PackageRowGone ==
    ASSUME TypeInv, PackageInv, NEW t \in Thread, NEW id, DeleteRow(id), Goes(t, "files"),
           accepted' = accepted, at[t].op = "express" => id = at[t].made
    PROVE  PackageInv'
<1>1. /\ slug' = IF slug = id THEN NoId ELSE slug
      /\ slug # id => tests' = tests
      /\ DOMAIN subs' = DOMAIN subs
      /\ \A s \in DOMAIN subs : slug # id => subs'[s] = subs[s]
  BY RowDeleted
<1>2. NoId \notin 1..lastId
  BY DEF NoId, TypeInv, RowsOK
<1>3. NoId \notin accepted'
  BY <1>2, CountsKept
<1>4. ASSUME NEW u \in Thread PROVE ExpressOK(u)'
  <2>1. at'[u].op = at[u].op /\ at'[u].made = at[u].made /\ at'[u].queued = at[u].queued
        /\ (at'[u].step = at[u].step \/ (at'[u].step = "files" /\ u = t))
    <3>1. at' = [at EXCEPT ![t].step = "files"] /\ at \in [Thread -> Request]
      BY DEF Goes, TypeInv, HandlersOK
    <3>2. QED
      BY <3>1 DEF Request
  <2>2. at[u].op = "express" => at[u].made # NoId
    BY <1>2, HandlerKept DEF HandlerOK
  <2>3. CASE slug = id
    BY <1>1, <2>1, <2>2, <2>3 DEF PackageInv, ExpressOK
  <2>4. CASE slug # id
    BY <1>1, <2>1, <2>4 DEF PackageInv, ExpressOK
  <2>5. QED
    BY <2>3, <2>4
<1>5. CASE slug = id
  BY <1>1, <1>3, <1>4, <1>5 DEF PackageInv
<1>6. CASE slug # id
  BY <1>1, <1>4, <1>6 DEF PackageInv
<1>7. QED
  BY <1>5, <1>6

LEMMA PackageDeletes ==
    ASSUME TypeInv, PackageInv, NEW t \in Thread, Undo(t) \/ DeleteProblem(t)
    PROVE  PackageInv'
<1>1. CASE Undo(t)
  BY <1>1, PackageRowGone DEF Undo, outcomes
<1>2. CASE DeleteProblem(t)
  <2>1. at[t].op # "express" /\ accepted' = accepted
    BY <1>2, HandlerKept DEF DeleteProblem, At, HandlerOK, outcomes
  <2>2. QED
    BY <1>2, <2>1, PackageRowGone DEF DeleteProblem
<1>3. QED
  BY <1>1, <1>2

LEMMA PackageEndings ==
    ASSUME TypeInv, PackageInv, NEW t \in Thread,
           DeleteFiles(t) \/ FilesStay(t) \/ UndoFails(t) \/ DeleteFails(t)
    PROVE  PackageInv'
<1>1. Ends(t) /\ UNCHANGED <<slug, tests, subs, accepted>>
  BY DEF DeleteFiles, FilesStay, UndoFails, DeleteFails, database, outcomes
<1>2. QED
  BY <1>1, PackageEnds

LEMMA PackageStop ==
    ASSUME TypeInv, PackageInv, Stop
    PROVE  PackageInv'
<1>1. at' = [t \in Thread |-> Idle] /\ UNCHANGED <<slug, tests, accepted>>
  BY DEF Stop
<1>2. DOMAIN subs' = DOMAIN subs /\ \A s \in DOMAIN subs : subs'[s].problem = subs[s].problem
  BY Stopped
<1>3. \A u \in Thread : ExpressOK(u)'
  BY <1>1 DEF ExpressOK, Idle
<1>4. QED
  BY <1>1, <1>2, <1>3, PackageKeeps

LEMMA PackageJudges ==
    ASSUME TypeInv, PackageInv, JudgeStep \/ UNCHANGED vars
    PROVE  PackageInv'
<1>1. UNCHANGED <<slug, tests, at, accepted>>
  BY DEF JudgeStep, LoadTests, LoadShares, ReadInput, ReadAnswer, TestBreaks, Returns, Raises,
         Store, vars, database, outcomes
<1>2. DOMAIN subs' = DOMAIN subs /\ \A s \in DOMAIN subs : subs'[s].problem = subs[s].problem
  <2>1. CASE \E s \in DOMAIN subs : LoadTests(s)
    <3>1. PICK s \in DOMAIN subs : LoadTests(s)
      BY <2>1
    <3>2. subs' = [subs EXCEPT ![s].state = "JUDGING"] /\ subs[s] \in Submission
      BY <3>1, LiveSub DEF LoadTests
    <3>3. QED
      BY <3>2 DEF Submission
  <2>2. CASE Store
    <3>1. CASE ~Live(run.sub)
      BY <2>2, <3>1 DEF Store
    <3>2. CASE Live(run.sub)
      <4>1. subs' = [subs EXCEPT ![run.sub] = Outcome(subs[run.sub])]
        BY <2>2, <3>2 DEF Store, Outcome
      <4>2. Outcome(subs[run.sub]).problem = subs[run.sub].problem
        BY <3>2, LiveSub, OutcomeOf
      <4>3. QED
        BY <4>1, <4>2
    <3>3. QED
      BY <3>1, <3>2
  <2>3. CASE ~(\E s \in DOMAIN subs : LoadTests(s)) /\ ~Store
    BY <2>3 DEF JudgeStep, LoadShares, ReadInput, ReadAnswer, TestBreaks, Returns, Raises, vars,
                database
  <2>4. QED
    BY <2>1, <2>2, <2>3 DEF JudgeStep
<1>3. QED
  BY <1>1, <1>2, ExpressStays, PackageKeeps

LEMMA PackageStep ==
    ASSUME TypeInv, PackageInv, [Next]_vars
    PROVE  PackageInv'
<1>1. ASSUME NEW t \in Thread, RequestStep(t) PROVE PackageInv'
  BY <1>1, PackageCreate, PackageRequests, PackageBulk, PackageExpress, PackageResume,
     PackageResumeBulk, PackageClear, PackageClearFails, PackageWrite, PackageWriteFails,
     PackageCommit, PackageLookup, PackageQueueSource, PackageQueueFails, PackageQueued,
     PackageDeletes, PackageEndings DEF RequestStep
<1>2. QED
  BY <1>1, PackageJudges, PackageStop DEF Next

\* Problems keep their makers, or lose them when the request has come to its end.
LEMMA HeldStays ==
    ASSUME HeldInv, packaged' = packaged, accepted \subseteq accepted', stranded \subseteq stranded',
           slug' = slug \/ slug' \notin packaged,
           \A u \in Thread : at'[u].made = at[u].made \/ at[u].made # slug
                                \/ slug \in accepted' \cup stranded'
    PROVE  HeldInv'
  BY DEF HeldInv

LEMMA NoPackage ==
    ASSUME TypeInv
    PROVE  NoId \notin packaged /\ lastId + 1 \notin packaged
<1>1. NoId \notin 1..lastId /\ lastId + 1 \notin 1..lastId
  BY DEF NoId, TypeInv, RowsOK
<1>2. QED
  BY <1>1, CountsKept

LEMMA HeldGoes ==
    ASSUME TypeInv, HeldInv, UNCHANGED <<packaged, accepted, stranded>>,
           slug' = slug \/ slug' = NoId,
           NEW t \in Thread, NEW h, at' = [at EXCEPT ![t] = h], h.made = at[t].made
    PROVE  HeldInv'
<1>1. \A u \in Thread : at'[u].made = at[u].made
  BY DEF TypeInv, HandlersOK
<1>2. QED
  BY <1>1, NoPackage, HeldStays

\* One that ends has made no problem, or the problem is gone, accepted or stranded.
LEMMA HeldEnds ==
    ASSUME TypeInv, HeldInv, packaged' = packaged, accepted \subseteq accepted',
           stranded \subseteq stranded', slug' = slug, NEW t \in Thread, Ends(t),
           \/ at[t].op # "express"
           \/ slug # at[t].made
           \/ at[t].made \in accepted' \cup stranded'
    PROVE  HeldInv'
<1>1. \A u \in Thread : u # t => at'[u].made = at[u].made
  BY DEF TypeInv, HandlersOK, Ends
<1>2. at[t].op # "express" => at[t].made = NoId
  BY HandlerKept DEF HandlerOK
<1>3. CASE at[t].made = NoId /\ slug = NoId
  BY <1>3, NoPackage DEF HeldInv
<1>4. CASE ~(at[t].made = NoId /\ slug = NoId)
  BY <1>1, <1>2, <1>4, HeldStays
<1>5. QED
  BY <1>3, <1>4

LEMMA HeldFails ==
    ASSUME TypeInv, HeldInv, UNCHANGED <<slug, packaged, accepted, stranded>>,
           NEW t \in Thread, NEW leaves, Fails(t, leaves)
    PROVE  HeldInv'
<1>1. CASE at[t].op = "express"
  <2> DEFINE h == [at[t] EXCEPT !.step = "undo"]
  <2>1. at' = [at EXCEPT ![t] = h] /\ h.made = at[t].made
    BY <1>1, HandlerKept DEF Fails, Goes, Request
  <2> HIDE DEF h
  <2>2. QED
    BY <2>1, HeldGoes
<1>2. CASE at[t].op # "express"
  BY <1>2, HeldEnds DEF Fails
<1>3. QED
  BY <1>1, <1>2

\* A request that begins has its thread to itself.
LEMMA HeldRequests ==
    ASSUME TypeInv, HeldInv, NEW t \in Thread,
           \/ Delete(t)
           \/ \E k \in DOMAIN Inline : ReplaceTests(t, k)
           \/ UploadTests(t)
    PROVE  HeldInv'
<1>1. PICK g \in Request : /\ g.made = NoId /\ Begins(t, g)
                          /\ UNCHANGED <<slug, packaged, accepted, stranded>>
  BY Requested
<1>2. at[t].step = "idle"
  BY Taking DEF Delete, ReplaceTests, UploadTests
<1>3. at[t].made = NoId
  BY <1>2, HandlerKept DEF HandlerOK
<1>4. \A u \in Thread : u # t => at'[u].made = at[u].made
  BY <1>1, OthersStay
<1>5. CASE slug = NoId
  BY <1>1, <1>5, NoPackage DEF HeldInv
<1>6. CASE slug # NoId
  BY <1>1, <1>3, <1>4, <1>6, HeldStays
<1>7. QED
  BY <1>5, <1>6

LEMMA HeldCreate ==
    ASSUME TypeInv, HeldInv, NEW t \in Thread, NEW some \in BOOLEAN, CreateProblem(t, some)
    PROVE  HeldInv'
<1>1. slug' = lastId + 1 /\ packaged' = packaged
  BY DEF CreateProblem, InsertRow, outcomes
<1>2. QED
  BY <1>1, NoPackage DEF HeldInv

LEMMA HeldExpress ==
    ASSUME TypeInv, HeldInv, NEW t \in Thread, NEW p \in Package, NEW some \in BOOLEAN,
           ExpressCreate(t, p, some)
    PROVE  HeldInv'
<1> DEFINE k == <<p.set, 0>>
           h == Handler("express", "clear", lastId + 1, k, p.sources, lastId + 1)
<1>1. lastId + 1 \in Nat /\ k \in Set /\ p.sources \in Seq(SUBSET Nat)
  BY PackageAssumption, Bounds DEF TypeInv, RowsOK, Set, SetName
<1>2. h \in Request /\ h.made = lastId + 1
  BY <1>1, HandlerType DEF Steps, Handler
<1> HIDE DEF h
<1>3. Begins(t, h) /\ slug' = lastId + 1
  BY DEF ExpressCreate, InsertRow, h
<1>4. at'[t] = [h EXCEPT !.alone = (Writers = {})]
  BY <1>3 DEF Begins
<1>5. at'[t].made = lastId + 1
  BY <1>2, <1>4 DEF Request
<1>6. QED
  BY <1>3, <1>5 DEF HeldInv

LEMMA HeldBulk ==
    ASSUME TypeInv, HeldInv, NEW t \in Thread, BulkSubmit(t)
    PROVE  HeldInv'
<1> DEFINE h == Handler("bulk", "await", slug, NoSet, <<>>, NoId)
<1>1. at' = [at EXCEPT ![t] = h] /\ UNCHANGED <<slug, packaged, accepted, stranded>>
  BY DEF BulkSubmit, database, outcomes
<1>2. h.made = at[t].made
  BY Taking, HandlerKept DEF BulkSubmit, Handler, HandlerOK
<1> HIDE DEF h
<1>3. QED
  BY <1>1, <1>2, HeldGoes

\* The steps in between keep what a handler has made.
LEMMA HeldSteps ==
    ASSUME TypeInv, HeldInv, NEW t \in Thread,
           \/ \E sources : ResumeBulk(t, sources)
           \/ \E a, n : Resume(t, a, n)
           \/ ClearDirectory(t) \/ WriteFiles(t) \/ CommitTests(t) \/ Lookup(t) \/ QueueSource(t)
           \/ Undo(t) \/ DeleteProblem(t)
    PROVE  HeldInv'
<1>1. UNCHANGED <<packaged, accepted, stranded>>
  BY DEF ResumeBulk, Resume, ClearDirectory, WriteFiles, CommitTests, Lookup, QueueSource, Undo,
         DeleteProblem, outcomes
<1>2. slug' = slug \/ slug' = NoId
  BY DEF ResumeBulk, Resume, ClearDirectory, WriteFiles, CommitTests, Lookup, QueueSource, Undo,
         DeleteProblem, DeleteRow, database
<1>3. \/ \E h : at' = [at EXCEPT ![t] = h] /\ h.made = at[t].made
      \/ Ends(t) /\ at[t].op # "express" /\ slug' = slug
      \/ slug' = slug /\ \E leaves \in BOOLEAN : Fails(t, leaves)
  <2>0. at[t] \in Request
    BY HandlerKept
  <2>1. CASE \E sources : ResumeBulk(t, sources)
    <3>1. PICK sources : ResumeBulk(t, sources)
      BY <2>1
    <3>2. PICK h : h = [at[t] EXCEPT !.step = "queue", !.left = sources]
      OBVIOUS
    <3>3. at' = [at EXCEPT ![t] = h] /\ h.made = at[t].made
      BY <2>0, <3>1, <3>2 DEF ResumeBulk, Request
    <3>4. QED
      BY <3>3
  <2>2. CASE \E a, n : Resume(t, a, n)
    <3>1. PICK a, n : Resume(t, a, n)
      BY <2>2
    <3>2. PICK h : h = [at[t] EXCEPT !.step = "clear", !.set = <<a, n>>]
      OBVIOUS
    <3>3. h.made = at[t].made /\ (Parses(a) => at' = [at EXCEPT ![t] = h])
      BY <2>0, <3>1, <3>2 DEF Resume, Request
    <3>4. ~Parses(a) => Ends(t) /\ at[t].op # "express" /\ slug' = slug
      BY <3>1 DEF Resume, database
    <3>5. QED
      BY <3>3, <3>4
  <2>3. ASSUME NEW step, Goes(t, step)
        PROVE  \E h : at' = [at EXCEPT ![t] = h] /\ h.made = at[t].made
    <3>1. PICK h : h = [at[t] EXCEPT !.step = step]
      OBVIOUS
    <3>2. at' = [at EXCEPT ![t] = h] /\ h.made = at[t].made
      BY <2>0, <2>3, <3>1 DEF Goes, Request
    <3>3. QED
      BY <3>2
  <2>4. CASE ClearDirectory(t) \/ Undo(t) \/ DeleteProblem(t)
    BY <2>3, <2>4 DEF ClearDirectory, Undo, DeleteProblem
  <2>5. CASE WriteFiles(t)
    <3>1. PICK h : h = [at[t] EXCEPT !.next = @ + 1]
      OBVIOUS
    <3>2. h.made = at[t].made
      BY <2>0, <3>1 DEF Request
    <3>3. (at' = [at EXCEPT ![t] = h]) \/ (Fails(t, TRUE) /\ slug' = slug)
      BY <2>5, <3>1 DEF WriteFiles, database
    <3>4. QED
      BY <3>2, <3>3
  <2>6. CASE CommitTests(t)
    <3>1. slug' = slug
      BY <2>6 DEF CommitTests
    <3>2. Fails(t, TRUE) \/ Goes(t, "lookup") \/ (Ends(t) /\ at[t].op # "express")
      BY <2>6 DEF CommitTests
    <3>3. QED
      BY <2>3, <3>1, <3>2
  <2>7. CASE Lookup(t)
    <3>1. PICK h : h = [at[t] EXCEPT !.step = "queue", !.problem = slug]
      OBVIOUS
    <3>2. h.made = at[t].made
      BY <2>0, <3>1 DEF Request
    <3>3. (at' = [at EXCEPT ![t] = h]) \/ (Fails(t, FALSE) /\ slug' = slug)
      BY <2>7, <3>1 DEF Lookup, database
    <3>4. QED
      BY <3>2, <3>3
  <2>8. CASE QueueSource(t)
    <3>1. PICK h : h = [at[t] EXCEPT !.left = Tail(@), !.queued = @ + 1]
      OBVIOUS
    <3>2. h.made = at[t].made
      BY <2>0, <3>1 DEF Request
    <3>3. (at' = [at EXCEPT ![t] = h]) \/ (Fails(t, FALSE) /\ slug' = slug)
      BY <2>8, <3>1 DEF QueueSource
    <3>4. QED
      BY <3>2, <3>3
  <2>9. QED
    BY <2>1, <2>2, <2>4, <2>5, <2>6, <2>7, <2>8
<1>4. QED
  BY <1>1, <1>2, <1>3, HeldGoes, HeldEnds, HeldFails

LEMMA HeldFailures ==
    ASSUME TypeInv, HeldInv, NEW t \in Thread, ClearFails(t) \/ WriteFails(t) \/ QueueFails(t)
    PROVE  HeldInv'
<1>1. Fails(t, TRUE) \/ Fails(t, FALSE)
  BY DEF ClearFails, WriteFails, QueueFails
<1>2. UNCHANGED <<slug, packaged, accepted, stranded>>
  BY DEF ClearFails, WriteFails, QueueFails, database, outcomes
<1>3. QED
  BY <1>1, <1>2, HeldFails

LEMMA HeldQueued ==
    ASSUME TypeInv, HeldInv, NEW t \in Thread, Queued(t)
    PROVE  HeldInv'
<1>1. packaged' = packaged /\ stranded' = stranded /\ slug' = slug
  BY DEF Queued, database
<1>2. CASE Worthless(t)
  <2> DEFINE h == [at[t] EXCEPT !.step = "undo"]
  <2>1. at' = [at EXCEPT ![t] = h] /\ h.made = at[t].made /\ accepted' = accepted
    BY <1>2, HandlerKept DEF Queued, Goes, Request
  <2> HIDE DEF h
  <2>2. QED
    BY <1>1, <2>1, HeldGoes
<1>3. CASE ~Worthless(t)
  <2>1. Ends(t) /\ accepted \subseteq accepted'
        /\ (at[t].op = "express" => at[t].made \in accepted')
    BY <1>3 DEF Queued
  <2>2. QED
    BY <1>1, <2>1, HeldEnds
<1>4. QED
  BY <1>2, <1>3

\* The last steps: the problem is gone by then, or it is stranded.
LEMMA HeldEndings ==
    ASSUME TypeInv, PackageInv, HeldInv, NEW t \in Thread,
           DeleteFiles(t) \/ FilesStay(t) \/ UndoFails(t) \/ DeleteFails(t)
    PROVE  HeldInv'
<1>1. /\ Ends(t) /\ UNCHANGED <<slug, packaged, accepted>>
      /\ stranded' = stranded \/ stranded' = stranded \cup {at[t].made}
  BY DEF DeleteFiles, FilesStay, UndoFails, DeleteFails, database, outcomes
<1>2. CASE UndoFails(t)
  <2>1. at[t].made \in stranded'
    BY <1>2 DEF UndoFails
  <2>2. QED
    BY <1>1, <2>1, HeldEnds
<1>3. CASE DeleteFails(t)
  <2>1. at[t].op # "express"
    BY <1>3, HandlerKept DEF DeleteFails, At, HandlerOK
  <2>2. QED
    BY <1>1, <2>1, HeldEnds
<1>4. CASE DeleteFiles(t) \/ FilesStay(t)
  <2>1. at[t].step = "files"
    BY <1>4 DEF DeleteFiles, FilesStay, At
  <2>2. at[t].op = "express" => slug # at[t].made
    BY <2>1 DEF PackageInv, ExpressOK
  <2>3. QED
    BY <1>1, <2>2, HeldEnds
<1>5. QED
  BY <1>2, <1>3, <1>4

LEMMA HeldStop ==
    ASSUME TypeInv, HeldInv, Stop
    PROVE  HeldInv'
<1>1. /\ UNCHANGED <<slug, packaged, accepted>>
      /\ stranded' = stranded \cup ({at[t].made : t \in Thread} \ {NoId})
  BY DEF Stop
<1>2. slug \in packaged => slug # NoId
  BY NoPackage
<1>3. QED
  BY <1>1, <1>2 DEF HeldInv

LEMMA HeldStep ==
    ASSUME TypeInv, PackageInv, HeldInv, [Next]_vars
    PROVE  HeldInv'
<1>1. ASSUME NEW t \in Thread, RequestStep(t) PROVE HeldInv'
  BY <1>1, HeldRequests, HeldCreate, HeldExpress, HeldBulk, HeldSteps, HeldFailures, HeldQueued,
     HeldEndings DEF RequestStep
<1>2. ASSUME JudgeStep \/ UNCHANGED vars PROVE HeldInv'
  <2>1. UNCHANGED <<slug, at, packaged, accepted, stranded>>
    BY <1>2 DEF JudgeStep, LoadTests, LoadShares, ReadInput, ReadAnswer, TestBreaks, Returns,
                Raises, Store, vars, database, outcomes
  <2>2. QED
    BY <2>1, HeldStays
<1>3. QED
  BY <1>1, <1>2, HeldStop DEF Next

\* PackageWhole: a problem that was made from a package stays only if its request succeeded,
\* or if nothing could take it back: the DELETE of the except failed, or the process stopped.
\* One that was accepted has its tests and a submission.  Whatever else fails, and whatever
\* other requests delete, create and replace meanwhile.
THEOREM PackagesWhole == Spec => []PackageWhole
<1>1. Init => TypeInv /\ PackageInv /\ HeldInv
  <2>1. ASSUME Init PROVE \A t \in Thread : ExpressOK(t)
    BY <2>1 DEF Init, ExpressOK, Idle
  <2>2. ASSUME Init PROVE packaged = {} /\ accepted = {}
    BY <2>2 DEF Init
  <2>3. QED
    BY <2>1, <2>2, TypeStart DEF PackageInv, HeldInv
<1>2. TypeInv /\ PackageInv /\ HeldInv /\ [Next]_vars => (TypeInv /\ PackageInv /\ HeldInv)'
  BY TypeStep, PackageStep, HeldStep
<1>3. TypeInv /\ PackageInv /\ HeldInv => PackageWhole
  BY LiveSub DEF PackageInv, HeldInv, PackageWhole
<1>4. QED
  BY <1>1, <1>2, <1>3, PTL DEF Spec
----------------------------------------------------------------------------
(* What a judging earns. *)

\* A change of the test set that is in progress excuses the judging.
LEMMA QuietWriter ==
    ASSUME QuietInv, NEW t \in Thread, Writing(t), run' = run
    PROVE  QuietInv'
  BY DEF QuietInv, QuietOK

LEMMA QuietBegins ==
    ASSUME TypeInv, NEW t \in Thread, NEW h, Begins(t, h)
    PROVE  QuietInv'
<1>1. CASE run.step = "idle"
  BY <1>1 DEF Begins, QuietInv
<1>2. CASE run.step # "idle"
  <2>1. run'.quiet = FALSE
    BY <1>2, RunKept DEF Begins, Judging
  <2>2. QED
    BY <2>1 DEF QuietInv
<1>3. QED
  BY <1>1, <1>2

\* Submissions come, or are taken for judging, and nothing else happens to the problem.
LEMMA QuietKeeps ==
    ASSUME QuietInv, UNCHANGED <<tests, shares, origin, torn, run>>,
           (\A u \in Thread : ~Writing(u)) => \A u \in Thread : ~Writing(u)',
           DOMAIN subs \subseteq DOMAIN subs', \A s \in DOMAIN subs : subs'[s] = subs[s]
    PROVE  QuietInv'
  BY DEF QuietInv, QuietOK, Solved, Live

\* A step of bulk_submit.
LEMMA QuietBulk ==
    ASSUME TypeInv, QuietInv, UNCHANGED <<tests, shares, origin, torn, run>>,
           NEW t \in Thread, NEW h, at' = [at EXCEPT ![t] = h], h.step = "idle" \/ h.op = "bulk",
           DOMAIN subs \subseteq DOMAIN subs', \A s \in DOMAIN subs : subs'[s] = subs[s]
    PROVE  QuietInv'
<1>1. at'[t] = h /\ \A u \in Thread : u # t => at'[u] = at[u]
  BY DEF TypeInv, HandlersOK
<1>2. (\A u \in Thread : ~Writing(u)) => \A u \in Thread : ~Writing(u)'
  BY <1>1 DEF Writing
<1>3. QED
  BY <1>2, QuietKeeps

LEMMA QuietBulkEnds ==
    ASSUME TypeInv, QuietInv, UNCHANGED <<tests, shares, origin, torn, run, subs>>,
           NEW t \in Thread, Ends(t)
    PROVE  QuietInv'
<1>1. at' = [at EXCEPT ![t] = Idle] /\ Idle.step = "idle"
  BY DEF Ends, Idle
<1>2. QED
  BY <1>1, QuietBulk

LEMMA QuietCreate ==
    ASSUME TypeInv, QuietInv, NEW t \in Thread, NEW some \in BOOLEAN, CreateProblem(t, some)
    PROVE  QuietInv'
<1>1. run' = run /\ slug = NoId
  BY DEF CreateProblem, InsertRow
<1>2. ~Live(run.sub)
  BY <1>1, LiveSub
<1>3. QED
  BY <1>1, <1>2 DEF QuietInv, QuietOK

LEMMA QuietBulkSubmit ==
    ASSUME TypeInv, QuietInv, NEW t \in Thread, BulkSubmit(t)
    PROVE  QuietInv'
<1> DEFINE h == Handler("bulk", "await", slug, NoSet, <<>>, NoId)
<1>1. h.op = "bulk"
  BY DEF Handler
<1> HIDE DEF h
<1>2. at' = [at EXCEPT ![t] = h] /\ UNCHANGED <<tests, shares, origin, torn, run, subs>>
  BY DEF BulkSubmit, h, database
<1>3. QED
  BY <1>1, <1>2, QuietBulk

LEMMA QuietResumeBulk ==
    ASSUME TypeInv, QuietInv, NEW t \in Thread, NEW solves, ResumeBulk(t, <<solves>>)
    PROVE  QuietInv'
<1> DEFINE h == [at[t] EXCEPT !.step = "queue", !.left = <<solves>>]
<1>1. at[t].op = "bulk" /\ UNCHANGED <<tests, shares, origin, torn, run, subs>>
      /\ at' = [at EXCEPT ![t].step = "queue", ![t].left = <<solves>>]
  BY DEF ResumeBulk, database
<1>2. h.op = "bulk"
  BY <1>1, HandlerKept DEF Request
<1>3. at' = [at EXCEPT ![t] = h]
  BY <1>1
<1> HIDE DEF h
<1>4. QED
  BY <1>1, <1>2, <1>3, QuietBulk

LEMMA QuietResume ==
    ASSUME TypeInv, QuietInv, NEW t \in Thread, NEW a, NEW n, Resume(t, a, n)
    PROVE  QuietInv'
<1>1. at[t].step = "await" /\ at[t].op = "upload" /\ run' = run
  BY DEF Resume, At
<1>2. QED
  BY <1>1, QuietWriter DEF Writing

LEMMA QuietQueues ==
    ASSUME TypeInv, QuietInv, NEW t \in Thread, QueueSource(t) \/ QueueFails(t) \/ Queued(t)
    PROVE  QuietInv'
<1>1. at[t].step \in {"lookup", "queue"} /\ UNCHANGED <<tests, shares, origin, run>>
  BY DEF QueueSource, QueueFails, Queued, At, database
<1>2. CASE at[t].op # "bulk"
  BY <1>1, <1>2, QuietWriter DEF Writing
<1>3. CASE at[t].op = "bulk"
  <2>1. at[t].op = "bulk" /\ at[t].op # "express" /\ torn \in BOOLEAN
    BY <1>3, CountsKept
  <2>2. CASE QueueSource(t) /\ slug = at[t].problem
    <3> DEFINE h == [at[t] EXCEPT !.left = Tail(@), !.queued = @ + 1]
    <3>1. at' = [at EXCEPT ![t] = h] /\ torn' = torn
      BY <2>2 DEF QueueSource
    <3>2. h.op = "bulk"
      BY <2>1, HandlerKept DEF Request
    <3> HIDE DEF h
    <3>3. QED
      BY <1>1, <2>2, <3>1, <3>2, Queues, QuietBulk
  <2>3. CASE ~(QueueSource(t) /\ slug = at[t].problem)
    <3>1. Ends(t) /\ torn' = torn /\ subs' = subs
      BY <1>3, <2>1, <2>3 DEF QueueSource, QueueFails, Queued, Worthless, Fails, database
    <3>2. QED
      BY <1>1, <3>1, QuietBulkEnds
  <2>4. QED
    BY <2>2, <2>3
<1>4. QED
  BY <1>2, <1>3

\* The steps that only writers take.
LEMMA QuietWrites ==
    ASSUME TypeInv, QuietInv, NEW t \in Thread,
           \/ ClearDirectory(t) \/ ClearFails(t) \/ WriteFiles(t) \/ WriteFails(t)
           \/ CommitTests(t) \/ Lookup(t) \/ Undo(t) \/ UndoFails(t)
           \/ DeleteProblem(t) \/ DeleteFails(t) \/ DeleteFiles(t) \/ FilesStay(t)
    PROVE  QuietInv'
<1>1. at[t].step \in {"clear", "write", "lookup", "undo", "row", "files"} /\ run' = run
  BY DEF ClearDirectory, ClearFails, WriteFiles, WriteFails, CommitTests, Lookup, Undo,
         UndoFails, DeleteProblem, DeleteFails, DeleteFiles, FilesStay, At
<1>2. Writing(t)
  BY <1>1, Bulk
<1>3. QED
  BY <1>1, <1>2, QuietWriter

LEMMA QuietLoadTests ==
    ASSUME TypeInv, PlaceInv, NEW s \in DOMAIN subs, LoadTests(s)
    PROVE  QuietInv'
<1>1. /\ Live(s) /\ UNCHANGED <<tests, shares, origin, torn, at>>
      /\ subs' = [subs EXCEPT ![s].state = "JUDGING"]
  BY DEF LoadTests
<1>2. PICK q \in BOOLEAN : q = (~torn /\ Writers = {})
  OBVIOUS
<1>3. run' = [step |-> IF tests = <<>> THEN "store" ELSE "shares", sub |-> s,
              tests |-> tests, shares |-> <<>>, solves |-> subs[s].solves,
              some |-> partial, next |-> 1, input |-> Missing, passed |-> {},
              exit |-> IF tests = <<>> THEN "IE" ELSE "none", quiet |-> q, of |-> origin]
  BY <1>2, Zenon DEF LoadTests
<1>4. /\ run'.sub = s /\ run'.tests = tests /\ run'.of = origin /\ run'.solves = subs[s].solves
      /\ run'.some = partial /\ run'.passed = {} /\ run'.quiet = q
      /\ run'.step = IF tests = <<>> THEN "store" ELSE "shares"
      /\ run'.exit = IF tests = <<>> THEN "IE" ELSE "none"
  BY <1>3
<1>5. ASSUME run'.quiet PROVE ~torn /\ \A t \in Thread : ~Writing(t)
  BY <1>2, <1>4, <1>5 DEF Writers
<1>6. subs[s] \in Submission /\ subs[s].some = partial /\ subs[s].problem # NoId
  BY <1>1, LiveSub DEF Live
<1>7. /\ s \in DOMAIN subs' /\ subs'[s].solves = subs[s].solves
      /\ subs'[s].some = partial /\ subs'[s].problem # NoId
  BY <1>1, <1>6 DEF Submission
<1>8. ASSUME run'.quiet PROVE QuietOK'
  BY <1>1, <1>4, <1>5, <1>7, <1>8 DEF QuietOK, Live, Writing
<1>9. QED
  BY <1>8 DEF QuietInv

LEMMA QuietLoadShares ==
    ASSUME TypeInv, QuietInv, LoadShares
    PROVE  QuietInv'
<1>1. run.step = "shares" /\ UNCHANGED <<tests, shares, origin, torn, at, subs>>
      /\ run' = [run EXCEPT !.step = "input", !.shares = IF Live(run.sub) THEN shares ELSE <<>>]
  BY DEF LoadShares, database
<1>2. run \in Judging /\ run.next = 1
  BY <1>1, RunKept DEF TypeInv, RunOK
<1>3. ASSUME run'.quiet PROVE QuietOK'
  <2>1. run.quiet
    BY <1>1, <1>2, <1>3 DEF Judging
  <2>2. QuietOK
    BY <1>1, <2>1 DEF QuietInv
  <2>3. run' = [run EXCEPT !.step = "input", !.shares = shares]
    BY <1>1, <2>2 DEF QuietOK
  <2>4. /\ run'.sub = run.sub /\ run'.tests = run.tests /\ run'.of = run.of
        /\ run'.solves = run.solves /\ run'.some = run.some /\ run'.passed = run.passed
        /\ run'.step = "input" /\ run'.shares = shares /\ run'.next = 1
        /\ run'.exit = run.exit
    BY <1>2, <2>3 DEF Judging
  <2>5. run.passed = {} /\ 1..(1 - 1) = {} /\ run.exit = "none"
    BY <1>1, <2>2 DEF QuietOK
  <2>6. QED
    BY <1>1, <2>2, <2>4, <2>5 DEF QuietOK, Live, Writing, Solved
<1>4. QED
  BY <1>3 DEF QuietInv

\* What an undisturbed judging finds in the directory.
LEMMA QuietFile ==
    ASSUME TypeInv, PlaceInv, QuietOK, run.step \in {"input", "answer"}
    PROVE  /\ FileAt(run.next) = Contents(origin, run.next) /\ run.next \in DOMAIN tests
           /\ Contents(origin, run.next) # Missing
           /\ Contents(origin, run.next).case = tests[run.next].case
<1>1. run.next \in DOMAIN tests /\ run.next \in Idx
  BY RunKept DEF TypeInv, RunOK, QuietOK
<1>2. tests # <<>> /\ DirWhole
  BY <1>1 DEF QuietOK, PlaceInv, WholeInv
<1>3. dir # NoDir /\ dir[run.next] = Contents(origin, run.next)
  BY <1>1, <1>2 DEF DirWhole
<1>4. origin \in SetName /\ tests = TestsOf[origin]
  BY <1>2 DEF TypeInv, RowsOK, Set
<1>5. origin[1] # "none"
  BY <1>4, NamesAssumption DEF SetName
<1>6. Contents(origin, run.next).set = origin[1]
      /\ Contents(origin, run.next).case = tests[run.next].case /\ Missing.set = "none"
  BY <1>4 DEF Contents, Missing
<1>7. QED
  BY <1>1, <1>3, <1>5, <1>6 DEF FileAt

LEMMA QuietReadInput ==
    ASSUME TypeInv, PlaceInv, QuietInv, ReadInput
    PROVE  QuietInv'
<1>1. run.step = "input" /\ UNCHANGED <<tests, shares, origin, torn, at, subs>>
      /\ run' = [run EXCEPT !.step = "answer", !.input = FileAt(run.next)]
  BY DEF ReadInput, database
<1>2. run \in Judging
  BY RunKept
<1>3. /\ run'.sub = run.sub /\ run'.tests = run.tests /\ run'.of = run.of
      /\ run'.solves = run.solves /\ run'.some = run.some /\ run'.passed = run.passed
      /\ run'.step = "answer" /\ run'.shares = run.shares /\ run'.next = run.next
      /\ run'.input = FileAt(run.next) /\ run'.quiet = run.quiet /\ run'.exit = run.exit
  BY <1>1, <1>2 DEF Judging
<1>4. ASSUME run'.quiet PROVE QuietOK'
  <2>1. QuietOK
    BY <1>1, <1>3, <1>4 DEF QuietInv
  <2>2. FileAt(run.next) = Contents(origin, run.next)
    BY <1>1, <2>1, QuietFile
  <2>3. QED
    BY <1>1, <1>3, <2>1, <2>2 DEF QuietOK, Live, Writing, Solved
<1>5. QED
  BY <1>4 DEF QuietInv

LEMMA QuietReadAnswer ==
    ASSUME TypeInv, PlaceInv, QuietInv, NEW ok \in BOOLEAN, ReadAnswer(ok)
    PROVE  QuietInv'
<1> DEFINE step == IF Stops(ok) THEN "store" ELSE "input"
           passed == IF ok THEN run.passed \cup {run.next} ELSE run.passed
<1>1. run.step = "answer" /\ UNCHANGED <<tests, shares, origin, torn, at, subs>>
      /\ run' = [run EXCEPT !.passed = passed, !.step = step, !.next = run.next + 1,
                            !.input = Missing]
  BY DEF ReadAnswer, database
<1> HIDE DEF step, passed
<1>2. run \in Judging
  BY RunKept
<1>3. /\ run'.sub = run.sub /\ run'.tests = run.tests /\ run'.of = run.of
      /\ run'.solves = run.solves /\ run'.some = run.some /\ run'.passed = passed
      /\ run'.step = step /\ run'.shares = run.shares /\ run'.next = run.next + 1
      /\ run'.quiet = run.quiet /\ run'.exit = run.exit
  BY <1>1, <1>2 DEF Judging
<1>4. ASSUME run'.quiet PROVE QuietOK'
  <2>1. QuietOK
    BY <1>1, <1>3, <1>4 DEF QuietInv
  <2>2. /\ FileAt(run.next) = Contents(origin, run.next) /\ run.next \in DOMAIN tests
        /\ Contents(origin, run.next) # Missing
        /\ Contents(origin, run.next).case = tests[run.next].case
    BY <1>1, <2>1, QuietFile
  <2>3. run.input = Contents(origin, run.next)
    BY <1>1, <2>1 DEF QuietOK
  <2>4. MayPass = {tests[run.next].case \in run.solves}
    BY <2>2, <2>3 DEF MayPass
  <2>5. ok <=> run.next \in Solved
    BY <2>1, <2>2, <2>4 DEF ReadAnswer, Solved, QuietOK
  <2>6. /\ run.tests = tests /\ DOMAIN tests = 1..Len(tests) /\ Len(tests) \in Nat
        /\ run.next \in 1..Len(tests) /\ Solved \subseteq DOMAIN tests
        /\ run.passed = Solved \cap (1..(run.next - 1))
    BY <1>1, <2>1, <2>2, RunKept DEF QuietOK, Solved
  <2>7. passed = Solved \cap (1..run.next)
    <3>1. 1..run.next = (1..(run.next - 1)) \cup {run.next}
      BY <2>6
    <3>2. QED
      BY <2>5, <2>6, <3>1 DEF passed
  <2>8. run'.next - 1 = run.next
    BY <1>3, <2>6
  <2>9. Stops(ok) => passed = Solved \/ (~run.some /\ Solved # DOMAIN tests)
    <3>1. CASE run.next = Len(run.tests)
      BY <2>6, <2>7, <3>1
    <3>2. CASE ~ok /\ ~run.some
      BY <2>2, <2>5, <3>2
    <3>3. QED
      BY <3>1, <3>2 DEF Stops
  <2>10. passed \subseteq Solved /\ run.shares = shares
    BY <1>1, <2>1, <2>7 DEF QuietOK
  <2>11. Solved' = Solved
    BY <1>3 DEF Solved
  <2>12. step \in {"store", "input"} /\ (step = "store" <=> Stops(ok))
    BY DEF step
  <2>13. run'.passed = Solved' \cap (1..(run'.next - 1))
    <3>1. 1..(run'.next - 1) = 1..run.next
      BY <2>8
    <3>2. run'.passed = Solved' \cap (1..run.next)
      BY <1>3, <2>7, <2>11
    <3>3. QED
      BY <3>1, <3>2, Zenon
  <2>14. run'.step = "store" => tests' # <<>>
             /\ run'.passed \subseteq Solved' /\ run'.shares = shares'
             /\ (run'.passed = Solved' \/ (~run'.some /\ Solved' # DOMAIN tests'))
    BY <1>1, <1>3, <2>2, <2>9, <2>10, <2>11, <2>12
  <2>15. /\ \A t \in Thread : ~Writing(t)'
         /\ ~torn' /\ run'.of = origin' /\ run'.tests = tests' /\ run'.shares = shares'
         /\ Live(run.sub)' /\ run'.sub = run.sub /\ run'.solves = subs'[run'.sub].solves
         /\ run'.some = subs'[run'.sub].some /\ run'.exit = "none"
    BY <1>1, <1>3, <2>1, <2>10 DEF QuietOK, Live, Writing
  <2>16. run'.step \in {"store", "input"}
    BY <1>3, <2>12
  <2>17. QED
    BY <2>13, <2>14, <2>15, <2>16 DEF QuietOK
<1>5. QED
  BY <1>4 DEF QuietInv

\* A run that ends before its last test.
LEMMA QuietReturns ==
    ASSUME TypeInv, QuietInv, NEW verdict \in {"CE", "AB"}, Returns(verdict)
    PROVE  QuietInv'
<1>1. run.step \in {"input", "answer"} /\ UNCHANGED <<tests, shares, origin, torn, at, subs>>
      /\ run' = [run EXCEPT !.exit = verdict, !.step = "store"]
  BY DEF Returns, database
<1>2. run \in Judging
  BY RunKept
<1>3. /\ run'.sub = run.sub /\ run'.tests = run.tests /\ run'.of = run.of
      /\ run'.solves = run.solves /\ run'.some = run.some
      /\ run'.step = "store" /\ run'.quiet = run.quiet /\ run'.exit = verdict
  BY <1>1, <1>2 DEF Judging
<1>4. ASSUME run'.quiet PROVE QuietOK'
  <2>1. QuietOK
    BY <1>1, <1>3, <1>4 DEF QuietInv
  <2>2. QED
    BY <1>1, <1>3, <2>1 DEF QuietOK, Live, Writing
<1>5. QED
  BY <1>4 DEF QuietInv

LEMMA QuietRaises ==
    ASSUME TypeInv, QuietInv, Raises
    PROVE  QuietInv'
<1>1. run.step \in {"shares", "input", "answer"}
      /\ UNCHANGED <<tests, shares, origin, torn, at, subs>>
      /\ run' = [run EXCEPT !.exit = "IE", !.step = "store", !.passed = {}]
  BY DEF Raises, database
<1>2. run \in Judging
  BY RunKept
<1>3. /\ run'.sub = run.sub /\ run'.tests = run.tests /\ run'.of = run.of
      /\ run'.solves = run.solves /\ run'.some = run.some /\ run'.passed = {}
      /\ run'.step = "store" /\ run'.quiet = run.quiet /\ run'.exit = "IE"
  BY <1>1, <1>2 DEF Judging
<1>4. ASSUME run'.quiet PROVE QuietOK'
  <2>1. QuietOK
    BY <1>1, <1>3, <1>4 DEF QuietInv
  <2>2. QED
    BY <1>1, <1>3, <2>1 DEF QuietOK, Live, Writing
<1>5. QED
  BY <1>4 DEF QuietInv

\* A broken sandbox excuses the run, and a stop of the process ends it.
LEMMA QuietBreaks ==
    ASSUME TypeInv, TestBreaks \/ Stop
    PROVE  QuietInv'
<1>1. CASE TestBreaks
  <2>1. run \in Judging
    BY RunKept
  <2>2. run'.quiet = FALSE
    BY <1>1, <2>1 DEF TestBreaks, Judging
  <2>3. QED
    BY <2>2 DEF QuietInv
<1>2. CASE Stop
  BY <1>2 DEF Stop, QuietInv, NoRun
<1>3. QED
  BY <1>1, <1>2

LEMMA QuietStep ==
    ASSUME TypeInv, PlaceInv, QuietInv, [Next]_vars
    PROVE  QuietInv'
<1>1. ASSUME NEW t \in Thread, RequestStep(t) PROVE QuietInv'
  <2>1. CASE \/ Delete(t) \/ UploadTests(t)
             \/ \E k \in DOMAIN Inline : ReplaceTests(t, k)
             \/ \E p \in Package, some \in BOOLEAN : ExpressCreate(t, p, some)
    BY <2>1, QuietBegins DEF Delete, ReplaceTests, UploadTests, ExpressCreate
  <2>2. CASE \/ ClearDirectory(t) \/ ClearFails(t) \/ WriteFiles(t) \/ WriteFails(t)
             \/ CommitTests(t) \/ Lookup(t) \/ Undo(t) \/ UndoFails(t)
             \/ DeleteProblem(t) \/ DeleteFails(t) \/ DeleteFiles(t) \/ FilesStay(t)
    BY <2>2, QuietWrites
  <2>3. QED
    BY <1>1, <2>1, <2>2, QuietCreate, QuietBulkSubmit, QuietResumeBulk, QuietResume,
       QuietQueues DEF RequestStep
<1>2. CASE Store
  BY <1>2 DEF Store, QuietInv, NoRun
<1>3. CASE UNCHANGED vars
  BY <1>3, QuietKeeps DEF vars, database, Writing
<1>4. CASE JudgeStep
  BY <1>2, <1>4, QuietLoadTests, QuietLoadShares, QuietReadInput, QuietReadAnswer, QuietReturns,
     QuietRaises, QuietBreaks DEF JudgeStep
<1>5. QED
  BY <1>1, <1>3, <1>4, QuietBreaks DEF Next

\* What an undisturbed judging stores that came to its end.
LEMMA FairVerdict ==
    ASSUME TypeInv, QuietOK, run.step = "store", run.exit = "none", NEW r \in Submission,
           r = subs[run.sub], origin # NoSet, Outcome(r).of = origin
    PROVE  LET o == Outcome(r)
           IN  /\ o.state = "AC" <=> Solves(o.of, o) = DOMAIN TestsOf[o.of]
               /\ o.state = "AC" => o.earned = 100
               /\ Fairly(o.of, o)
<1> DEFINE o == Outcome(r)
           k == origin
<1>1. /\ o \in Submission /\ o.some = run.some /\ o.solves = run.solves /\ o.of = k
      /\ o.state = IF Passes(run) THEN "AC" ELSE "failed"
      /\ o.earned = EarnedPercent(run.tests, run.shares, run.some, run.passed)
  <2>1. /\ o \in Submission /\ o.some = run.some /\ o.solves = run.solves /\ o.of = k
        /\ o.state = VerdictOf(run) /\ o.earned = Earns(run)
    BY OutcomeOf DEF QuietOK
  <2>2. VerdictOf(run) = IF Passes(run) THEN "AC" ELSE "failed"
    BY DEF VerdictOf
  <2>3. VerdictOf(run) \notin Unpaid
    BY <2>2 DEF Unpaid
  <2>4. Earns(run) = EarnedPercent(run.tests, run.shares, run.some, run.passed)
    BY <2>3 DEF Earns
  <2> HIDE DEF o
  <2>5. QED
    BY <2>1, <2>2, <2>4
<1>2. /\ k \in SetName /\ tests = TestsOf[k] /\ TestsOf[k] # <<>> /\ shares = SharesOf[k]
      /\ run.tests = tests
  BY DEF TypeInv, RowsOK, Set, QuietOK
<1>3. /\ run.shares = shares /\ run.passed \subseteq Solved
      /\ run.passed = Solved \/ (~run.some /\ Solved # DOMAIN tests)
  BY DEF QuietOK
<1> HIDE DEF o, k
<1>4. Solves(k, o) = Solved /\ Solved \subseteq DOMAIN tests
  BY <1>1, <1>2 DEF Solves, Solved
<1>5. o.some \in BOOLEAN
  BY <1>1 DEF Submission
<1>6. Fairly(k, o) /\ (run.passed = DOMAIN TestsOf[k] => o.earned = 100)
  <2>1. run.passed \subseteq Solves(k, o) /\ (run.passed = Solves(k, o) \/ ~o.some)
    BY <1>1, <1>3, <1>4
  <2>2. o.earned = EarnedPercent(TestsOf[k], SharesOf[k], o.some, run.passed)
    BY <1>1, <1>2, <1>3
  <2>3. QED
    BY <1>2, <1>5, <2>1, <2>2, FairEarned
<1>7. o.state = "AC" <=> run.passed = DOMAIN tests
  BY <1>1, <1>2 DEF Passes
<1>8. run.passed = DOMAIN tests <=> Solved = DOMAIN tests
  BY <1>3, <1>4
<1>9. /\ o.state = "AC" <=> Solves(o.of, o) = DOMAIN TestsOf[o.of]
      /\ o.state = "AC" => o.earned = 100
      /\ Fairly(o.of, o)
  BY <1>1, <1>2, <1>4, <1>6, <1>7, <1>8
<1>10. QED
  BY <1>9 DEF o

\* What is stored at the end of a judging is fair.
LEMMA FairOutcome ==
    ASSUME TypeInv, QuietInv, run.step = "store", NEW r \in Submission, r = subs[run.sub]
    PROVE  Fair(Outcome(r))
<1> DEFINE o == Outcome(r)
<1>1. /\ o.state = VerdictOf(run) /\ o.earned = Earns(run)
      /\ o.of = IF run.quiet THEN run.of ELSE NoSet
  BY OutcomeOf
<1>2. ASSUME o.of # NoSet PROVE run.quiet /\ QuietOK /\ o.of = origin /\ origin # NoSet
  BY <1>1, <1>2 DEF QuietInv, QuietOK
<1>3. o.state \in {"CE", "AB"} => o.earned = 0
  BY <1>1 DEF Earns, Unpaid
<1>4. ASSUME o.of # NoSet, o.state = "IE" PROVE o.earned = 0
  <2>1. run.exit = "IE"
    BY <1>1, <1>4 DEF VerdictOf
  <2>2. run.passed = {}
    BY <1>2, <1>4, <2>1 DEF QuietOK
  <2>3. Earns(run) = EarnedPercent(run.tests, run.shares, run.some, {})
    BY <1>1, <1>4, <2>2 DEF Earns, Unpaid
  <2>4. run.tests \in Rows /\ run.shares \in Percents /\ run.some \in BOOLEAN
    BY RunKept DEF Judging
  <2>5. QED
    BY <1>1, <2>3, <2>4, NothingEarned
<1>5. ASSUME o.of # NoSet, o.state \in {"AC", "failed"}
      PROVE  /\ o.state = "AC" <=> Solves(o.of, o) = DOMAIN TestsOf[o.of]
             /\ o.state = "AC" => o.earned = 100
             /\ Fairly(o.of, o)
  <2>1. run.exit = "none"
    <3>1. run.exit \in {"none", "CE", "AB", "IE"}
      BY RunKept DEF Judging
    <3>2. QED
      BY <1>1, <1>5, <3>1 DEF VerdictOf
  <2>2. QED
    BY <1>2, <1>5, <2>1, FairVerdict
<1> HIDE DEF o
<1>6. Fair(o)
  BY <1>3, <1>4, <1>5 DEF Fair
<1>7. QED
  BY <1>6 DEF o

\* Submissions that go, or come, or stay.
LEMMA FairKeeps ==
    ASSUME FairInv,
           \A s \in DOMAIN subs' :
               \/ s \in DOMAIN subs /\ subs'[s] = subs[s]
               \/ subs'[s].problem = NoId
               \/ subs'[s].of = NoSet /\ subs'[s].state \notin {"CE", "AB"}
    PROVE  FairInv'
  BY DEF FairInv, Live, Fair

LEMMA FairDeletes ==
    ASSUME TypeInv, FairInv, NEW id, DeleteRow(id)
    PROVE  FairInv'
<1>1. subs' = [s \in DOMAIN subs |-> IF subs[s].problem = id THEN NoSub ELSE subs[s]]
  BY DEF DeleteRow
<1>2. NoSub.problem = NoId
  BY DEF NoSub
<1>3. QED
  BY <1>1, <1>2, FairKeeps

LEMMA FairQueues ==
    ASSUME TypeInv, FairInv, NEW t \in Thread, QueueSource(t)
    PROVE  FairInv'
<1>1. CASE slug # at[t].problem
  BY <1>1, FairKeeps DEF QueueSource
<1>2. CASE slug = at[t].problem
  BY <1>2, Queues, FairKeeps
<1>3. QED
  BY <1>1, <1>2

LEMMA FairLoads ==
    ASSUME TypeInv, FairInv, NEW s \in DOMAIN subs, LoadTests(s)
    PROVE  FairInv'
<1>1. subs' = [subs EXCEPT ![s].state = "JUDGING"] /\ Live(s) /\ subs[s].state = "PENDING"
  BY DEF LoadTests
<1>2. subs[s] \in Submission /\ subs[s].of = NoSet
  BY <1>1, LiveSub
<1>3. subs'[s].of = NoSet /\ subs'[s].state = "JUDGING"
      /\ \A u \in DOMAIN subs' : u # s => subs'[u] = subs[u]
  BY <1>1, <1>2 DEF Submission
<1>4. DOMAIN subs' = DOMAIN subs
  BY <1>1
<1>5. QED
  BY <1>3, <1>4, FairKeeps

LEMMA FairStops ==
    ASSUME TypeInv, FairInv, Stop
    PROVE  FairInv'
<1>1. DOMAIN subs' = DOMAIN subs
  BY Stopped
<1>2. ASSUME NEW s \in DOMAIN subs
      PROVE  \/ subs'[s] = subs[s]
             \/ subs'[s].of = NoSet /\ subs'[s].state \notin {"CE", "AB"}
  <2>1. subs'[s].of = subs[s].of
        /\ (subs'[s] = subs[s] \/ (subs'[s].state = "PENDING" /\ subs[s].of = NoSet))
    BY Stopped
  <2>2. QED
    BY <2>1
<1>3. QED
  BY <1>1, <1>2, FairKeeps

LEMMA FairStores ==
    ASSUME TypeInv, QuietInv, FairInv, Store
    PROVE  FairInv'
<1>1. CASE ~Live(run.sub)
  BY <1>1, FairKeeps DEF Store
<1>2. CASE Live(run.sub)
  <2>1. subs' = [subs EXCEPT ![run.sub] = Outcome(subs[run.sub])] /\ run.step = "store"
    BY <1>2 DEF Store, Outcome
  <2>2. run.sub \in DOMAIN subs /\ subs[run.sub] \in Submission
    BY <1>2, LiveSub
  <2>3. Fair(Outcome(subs[run.sub]))
    BY <2>1, <2>2, FairOutcome
  <2>4. \A s \in DOMAIN subs' : s # run.sub => s \in DOMAIN subs /\ subs'[s] = subs[s]
    BY <2>1
  <2>5. subs'[run.sub] = Outcome(subs[run.sub])
    BY <2>1, <2>2
  <2>6. QED
    BY <2>3, <2>4, <2>5 DEF FairInv, Live
<1>3. QED
  BY <1>1, <1>2

LEMMA FairStep ==
    ASSUME TypeInv, QuietInv, FairInv, [Next]_vars
    PROVE  FairInv'
<1>1. CASE subs' = subs
  BY <1>1, FairKeeps
<1>2. ASSUME NEW t \in Thread, RequestStep(t), subs' # subs PROVE FairInv'
  <2>1. Undo(t) \/ DeleteProblem(t) \/ QueueSource(t)
    BY <1>2 DEF RequestStep, CreateProblem, InsertRow, Delete, ReplaceTests, UploadTests,
       BulkSubmit, ExpressCreate, Resume, ResumeBulk, ClearDirectory, ClearFails, WriteFiles,
       WriteFails, CommitTests, Lookup, QueueFails, Queued, UndoFails, DeleteFails, DeleteFiles,
       FilesStay, database
  <2>2. QED
    BY <2>1, FairDeletes, FairQueues DEF Undo, DeleteProblem
<1>3. ASSUME JudgeStep, subs' # subs PROVE FairInv'
  BY <1>3, FairLoads, FairStores DEF JudgeStep, LoadShares, ReadInput, ReadAnswer, TestBreaks,
     Returns, Raises, database
<1>4. CASE UNCHANGED vars
  BY <1>1, <1>4 DEF vars, database
<1>5. QED
  BY <1>1, <1>2, <1>3, <1>4, FairStops DEF Next

\* FairScore: a run that did not compile or was cancelled earns nothing.  A judging that no
\* change of the test set and no broken sandbox touched, and that came to its end, accepts
\* exactly the sources that solve every test of the archive and pays what the archive
\* promised, however the requests and the other judgings run beside it.
THEOREM ScoresAreFair == Spec => []FairScore
<1>1. Init => QuietInv /\ FairInv
  BY DEF Init, QuietInv, FairInv, NoRun
<1>2. TypeInv /\ PlaceInv /\ QuietInv /\ FairInv /\ [Next]_vars => (QuietInv /\ FairInv)'
  BY QuietStep, FairStep
<1>3. FairInv => FairScore
  BY DEF FairInv, Fair, FairScore
<1>4. QED
  BY <1>1, <1>2, <1>3, PlaceAlways, PTL DEF Spec
====
