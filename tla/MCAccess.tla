----------------------------- MODULE MCAccess -----------------------------
(* An instance of Access for TLC. *)
EXTENDS Access

\* A rated round with a freeze, and a shorter IOI round open to everyone; both have p2.
TwoRounds ==
    [round |-> [starts |-> 1, ends |-> 3, rated |-> TRUE, ioi |-> FALSE, freeze |-> 1,
                penalty |-> 20],
     open |-> [starts |-> 2, ends |-> 2, rated |-> FALSE, ioi |-> TRUE, freeze |-> 0,
               penalty |-> 0]]
TheirSets == [round |-> {"p1", "p2"}, open |-> {"p2"}]
PointsOf == [p1 |-> 5, p2 |-> 2]
Half == <<1, 2>>
Alphabet == [ann |-> 1, boss |-> 2, p1 |-> 1, p2 |-> 2]
Found == {[verdict |-> "AC", earned |-> 100, share |-> 100],
          [verdict |-> "WA", earned |-> 40, share |-> 45],
          [verdict |-> "WA", earned |-> 0, share |-> 60]}
=============================================================================
