---------------------------- MODULE MCAuthoring ----------------------------
(* An instance of Authoring for TLC. *)
EXTENDS Authoring, TLC

Pair(n, sample, subtask) == [case |-> n, sample |-> sample, subtask |-> subtask, answer |-> TRUE]

\* Three subtasks that name no percentage; two, one of them with two tests; no subtasks, and a
\* sample; and archives that are refused: percentages that make 90, a hidden test outside of
\* the subtasks.
Archives ==
    [even |-> [files |-> {Pair(1, FALSE, 1), Pair(2, FALSE, 2), Pair(3, FALSE, 3)},
               percent |-> [g \in 1..3 |-> NoShare]],
     declared |-> [files |-> {Pair(1, FALSE, 1), Pair(3, FALSE, 2), Pair(4, FALSE, 1)},
                   percent |-> <<30, 70>>],
     flat |-> [files |-> {Pair(1, FALSE, 0), Pair(3, TRUE, 0)}, percent |-> <<>>],
     short |-> [files |-> {Pair(1, FALSE, 1), Pair(2, FALSE, 2)}, percent |-> <<30, 60>>],
     stray |-> [files |-> {Pair(1, FALSE, 1), Pair(2, FALSE, 0)}, percent |-> <<100>>]]

\* Three tests that count, of which a source may solve two.
InlineSets == [json |-> <<[case |-> 2, sample |-> FALSE, subtask |-> 0],
                        [case |-> 3, sample |-> FALSE, subtask |-> 0],
                        [case |-> 4, sample |-> FALSE, subtask |-> 0]>>]

\* Its one source is queued; its second one is not, for want of room in the model or by a
\* failure; it has none.
Packages == {[set |-> "even", sources |-> <<{1, 2, 3}>>],
             [set |-> "even", sources |-> <<{1, 2, 3}, {2, 3}>>],
             [set |-> "declared", sources |-> << >>]}
Solutions == {1..4, {1, 2, 4}}
Symmetry == Permutations(Thread)
=============================================================================
