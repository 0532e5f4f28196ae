---------------------------- MODULE MCRatings ----------------------------
(* Instances of Ratings for TLC. *)
EXTENDS Ratings

\* Every submission has an author of its own.
MCAuthor == [s \in Sub |-> s]

\* Rated and over before the clock stops.
MCBodies == {[starts |-> 0, ends |-> 1, rated |-> TRUE]}
MCPatches == {[rated |-> FALSE], [ends |-> 2]}
=============================================================================
