----------------------------- MODULE MCSandbox -----------------------------
(* Instances of Sandbox for TLC. *)
EXTENDS Sandbox

\* A submission in a language with a compiler.
AllStages == <<"compile", "warm", "test">>

\* A compiler succeeds, fails or is not there; a warm-up ends or does not.
AnyProgram ==
    [compile |-> {"right", "crash"}, warm |-> {"right", "sleep"},
     test |-> {"right", "wrong", "crash", "hog", "flood", "large", "spin", "sleep", "missing"}]
=============================================================================
