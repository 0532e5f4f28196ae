---------------------------- MODULE MCAccounts ----------------------------
(* An instance of Accounts for TLC. *)
EXTENDS Accounts

\* The administrator of the first start, who has no address, one account that has a link to
\* confirm, one that is not registered.
ThreeUsers ==
    [boss |-> [role |-> "admin", email |-> "none", verified |-> TRUE, password |-> 0],
     ann |-> [role |-> "user", email |-> "a", verified |-> FALSE, password |-> 0],
     bob |-> [role |-> "none", email |-> "none", verified |-> FALSE, password |-> 0]]
Limits == [verify |-> 1, submit |-> 2]
=============================================================================
