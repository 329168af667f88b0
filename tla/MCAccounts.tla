------------------------------ MODULE MCAccounts ------------------------------
(* Small instances of Accounts for TLC.                                       *)
EXTENDS Accounts, TLC

CONSTANTS founder, colleague, employee1, employee2, request1, request2

\* Two requests differ in nothing.
MCSymmetry == Permutations(Requests)
=============================================================================
