---------------------------- MODULE MCTicketDesk ----------------------------
(* Small instances of TicketDesk for TLC: two interchangeable handlers.       *)
EXTENDS TicketDesk, TLC

CONSTANTS agent, colleague, account

TwoTasks   == {agent, colleague}
OneAccount == {account}
Symmetry   == Permutations(TwoTasks)
=============================================================================
