---------------------------- MODULE MCRecycleBin ----------------------------
(* Small instances of RecycleBin for TLC.                                     *)
EXTENDS RecycleBin

CONSTANTS asset, ticket, f1, f2, agent, admin, job

=============================================================================
