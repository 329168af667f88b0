---------------------------- MODULE MCRateLimiter ----------------------------
(* A small instance of RateLimiter for TLC.                                   *)
EXTENDS RateLimiter

CONSTANTS user1, ip1, form1, request1, request2

=============================================================================
