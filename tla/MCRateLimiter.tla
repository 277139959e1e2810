--------------------------- MODULE MCRateLimiter ---------------------------
(***************************************************************************)
(* The instance of RateLimiter for TLC: two clients on the pruned limiter   *)
(* of ws.ts.                                                                *)
(***************************************************************************)
EXTENDS RateLimiter, TLC

\* The clients are interchangeable.
Clients == Permutations(Keys)
=============================================================================
