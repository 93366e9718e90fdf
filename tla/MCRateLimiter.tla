--------------------------- MODULE MCRateLimiter ---------------------------
(* Two workers, requests below and above the credit, one step of the wall  *)
(* clock in either direction.                                              *)
EXTENDS RateLimiter

MCSize == {1, 2}
MCJump == {-2, 2}
=============================================================================
