---------------------------- MODULE MCTokenCache ----------------------------
(***************************************************************************)
(* TokenCache with two callers.  A tick stands for 15 seconds: the HTTP    *)
(* timeout is one, the skew four; a lifetime is below or above the skew, or*)
(* not stated.                                                             *)
(***************************************************************************)
EXTENDS TokenCache

MCTtls == {0, 3, 6}
=============================================================================
