----------------------------- MODULE MCLimiter ------------------------------
(***************************************************************************)
(* Limiter on three ids: one with a rate of two, one with a rate of one    *)
(* and one without a limit, over more than two windows of the clock.       *)
(***************************************************************************)
EXTENDS Limiter

MCLower == [l \in {"GET"} |-> l]
MCIds == {"openai/personal", "github/ci", "free"}
MCRpm == [id \in MCIds |-> CASE id = "openai/personal" -> 2
                             [] id = "github/ci" -> 1
                             [] id = "free" -> 0]
=============================================================================
