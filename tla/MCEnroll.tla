------------------------------ MODULE MCEnroll ------------------------------
(***************************************************************************)
(* Enroll with three processes, enough for one to leave a file truncated,  *)
(* one to recover from it and one to be disturbed, and two ids, one of     *)
(* which at least is then enrolled twice.  The broker is started in dev    *)
(* mode, as an enclave, and in ways that are refused.                      *)
(***************************************************************************)
EXTENDS Enroll, TLC

Dev ==
  [mode |-> "", listen |-> "wildcard", flag |-> "", cert |-> FALSE, key |-> FALSE,
   clientCA |-> TRUE, kek |-> TRUE, store |-> TRUE, egress |-> FALSE, numbers |-> TRUE,
   overrides |-> FALSE, provider |-> "gcp", kmsKey |-> "unset", wif |-> "unset",
   account |-> "unset"]

Enclave ==
  [mode |-> "enclave", listen |-> "wildcard", flag |-> "interface", cert |-> TRUE, key |-> TRUE,
   clientCA |-> TRUE, kek |-> FALSE, store |-> TRUE, egress |-> TRUE, numbers |-> TRUE,
   overrides |-> FALSE, provider |-> "gcp", kmsKey |-> "ok", wif |-> "ok", account |-> "ok"]

MCConfigs ==
  {Dev, Enclave,
   [Dev EXCEPT !.cert = TRUE, !.key = TRUE], [Dev EXCEPT !.numbers = FALSE],
   [Dev EXCEPT !.mode = "prod"], [Enclave EXCEPT !.clientCA = FALSE],
   [Enclave EXCEPT !.kek = TRUE], [Enclave EXCEPT !.overrides = TRUE],
   [Enclave EXCEPT !.egress = FALSE], [Enclave EXCEPT !.account = "malformed"],
   [Enclave EXCEPT !.listen = "interface", !.flag = "wildcard"]}

Symm == Permutations(Procs) \cup Permutations(Ids)
=============================================================================
