---------------------------- MODULE BrokerConfig ----------------------------
(***************************************************************************)
(* What the broker makes of its environment before it serves               *)
(* (proxy/internal/config, BuildServerTLS): pure operators.                *)
(*                                                                         *)
(* A configuration is a record.  cert, key, clientCA, kek, store, egress   *)
(* say whether a value is set; numbers, whether the durations and numbers  *)
(* parse; overrides, whether one of the GCP endpoints is replaced.  kmsKey,*)
(* wif and account are "unset", "malformed" or "ok".  An address is        *)
(* "interface", "wildcard" (written "", 0.0.0.0 or ::), "zero" (a wildcard *)
(* written otherwise), or "malformed".                                     *)
(***************************************************************************)
EXTENDS Naturals

\* An empty mode is dev mode.
Mode(cfg) == IF cfg.mode = "" THEN "dev" ELSE cfg.mode

\* The -listen flag replaces BROKER_LISTEN before anything is checked.
Listen(cfg) == IF cfg.flag # "" THEN cfg.flag ELSE cfg.listen

\* isKMSKeyName, isWIFAudience, isServiceAccountEmail.
WellFormed(value) == value = "ok"

validateKMS(cfg) ==
  /\ cfg.provider \in {"gcp", ""}
  /\ WellFormed(cfg.kmsKey) /\ WellFormed(cfg.wif) /\ WellFormed(cfg.account)

validateNoGCPEndpointOverrides(cfg) == ~cfg.overrides

validateEnclaveListen(cfg) == Listen(cfg) \notin {"malformed", "wildcard"}

\* Mutant: client certificates are not asked for.
ValidateNoClientCA(cfg) ==
  \/ Mode(cfg) = "dev" /\ cfg.kek /\ cfg.store
  \/ /\ Mode(cfg) = "enclave"
     /\ cfg.cert /\ cfg.key /\ cfg.egress /\ cfg.store
     /\ ~cfg.kek /\ validateNoGCPEndpointOverrides(cfg)
     /\ validateKMS(cfg) /\ validateEnclaveListen(cfg)

ValidateForServe(cfg) ==
  \/ Mode(cfg) = "dev" /\ cfg.kek /\ cfg.store
  \/ /\ Mode(cfg) = "enclave"
     /\ cfg.cert /\ cfg.key /\ cfg.clientCA /\ cfg.egress /\ cfg.store
     /\ ~cfg.kek /\ validateNoGCPEndpointOverrides(cfg)
     /\ validateKMS(cfg) /\ validateEnclaveListen(cfg)

\* FromEnv and ValidateForServe let the boot go on.
MayServe(cfg) == cfg.numbers /\ ValidateForServe(cfg)

\* How the listener is protected, if the files that are named load.
BuildServerTLS(cfg) ==
  IF ~cfg.cert \/ ~cfg.key THEN "plain" ELSE IF cfg.clientCA THEN "mtls" ELSE "tls"
=============================================================================
