--------------------------- MODULE CredentialUse ----------------------------
(***************************************************************************)
(* What the broker promises of every request, and nothing of how: a        *)
(* request is opened, spends the credential at most once and only as its   *)
(* seal permits, and is closed with exactly one ledger entry; an "allowed" *)
(* entry needs a spend, and a request that was never spent is "denied".    *)
(* The entry may fail to be written, which the request does not show, and  *)
(* a request may be lost with the process.  Pipeline implements this.      *)
(***************************************************************************)
EXTENDS Sequences

CONSTANTS Handlers,
          Permits(_)   \* whether a use of a credential is one its seal allows

VARIABLES phase,       \* "idle", "open", "spent", "closed", "unrecorded" or "lost"
          spent,       \* uses of credentials so far
          ledger       \* the audit entries of each request

vars == <<phase, spent, ledger>>

Init ==
  /\ phase = [h \in Handlers |-> "idle"]
  /\ spent = {}
  /\ ledger = [h \in Handlers |-> <<>>]

Open(h) ==
  /\ phase[h] = "idle"
  /\ phase' = [phase EXCEPT ![h] = "open"]
  /\ UNCHANGED <<spent, ledger>>

Spend(h) ==
  /\ phase[h] = "open"
  /\ phase' = [phase EXCEPT ![h] = "spent"]
  /\ \E c \in spent' : c.h = h /\ Permits(c) /\ spent' = spent \cup {c}
  /\ UNCHANGED ledger

Close(h) ==
  /\ phase[h] \in {"open", "spent"}
  /\ phase' = [phase EXCEPT ![h] = "closed"]
  /\ \E d \in {"allowed", "denied"} :
       /\ d = "allowed" => phase[h] = "spent"
       /\ Len(ledger'[h]) = 1 /\ ledger'[h][1].decision = d
       /\ \A k \in Handlers \ {h} : ledger'[k] = ledger[k]
  /\ ledger[h] = <<>>
  /\ UNCHANGED spent

\* The request is closed, and the ledger did not take its entry.
CloseUnrecorded(h) ==
  /\ phase[h] \in {"open", "spent"}
  /\ phase' = [phase EXCEPT ![h] = "unrecorded"]
  /\ ledger[h] = <<>>
  /\ UNCHANGED <<spent, ledger>>

\* The process ends with requests unfinished.
Lose ==
  /\ phase' = [h \in Handlers |-> IF phase[h] \in {"open", "spent"} THEN "lost" ELSE phase[h]]
  /\ UNCHANGED <<spent, ledger>>

Next == Lose \/ \E h \in Handlers : Open(h) \/ Spend(h) \/ Close(h) \/ CloseUnrecorded(h)

Spec == Init /\ [][Next]_vars
=============================================================================
