----------------------------- MODULE TokenCache -----------------------------
(***************************************************************************)
(* The access-token cache of shared/kms/gcp: concurrent DecryptDEK calls   *)
(* share one cached token under a mutex that is held across the exchange   *)
(* attestation -> STS -> (service account), each an HTTP call with a       *)
(* timeout, and then call Cloud KMS with the token they were given.        *)
(*                                                                         *)
(* One tick of the clock is one HTTP timeout or less.  The launcher, STS,  *)
(* IAM and KMS are modelled from what the client asks of them.             *)
(***************************************************************************)
EXTENDS Integers

CONSTANTS Callers,     \* handler goroutines that unwrap
          CallTime,    \* the HTTP client's timeout (15s)
          Skew,        \* tokenRefreshSkew (60s)
          DefaultTtl,  \* what a missing lifetime is replaced by (1h)
          Ttls,        \* lifetimes STS and IAM give; 0: none stated
          MaxTime,     \* bound on the clock
          NoCaller     \* the mutex is free

\* The providers' lifetimes outlast the call that asks for a token and the one
\* that first uses it.
ASSUME TokenAssumption ==
  /\ CallTime \in Nat \ {0} /\ Skew \in Nat /\ DefaultTtl \in Nat \ {0} /\ MaxTime \in Nat
  /\ 2 * CallTime <= Skew
  /\ Ttls \subseteq Nat
  /\ \A t \in Ttls : t = 0 \/ t > 2 * CallTime
  /\ NoCaller \notin Callers

VARIABLES
  now,
  impersonates,  \* cfg.ServiceAccount is set
  pinned,        \* the WIF condition still names this image
  mu,            \* Client.mu: its holder, or NoCaller
  cached,        \* Client.cached: [tok, expiry]
  pc,            \* stage of each caller
  tok,           \* the token each caller holds
  deadline,      \* when the caller's HTTP call times out (0: none in flight)
  live,          \* history: this caller's image was still pinned when it called
  used           \* history: the last call that reached KMS

vars == <<now, impersonates, pinned, mu, cached, pc, tok, deadline, live, used>>

\* A token: when the provider stops honouring it, and the lifetime it was
\* announced with (0: none; then exp means nothing).
NoToken == [exp |-> 0, ttl |-> 0]
Unused == [reached |-> FALSE, ok |-> FALSE, stated |-> FALSE, live |-> FALSE]

\* HTTP calls in flight; "... reply": the server has done its part.
Exchange == {"attest", "sts", "sts reply", "iam", "iam reply"}
Network == Exchange \cup {"kms"}
Stages == {"idle", "lock"} \cup Network

-----------------------------------------------------------------------------
\* Mutant: the skew is forgotten.
UsableToTheEnd(c) == c.tok # NoToken /\ now < c.expiry

\* The cached token is handed out until Skew before its expiry.
Usable(c) == c.tok # NoToken /\ now < c.expiry - Skew

\* Mutant: the missing lifetime is subtracted, not replaced.
LifetimeNegative(ttl) == IF ttl <= 0 THEN -DefaultTtl ELSE ttl

\* A lifetime that is not stated counts as an hour.
Lifetime(ttl) == IF ttl <= 0 THEN DefaultTtl ELSE ttl

Init ==
  /\ now = 0
  /\ impersonates \in BOOLEAN
  /\ pinned = TRUE
  /\ mu = NoCaller
  /\ cached = [tok |-> NoToken, expiry |-> 0]
  /\ pc = [c \in Callers |-> "idle"]
  /\ tok = [c \in Callers |-> NoToken]
  /\ deadline = [c \in Callers |-> 0]
  /\ live = [c \in Callers |-> FALSE]
  /\ used = Unused

Send(c, stage) ==
  /\ pc' = [pc EXCEPT ![c] = stage]
  /\ deadline' = [deadline EXCEPT ![c] = now + CallTime]

\* DecryptDEK is called and asks for an access token.
DecryptDEK(c) ==
  /\ pc[c] = "idle"
  /\ pc' = [pc EXCEPT ![c] = "lock"]
  /\ live' = [live EXCEPT ![c] = pinned]
  /\ UNCHANGED <<now, impersonates, pinned, mu, cached, tok, deadline, used>>

\* Mutant: the mutex guards the look into the cache, not the exchange.
LockBriefly(c) ==
  /\ pc[c] = "lock"
  /\ mu = NoCaller
  /\ \/ /\ Usable(cached)
        /\ tok' = [tok EXCEPT ![c] = cached.tok]
        /\ Send(c, "kms")
     \/ /\ ~Usable(cached)
        /\ Send(c, "attest")
        /\ UNCHANGED tok
  /\ UNCHANGED <<now, impersonates, pinned, mu, cached, live, used>>

\* accessToken takes the mutex: a usable token is returned at once (and the KMS
\* call goes out with it), otherwise the exchange starts with the mutex held.
Lock(c) ==
  /\ pc[c] = "lock"
  /\ mu = NoCaller
  /\ \/ /\ Usable(cached)
        /\ tok' = [tok EXCEPT ![c] = cached.tok]
        /\ Send(c, "kms")
        /\ UNCHANGED mu
     \/ /\ ~Usable(cached)
        /\ mu' = c
        /\ Send(c, "attest")
        /\ UNCHANGED tok
  /\ UNCHANGED <<now, impersonates, pinned, cached, live, used>>

\* The launcher returns an attestation token; it goes to STS.
Attested(c) ==
  /\ pc[c] = "attest"
  /\ Send(c, "sts")
  /\ UNCHANGED <<now, impersonates, pinned, mu, cached, tok, live, used>>

\* STS checks the attestation against the WIF condition and mints a token.
StsMints(c, ttl) ==
  /\ pc[c] = "sts"
  /\ pinned
  /\ tok' = [tok EXCEPT ![c] = [exp |-> now + ttl, ttl |-> ttl]]
  /\ pc' = [pc EXCEPT ![c] = "sts reply"]
  /\ UNCHANGED <<now, impersonates, pinned, mu, cached, deadline, live, used>>

\* The token is cached until ttl from now, the mutex released, KMS called.
Keep(c, ttl) ==
  /\ cached' = [tok |-> tok[c], expiry |-> now + Lifetime(ttl)]
  /\ mu' = NoCaller
  /\ Send(c, "kms")

\* The STS reply is read: expires_in counts from now, not from the minting.
StsReply(c) ==
  /\ pc[c] = "sts reply"
  /\ IF impersonates
     THEN Send(c, "iam") /\ UNCHANGED <<mu, cached>>
     ELSE Keep(c, tok[c].ttl)
  /\ UNCHANGED <<now, impersonates, pinned, tok, live, used>>

\* IAM mints a service-account token for the federated one.
IamMints(c, ttl) ==
  /\ pc[c] = "iam"
  /\ tok' = [tok EXCEPT ![c] = [exp |-> now + ttl, ttl |-> ttl]]
  /\ pc' = [pc EXCEPT ![c] = "iam reply"]
  /\ UNCHANGED <<now, impersonates, pinned, mu, cached, deadline, live, used>>

\* The IAM reply is read: expireTime is absolute, and its rest is the lifetime; an
\* expireTime that does not parse counts as an hour.
IamReply(c) ==
  /\ pc[c] = "iam reply"
  /\ Keep(c, IF tok[c].ttl = 0 THEN DefaultTtl ELSE tok[c].exp - now)
  /\ UNCHANGED <<now, impersonates, pinned, tok, live, used>>

\* DecryptDEK returns, and its token is forgotten.
Return(c) ==
  /\ pc' = [pc EXCEPT ![c] = "idle"]
  /\ tok' = [tok EXCEPT ![c] = NoToken]
  /\ deadline' = [deadline EXCEPT ![c] = 0]
  /\ live' = [live EXCEPT ![c] = FALSE]

\* Mutant: the error path of accessToken returns without the Unlock.
FailsLocked(c) ==
  /\ pc[c] \in Network
  /\ Return(c)
  /\ UNCHANGED <<now, impersonates, pinned, mu, cached, used>>

\* An HTTP call fails or times out: DecryptDEK returns the error and the deferred
\* Unlock runs.
Fails(c) ==
  /\ pc[c] \in Network
  /\ Return(c)
  /\ mu' = IF mu = c THEN NoCaller ELSE mu
  /\ UNCHANGED <<now, impersonates, pinned, cached, used>>

\* The decrypt call reaches KMS, which honours the token or not.
KmsDecides(c) ==
  /\ pc[c] = "kms"
  /\ used' = [reached |-> TRUE, ok |-> tok[c].ttl = 0 \/ now < tok[c].exp,
              stated |-> tok[c].ttl # 0, live |-> live[c]]
  /\ Return(c)
  /\ UNCHANGED <<now, impersonates, pinned, mu, cached>>

\* Time passes, but no HTTP call outlives its timeout.
Tick ==
  /\ now < MaxTime
  /\ \A c \in Callers : pc[c] \in Network => now < deadline[c]
  /\ now' = now + 1
  /\ UNCHANGED <<impersonates, pinned, mu, cached, pc, tok, deadline, live, used>>

\* The operator pins the WIF condition to another image.
Repin ==
  /\ pinned
  /\ pinned' = FALSE
  /\ UNCHANGED <<now, impersonates, mu, cached, pc, tok, deadline, live, used>>

Step(c) ==
  \/ Attested(c) \/ StsReply(c) \/ IamReply(c) \/ Fails(c) \/ KmsDecides(c)
  \/ \E ttl \in Ttls : StsMints(c, ttl) \/ IamMints(c, ttl)

Next ==
  \/ \E c \in Callers : DecryptDEK(c) \/ Lock(c) \/ Step(c)
  \/ Tick
  \/ Repin

\* Every HTTP call has a timeout, and Go's mutex does not starve a waiter.
Fairness == \A c \in Callers : WF_vars(Step(c)) /\ SF_vars(Lock(c))

Spec == Init /\ [][Next]_vars /\ Fairness

-----------------------------------------------------------------------------
Tokens == [exp : Nat, ttl : Nat]

TypeOK ==
  /\ now \in 0..MaxTime
  /\ impersonates \in BOOLEAN /\ pinned \in BOOLEAN
  /\ mu \in Callers \cup {NoCaller}
  /\ cached \in [tok : Tokens, expiry : Nat]
  /\ pc \in [Callers -> Stages]
  /\ tok \in [Callers -> Tokens]
  /\ deadline \in [Callers -> Nat]
  /\ live \in [Callers -> BOOLEAN]
  /\ used \in [reached : BOOLEAN, ok : BOOLEAN, stated : BOOLEAN, live : BOOLEAN]

\* A token whose lifetime the provider stated has not expired when the call that
\* carries it reaches KMS, cached or fresh: the skew covers both the time the
\* token spent in the reply that brought it and the time of the call that uses
\* it (gcp.go:51, "so an in-flight call never races the expiry").
TokenFresh == used.reached /\ used.stated => used.ok

\* A usable token is never replaced: callers that find the cache empty together
\* make one exchange, and the ones that waited take its result (gcp.go: the
\* mutex of accessToken, held across the exchange).
OneExchange == [][cached' # cached => ~Usable(cached)]_vars

\* The exchange runs under the mutex, and what its reply will overwrite is still
\* unusable when it arrives.
ExchangeInv ==
  \A c \in Callers : pc[c] \in Exchange => mu = c /\ ~Usable(cached)

\* The inductive invariant behind TokenFresh: a call is over by its deadline, a
\* minted token is read within one timeout of its minting, the cache overstates
\* an expiry by no more than that, and a token on its way to KMS outlives the call.
CallFresh(c) ==
  /\ pc[c] \in Network => now <= deadline[c] /\ deadline[c] <= now + CallTime
  /\ pc[c] \in {"sts reply", "iam reply"} =>
       /\ tok[c].ttl \in Ttls
       /\ deadline[c] + tok[c].ttl <= tok[c].exp + CallTime
  /\ pc[c] = "kms" /\ tok[c].ttl # 0 => deadline[c] < tok[c].exp

FreshInv ==
  /\ cached.tok.ttl # 0 => cached.expiry <= cached.tok.exp + CallTime
  /\ \A c \in Callers : CallFresh(c)
  /\ TokenFresh

\* Every unwrap comes back, with a token or an error, although one caller's
\* exchange holds up all the others (gcp.go: timeouts, deferred Unlock).
CallsReturn == \A c \in Callers : (pc[c] = "lock") ~> (pc[c] = "idle")

\* "KMS unwrap succeeds only under a live, matching attestation" (invariant I-B6):
\* KMS honours only calls that began while the WIF condition named this image.
LiveAttestation == used.reached /\ used.ok => used.live
=============================================================================
