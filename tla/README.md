# Confidant: verification project

Confidant keeps API credentials away from the tools that use them. A local
**agent** intercepts a tool's HTTPS requests, finds a *reference* (`cfdt:...`)
where the credential should be, and relays the request to the **broker**
(`confidant-proxy`), which authorizes it, unwraps the sealed credential, attaches
it, calls the upstream API and returns the scrubbed answer. Credentials are
**enrolled** into a store file, sealed under a local dev KEK or a cloud KMS key
that releases the data key only to an attested image.

This directory models the broker, its cloud KMS client, enrolment and the agent
in TLA+, checks the models with TLC on small instances and proves their safety
properties for every instance with TLAPS. Every definition is translated from the Go source;
`PROJECT.json` ("map") gives the lines.

## Inventory

| Part | State | Operations | Interacts with | Hard because |
|---|---|---|---|---|
| Request pipeline (`proxy/internal/pipeline`) | per request: decoded request, chosen status, secret buffer | `Handle`: decode, resolve, authorize, egress, module, unwrap, build, apply, call, scrub, relay, audit | store, limiter, unwrapper, upstream, audit | one goroutine per request; fourteen return paths; the reply precedes the record, which may fail; the agent has no deadline |
| Spend policy (`proxy/internal/policy`) | none | `Authorize`, `MatchHost` | pipeline, limiter | wildcards, case, empty lists |
| Rate limiter (same package) | a window per id | `Allow` | every handler | fixed windows: what holds over *any* minute |
| Audit chain (`proxy/internal/audit`) | last hash, the file | `Write`, `VerifyChain` | every handler, the file | concurrent writers, failing writes, restarts, edits |
| Secret store (`proxy/internal/store`) | map of records, the file | `Get`, `Put`, `LoadFile`, `SaveFile`, `EnvelopeAAD` | boot, enrolment, pipeline | plaintext policy beside the ciphertext; non-atomic save |
| Envelope encryption (`shared/kms`) | none | `Seal`, `SealKMS`, `Unwrap` | enrolment, pipeline | what the associated data binds |
| GCP KMS client (`shared/kms/gcp`) | cached access token, mutex | `DecryptDEK`, `Encrypt`, `accessToken`, token exchange | launcher, STS, IAM, KMS | expiry races the call; a mutex held across the network |
| Credential modules (`proxy/internal/credmod`) | none | `Get`, `IsImplemented`, `Apply` | pipeline | stubs that must fail before the unwrap |
| Broker process (`proxy/main.go serve`) | up, draining, down | boot, signal, shutdown, exit | all of the above | a shutdown deadline shorter than the calls it waits for |
| Enrolment (`proxy/main.go enroll`) | KEK file, store file | `runEnroll` | a second enrolment, a booting broker | truncate-then-write, crashes, no lock |
| Broker configuration, TLS, routes (`proxy/internal/config`, `server`) | none | `FromEnv`, `ValidateForServe`, `BuildServerTLS` | boot | a dozen settings that must fit together |
| Agent proxy (`agent/internal/proxy`, `refs`) | per connection: stage, request, buffered bytes, two copying goroutines | CONNECT, intercept or tunnel, detect, strip, relay, answer | tools, servers, broker client | keep-alive and pipelining, half-closed tunnels, broken and compressed bodies, no deadlines |
| Agent broker client (`agent/internal/broker`) | a connection pool | `New`, `Relay`, the pin | proxy, broker | a deadline for connecting and none for answering |
| Agent configuration (`agent/internal/config`) | none | `IsIntercepted`, `DetectFor`, `PermittedCADomains`, `IsLoopback` | proxy, CA | map order, case, wildcards |
| Agent local CA (`agent/internal/ca`) | CA, leaf cache, two files | `LoadOrCreate`, `New`, `persist`, `LeafFor` | start, tools' trust store | two files, crashes, overlapping starts, old constraints, expiry |
| Agent process (`agent/main.go`) | up or not | start, export, bind, shutdown | all of the agent | the CA is built before the port is bound; shutdown does not wait for hijacked connections |

What makes each part correct:

* pipeline: a credential leaves only as the policy it was *sealed* with allows; a
  refusal says truthfully whether anything was spent; no request has two audit
  records, and the one it has agrees with the reply; shutdowns end, and a request
  does if its own agent does its part;
* limiter: a bound over every stretch of time, and no undeserved refusal;
* audit chain: concurrent and failing writes keep it linked; edits show;
* KMS client: no expired token in a call, one exchange for many callers, every
  call returns;
* enrolment: nothing enrolled is lost or becomes unopenable, and a broker that
  boots in the middle is consistent;
* configuration: a broker that serves is protected as its mode says;
* agent proxy: only references are relayed, answers stay aligned with requests
  and are true, tunnels deliver, and end once a side is over;
* local CA: an exported CA survives crashes and restarts, certificate and key
  belong together, leaves verify for what is intercepted and nothing else.

## Modules

| Module | Models |
|---|---|
| `Policy` | pure operators: host and method matching, the window arithmetic of `Limiter.Allow` |
| `Limiter`, `MCLimiter`, `LimiterProofs` | the limiter alone over a clock, with the history of its grants |
| `CredentialUse` | abstract specification: a request is opened, spends at most once and only as permitted, and is closed with one ledger entry, with none if the ledger did not take it, or is lost with the process |
| `Pipeline`, `MCPipeline`, `PipelineProofs` | `Handler.Handle` in any number of goroutines, with limiter, store, unwrapper, upstream, audit and the life of the process; implements `CredentialUse` |
| `AuditChain`, `MCAuditChain`, `AuditChainProofs` | `ChainWriter.Write` in three steps (lock and link, append or fail), `VerifyChain`, restart, edits of the file |
| `TokenCache`, `MCTokenCache`, `TokenCacheProofs` | concurrent `DecryptDEK` calls, the token cache and the exchange attestation → STS → IAM with its timeouts |
| `BrokerConfig` | pure operators: which configurations may serve, and how the listener is protected |
| `Enroll`, `MCEnroll`, `EnrollProofs` | `runEnroll` processes on the KEK and store files, crashes, and a broker booting, under any configuration, from the same files |
| `AgentConfig` | pure operators: what is intercepted, where a reference is looked for, what is one, what is left of a request |
| `AgentProxy`, `MCAgent`, `AgentProxyProofs` | the agent's connections between tools, blind servers and the broker; the broker is the environment that `CredentialUse` describes |
| `LocalCA`, `MCLocalCA`, `LocalCAProofs` | agents starting on the same two CA files, export and trust, the leaf cache, expiry |

### How state and actions correspond to the code

**Pipeline.** `pc[h]` names the stage of `Handle` that handler `h` is about to
execute; every stage is one action with one disjunct per return path. `store`,
`windows` and the handler's locals are variables of the same meaning. A host is a
sequence of labels, case folding a constant function, a URL a form and a host, a
body one of "ok", "too large", "not base64". An envelope carries the associated
data it was sealed with (`seal`): it opens exactly if algorithm, version, KEK and
associated data agree, which is what AES-GCM gives. `Stores` is the set of
contents the store file may have at a boot; it includes files edited behind the
broker's back. `granted`, `unwraps` and `calls` are history. The process may be
signalled, drains, and either every handler has returned (`Exit`) or the deadline
of 10 s passes while a handler waits for the agent's body, KMS, the upstream or the
agent's reading of the answer (`DeadlineExit`), which ends all of them. `Audit` has
two outcomes if `SinkFails`: the record is written, or the error of `Audit.Write` is
dropped and the handler returns "unrecorded". `UpstreamTimeout` says whether
`UPSTREAM_TIMEOUT` is positive; zero, which is accepted, means that there is none.

**Limiter.** `Allow` runs under a mutex and reads the clock there, so it is one
step. A nil window is the one with count 0.

**AuditChain.** SHA-256 is a function without collisions: a hash is the sequence
of everything it depends on. JSON is modelled by what it does to text: a byte
that is not UTF-8 is written as an escape, read back as the replacement character
and then written unescaped, so such a record hashes differently when verified.
`trail` is the history of the records whose writing succeeded; `file` is what is
there now. A write that fails leaves nothing, a part of the line, or all of it but
the newline (`bytes`); the last is a record to `VerifyChain`, whose decoder needs no
newline, but not to the writer, whose `last` stays. A part is a line of its own,
although the next record would follow it without a newline: both make `VerifyChain`
fail at that place. The editor of `Tamper` computes no hashes: the chain has no key,
so whoever rewrites it from some record to its end makes a file that verifies, and
neither the code nor its tests claim otherwise.
`TamperEvident` compares what the lines decode to: `VerifyChain` hashes what
decoding returned, so rewriting the replacement character as its escape passes
unnoticed, and changes nothing a reader of the log sees.

**TokenCache.** One tick is one HTTP timeout (15 s) or less, the skew is four.
The time a token spends between minting and the reading of the reply counts: STS
states a lifetime that the client counts from the reply, IAM an absolute expiry.
`pinned` is the WIF condition, `live[c]` whether it held when call `c` began.

**Enroll.** A file is missing, empty, torn or whole. `os.WriteFile` is two steps,
truncate and write; reading, opening and writing may fail, and a process may die
anywhere. A KEK is named after the process that made it, and a record opens
exactly under the KEK that sealed it, because the record's id and policy are the
ones its associated data was made of. Ids and policies are taken to be UTF-8.
`overlapped`, `damaged` and `misread` are history, the exact conditions under
which a property is claimed. The boot of a broker is three steps after the check
of its configuration: KEK, store, everything else; an enclave has its KEK in
Cloud KMS and reads no KEK file.

**AgentProxy.** `stage[c]` is where the goroutine of connection `c` stands:
idle, then dial and tunnel for a host that is not intercepted, handshake, read,
serve, relay and write for one that is, and closed. Connections share nothing but
the leaf cache (in `LocalCA`) and the pool of broker connections, so one connection
shows what any number does. A request is its header fields, its parameters, whether
its body reads, and whether it asks to close; a value is a reference, a real
credential, a SigV4 signature or absent, behind a prefix. `DetectFor` is the *set*
of rules the walk over the map may return. The broker spends a delivered request
at most once, answers truthfully (what `Pipeline!RefusalMeansUnspent` shows of it)
and does not stop because the agent is gone. What net/http does to an answer on
the way is modelled by its effect: a gzip body of announced length loses its
length (`Framing`), and a body that broke off shows as an error unless it came in
chunks, which the broker, having dropped the error of `io.Copy`, ends properly
(`EndsShort`), and no gzip stream in it broke off with it (`BreaksOff`). In a tunnel the bytes are
numbered chunks; the first may have come with the CONNECT head.

**LocalCA.** A CA is a number; its certificate and key carry that number, so a
mixture is two different ones. Each file is missing, torn, or a CA's;
writing truncates first. `cas` remembers for which list and when a CA was made.
A tick is longer than a leaf lives and no longer than a CA does. The user may
remove files, and a file may fail to be read (`disturbed`, with overlapping
starts). Name constraints cover a domain and everything under it, and a
certificate without domains has none.

## Runs

| Run | Bounds | Shows |
|---|---|---|
| `limiter` | 3 ids (rates 2, 1, none), window of 3 ticks, clock to 9 | `SlidingBound`, `RefusalEarned` and the inductive `WindowInv`: three windows are enough for two bursts around a boundary |
| `pipeline` | 2 handlers, 2 ids, 9 requests, 3 stores, 2 hops, 2 lives | `CredentialBound`, `RefusalMeansUnspent`, `RateSpent`, `AuditMatchesReply`, the refinement `RefinesUse`, the liveness `ComesToRest`, with a sink that may fail and one of the two agents willing. Upstreams answer 403, a code that is also the broker's. Two handlers are enough for every pairwise race (rate 1); each return path of `Handle` has a request and a store that take it |
| `pipeline_audit_loss` | same | **violated**: `EveryRequestAudited` |
| `pipeline_redirect` | same | **violated**: `EveryHopAllowed` |
| `audit_chain` | 2 writers, 3 kinds of record, 3 calls, 2 lives, 1 failing write, 2 edits | `LifeVerifies`, `TamperEvident`, `ChainInv`, `WriteReturns` |
| `audit_restart` | 2 plain records | **violated**: `UntouchedLogVerifies` |
| `token_cache` | 2 callers, lifetimes 3, 6 or not stated, clock to 9 | `TokenFresh`, `ExchangeInv`, `OneExchange`, `CallsReturn` |
| `token_repin` | same | **violated**: `LiveAttestation` |
| `enroll` | 3 processes, 2 ids, symmetric; 11 configurations, 3 of which may serve | `EnrolledKept`, `EnrolledOpens`, `ServerOpens`, `LatestServes`, `ServesAsDeclared`: one process to damage, one to recover, one to disturb |
| `agent` | 1 connection, 4 hosts, 6 requests, 9 answers, 3 requests a connection, 3 chunks a direction | `OnlyRefsRelayed`, `AnswersAligned`, `AnswerTruthful`, `TunnelDelivers`, the liveness `TunnelEnds`, `RequestEnds`. Two requests are enough for a shifted answer, one early and two later chunks for a lost or reordered one |
| `agent_verbatim` | 2 requests, 2 chunks | **violated**: `EndOfAnswerShown` |
| `local_ca` | 2 agents, 3 starts, 3 configurations that may start, 2 names, 2 ticks | `TrustKept`, `KeyMatches`, `LeafVerifies`, `Constrained`. Three starts are enough to damage the files, to recover, and to be led astray by the recovery |

A run marked *violated* checks what a document or a comment of the repository
says; its counterexample is what the code does ("findings" in `PROJECT.json`):

* a request in flight when the shutdown deadline passes is spent and never
  audited (I-B10);
* a request whose record the sink does not take is answered all the same and has
  no record (I-B10; the same property and run, which TLC ends at the shorter path
  above);
* the upstream client follows redirects to hosts that neither list names (I-B7);
* a restart makes an untouched audit log unverifiable (E-B3);
* a cached access token unwraps for its lifetime after the image was unpinned
  (I-B6);
* a gzip answer of announced length reaches the tool without framing on a kept
  connection, and both sides wait (local-agent.md, section 1: "verbatim").

Other places where the code differs from its documents, met while modelling and
visible in the conditions of the properties:

* an agent that stalls in its request body, or does not read the answer, holds its
  handler until a shutdown (`Decode` and `Relay` without fairness): the server sets
  `ReadHeaderTimeout` only, and `UPSTREAM_TIMEOUT` may be zero, where broker-core.md,
  section 2, has a "request timeout on every proxied call";
* a chunked answer that broke off upstream is ended properly by the broker and
  reaches the tool as a whole one (`EndsShort`), where broker-core.md, section 6, has
  the body "verbatim";
* `loadOrCreateKEK` overwrites a KEK file that does not load, a good one whose reading
  failed too, where the flag says "created if missing"; `LoadOrCreate` does the same
  with a CA file that cannot be read (`misread`, `disturbed`);
* the local CA is constrained to the list it was *created* with, so that after a
  restart with a shorter list it still signs for the names that are gone, to
  everything under an exact host too, and not at all if the list was empty; I-A6 says
  the intercept list;
* inside an intercepted connection a leaf is minted for whatever name the tool
  asks for, intercepted or not; the constraints make it useless elsewhere;
* a host with a trailing dot is not intercepted but tunnelled;
* with overlapping patterns detection is not "deterministic per host" (refs.go);
* a query rule without a name finds a reference and strips nothing;
* without `CONFIDANT_BROKER_SPKI_PIN` the broker is not pinned (I-A9), and
  `Config.Validate` of the agent is never called;
* `validateEnclaveListen` knows three spellings of a wildcard address; in dev mode
  `CLIENT_CA` without a server certificate serves plaintext to anyone.

Deadlock is checked where the system never stops (`limiter`, `token_cache`); a
broker or an agent that has exited for the last time, an audit log whose bounded
calls are used up and enrolments that are over may stop, and their runs say so.

### Fairness

* `Pipeline`: weak fairness of the stages that need nobody or a bounded call
  (goroutines run; the KMS client has a 15 s timeout per call; a refusal fits into
  the server's buffer; a write to the sink returns), of the upstream call if there is
  an `UPSTREAM_TIMEOUT`, and of the end of a shutdown (its own deadline). Nothing is
  promised of `Decode` and `Relay`, which wait for the agent: the server sets
  `ReadHeaderTimeout` only. They are fair for the handlers in `Willing` alone, whose
  agents send and read; the run has one handler in it and one outside. Nothing obliges a request, a signal or a restart to come.
* `AuditChain`, `TokenCache`: strong fairness of taking the mutex, since Go's
  `sync.Mutex` hands over to a starving waiter, and weak fairness of what follows
  (a file write returns; every HTTP call has a timeout).
* `AgentProxy`: weak fairness of the goroutines where they need nothing from
  outside, or have a deadline: dialling (15 s), serving a request that has been read
  (its refusals fit into the socket's buffer), connecting to the broker (10 s), and
  the *end* of a copy whose source has ended and whose other side does not have to
  read any more. No chunk of a tunnel is promised to be copied: a write may wait for
  ever for a peer that does not read, in which case a tunnel whose tool has left
  stays too, unless all it sent was delivered (`TunnelEnds`). Nothing is promised of
  the tool, the server or the broker; `RequestEnds` names the two further assumptions
  it needs, that the broker answers and the tool reads.
* `Enroll`, `LocalCA` and `Limiter` claim no liveness.

## Proofs

Every invariant, action property and refinement that a passing run checks is also
a theorem about the specification, for every value of the constants:

| Module | Theorems of the form `Spec => []P` | Rest on |
|---|---|---|
| `LimiterProofs` | `TypeOK`, `WindowInv`, `SlidingBound`, `RefusalEarned` | `WindowInv` |
| `PipelineProofs` | `TypeOK`, `CredentialBound`, `RefusalMeansUnspent`, `AuditMatchesReply`, `RateSpent`; the refinement `Spec => RefinesUse` | `SpendInv`, `StoryInv`, `RateInv` |
| `AuditChainProofs` | `TypeOK`, `ChainInv`, `LifeVerifies`, `TamperEvident` | `ChainInv`, `OriginInv` |
| `TokenCacheProofs` | `TypeOK`, `ExchangeInv`, `TokenFresh`; the action property `Spec => OneExchange` | `ExchangeInv`, `FreshInv` |
| `EnrollProofs` | `TypeOK`, `EnrolledKept`, `EnrolledOpens`, `ServerOpens`, `LatestServes`, `ServesAsDeclared` | `RunInv`, `KeyInv`, `KeepInv`, `BootInv` |
| `AgentProxyProofs` | `TypeOK`, `OnlyRefsRelayed`, `AnswersAligned`, `AnswerTruthful`, `TunnelDelivers` | `RelayInv`, `PairInv`, `AccountInv`, `TunnelInv` |
| `LocalCAProofs` | `TypeOK`, `KeyMatches`, `TrustKept`, `LeafVerifies`, `Constrained` | `MadeForList`, `FileInv` |

The inductive invariants stand at the end of the component's module, with
`RateInv` in `PipelineProofs`; TLC has checked each of them on the instance of the
component's run before it was proved. Each proof has one step per action, and
lemmas that say what a step of one handler, connection, process or agent owes the
invariant of the others (nothing: that is what makes the argument independent of
their number).

*The limiter.* `SlidingBound` compares grants that lie `2*rpm - 1` places apart
and says nothing of the open window, so it is not inductive. `WindowInv` adds that
the last `count` grants are those of the window, that the first of them opened it,
and that every grant `rpm` or more places before that one is a full window older.
A new grant in an open window then has its partner before the previous window's
start; a grant that opens a window has it before the window just closed.

*The pipeline: what a credential is spent on.* `CredentialBound` is about requests
that have left; the reasons lie in what a handler has established on the way.
`SpendInv` says that a handler past the policy check is still permitted by the
store it will read next, past the egress check still inside the list, past the
unwrap holding a secret sealed for its id and with the stored policy, and that no
handler is in the pipeline while the process is down, the only time the store may
change. The last conjunct is why a restart cannot disturb a handler half-way.

*The pipeline: what is said of it.* `StoryInv` says for each stage what was
unwrapped, sent, replied and recorded before it; the codes of `RefusalMeansUnspent`
follow from the stage that chose them, and `AuditMatchesReply` from the reply that
precedes the record and the outcome of writing it. The refinement mapping of `CredentialUse` reads a handler as
open until its first call, as spent from then on, and as closed, unrecorded or lost
when it has returned, with its record or without, or died; with `StoryInv` and `SpendInv` every step maps to a step of it or
to a stutter, and its specification states no fairness.

*The pipeline: the rate.* `RateSpent` counts calls, but a handler that has been
admitted and has not sent yet will be one. `RateInv` counts places: handlers past
`Authorize`, or with a call. Only a grant adds a place. The window that grants it
either is the present one, which counts at least its own places and is not full,
or is opened now, later than every place granted so far, so that it has none. A
restart starts a new life, of which there are no places; calls of earlier lives keep
the count they had when their life ended, against the rate they were *sealed* with,
whatever the store file says now.

*The audit chain.* `ChainInv` says that exactly the writer between link and
append holds the mutex, that its line is linked to `last`, and that `last` is the
hash of the last record of the trail. A write that fails leaves `last` and the trail
as they were; one that leaves a line or a part of one takes the file out of
`LifeVerifies` and `TamperEvident`, which speak of files of whole lines.
For `TamperEvident`, `OriginInv` adds that record `k` has the `k`-th hash of the
chain, and that every whole line of the file, however edited, carries the two hashes
of some record written. Take the first line of a verifying file that does not read
as the record in its place: its predecessor does, so it names the hash before
record `k`; only record `k` does, so it has that record's hash; and then it decodes
to what that record decodes to. The first such line exists because `<` is well
founded on the naturals (`Least`), which is how an induction over the length of the
file is done here.

*The token cache.* `ExchangeInv` is inductive as it stands: the mutex is held from
the look at the cache to the reply. `FreshInv` relates deadlines, minting and
expiry: a call is over by its deadline, a reply is read within one timeout of the
minting, so the cache overstates an expiry by at most that, and a skew of two
timeouts or more (the code's is four) covers this and the call itself.

*Enrolment.* What is on disk is what the one process at work found, as long as
enrolments do not overlap (`RunInv`). Then the records in the store file, in that
process and in a broker that has read the KEK are under the KEK on file (`KeyInv`),
and what was enrolled is in the file or in the hands of the process that has
truncated it (`KeepInv`, which needs that no file was left damaged). `BootInv`
carries what the checks of the configuration established to the moment of serving.

*The agent.* `PairInv` relates the number of requests read to that of answers
written in each stage; `AccountInv`
relates what the tool was told to the broker's ledger, which may still change after
the agent has given up on a request; `TunnelInv` says that what either side has got
is what the other has sent, in order, less what is still in the copies.

*The local CA.* `FileInv` says what each stage of `LoadOrCreate` and `persist`
finds: the certificate is written first and a pair on file is never touched again,
so a key on file has its certificate. `MadeForList` ties a CA's domains to its list,
from which `LeafVerifies` and `Constrained` follow with the matching of names.

Assumed of the constants, each where it is declared and evaluated by TLC in the
component's run: rates are integers and the window is a positive number of ticks;
a store file maps ids to records (`StoresAssumption`); a listen address is of one of
the kinds `BrokerConfig` tells apart (`ConfigsAssumption`); a host that a tool asks
for has at least one label (`HostsAssumption`); the broker's server frames an answer
by its length or in chunks (`AnswersAssumption`); tokens live longer than the calls
that fetch and use them (`TokenAssumption`); folding case twice is folding it once;
the special values differ from the ordinary ones; the bounds are natural numbers.

Only model-checked: the liveness properties `ComesToRest`, `WriteReturns`,
`CallsReturn`, `TunnelEnds` and `RequestEnds`. Liveness under fairness, and ENABLED,
are out of the prover's reach.

## Not modelled

* Data: header names and values, the scrub list, templates of `Static.Apply`,
  body bytes, error texts, log lines. That an answer never reflects a credential
  (I-B3) is therefore not a claim of this project.
* What net/http strips or rewrites on a redirect (the `Authorization` header on a
  change of domain, POST to GET): a hop is recorded with its host.
* net/http's own repetition of an idempotent request on a kept connection that turns
  out to be closed: a call of `Do` counts as one.
* In `Pipeline`, a body that breaks off while it is relayed: `io.Copy`'s error is
  dropped and the record says allowed. What it means for the tool is in
  `AgentProxy`.
* `PER_SECRET_CONCURRENCY`, `require_confirm`, `daily_usd_cap`: stored or
  documented, enforced nowhere in the code.
* Cutting off the end of the audit log, and rewriting it from some record on with
  hashes computed anew: no chain of this form, without a key, shows either.
* Lifetimes of tokens shorter than the calls that fetch and use them
  (`TokenAssumption`): the code would cache such a token for an hour.
* The enrolment client's own token cache: one call with a static token.
* Answers without a body (HEAD, 204, 304), protocol upgrades and HTTP/1.0 on the
  agent's side; the tool's choice of what to trust beyond the exported CA.
* Reading JSON and the environment in the agent's configuration; the caller
  metadata, which is a time stamp; the routes of the broker; logging; the
  deployment script; the phase 2 documents and skills, which have no code here.

## Plan

1. `Broker`: agent and pipeline in one module instead of `CredentialUse` as the
   agent's environment, with a tool that retries, and the proof that what the agent
   assumes of the broker (`Says`, a request spent at most once) is what the pipeline
   does.
2. The pure operators (`MatchHost`, `Hostname`, `DetectRef`) as lemmas of their own
   where a proof does not already need them.
