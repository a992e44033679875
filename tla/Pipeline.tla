------------------------------ MODULE Pipeline ------------------------------
(***************************************************************************)
(* The broker's request pipeline (proxy/internal/pipeline: Handler.Handle) *)
(* with the parts of the process it runs in: the store loaded at boot, the *)
(* in-memory rate limiter, the unwrapper, the upstream client, the audit   *)
(* trail, and the life of the process (signal, drain, exit, restart).      *)
(*                                                                         *)
(* net/http runs one goroutine per request, so any number of handlers are  *)
(* in Handle at once.  A handler is one element of Handlers and serves one *)
(* request; its program counter pc names the stage it is about to execute. *)
(* A stage is one step: between two stages a handler touches nothing that  *)
(* another one can see, except for the limiter (a step under its mutex),   *)
(* the network and the audit trail.                                        *)
(***************************************************************************)
EXTENDS Policy, FiniteSets

CONSTANTS
  Handlers,      \* handler goroutines, one request each
  Ids,           \* secret ids
  Requests,      \* wire.Request values an agent may send
  Stores,        \* contents the store file may have when the process boots
  Egress,        \* cfg.EgressAllow: a set of host patterns
  Unwrapper,     \* [alg, kek, remote]: what buildUnwrapper built
  ValidMethods,  \* methods that http.NewRequest accepts (HTTP tokens)
  UpstreamCodes, \* status codes an upstream answers with
  RedirectHosts, \* hosts an upstream may redirect to
  UpstreamTimeout, \* whether UPSTREAM_TIMEOUT is positive (zero means none)
  Willing,       \* handlers whose agents send the whole request and read the answer
  SinkFails,     \* whether the audit sink may fail to take a record
  MaxHops,       \* bound on the hops of one upstream call (net/http: 10)
  MaxTime,       \* bound on the clock
  MaxLives       \* bound on the number of times the process starts

ASSUME PipelineAssumption ==
  /\ MaxHops \in Nat \ {0} /\ MaxTime \in Nat /\ MaxLives \in Nat \ {0}
  /\ UpstreamCodes \subseteq Nat
  /\ UpstreamTimeout \in BOOLEAN /\ SinkFails \in BOOLEAN
  /\ Willing \subseteq Handlers

\* A store file maps secret ids to records, and a rate is an integer.
ASSUME StoresAssumption ==
  \A s \in Stores :
    DOMAIN s \subseteq Ids /\ \A id \in DOMAIN s : s[id].policy.rpm \in Int

\* store.Record: the envelope, which carries the associated data it was sealed
\* with (seal), and the policy that stands beside it in plaintext.
Sealed(id, alg, key, kek, pol) ==
  [alg |-> alg, key |-> key, version |-> 1, kek |-> kek,
   seal |-> [id |-> id, alg |-> alg, key |-> key, policy |-> pol]]

VARIABLES
  proc,      \* "up", "draining" (Shutdown called) or "down"
  life,      \* number of starts of the process so far
  store,     \* the MemStore: a function from ids to records
  now,       \* the clock
  windows,   \* Limiter.windows
  pc,        \* stage of each handler
  req,       \* the decoded request of each handler
  status,    \* the status chosen for the reply
  secret,    \* the plaintext buffer: what was unwrapped, or NoSecret
  reply,     \* what was written toward the agent
  audited,   \* the records the auditor wrote for the request
  granted,   \* history: the limiter window that admitted the request
  unwraps,   \* history: handlers for which the unwrapper returned a secret
  calls      \* history: the requests that left for an upstream

handlerVars == <<pc, req, status, secret, reply, audited, granted, unwraps, calls>>
procVars == <<proc, life, store, now, windows>>
vars == <<proc, life, store, now, windows, pc, req, status, secret, reply, audited,
          granted, unwraps, calls>>

NoRequest == [ref |-> [id |-> "", prefix |-> FALSE]]
NoSecret == [id |-> ""]
NoReply == [from |-> "nobody", status |-> 0]
NoGrant == [life |-> 0, start |-> 0]

\* A handler returns with its record written ("done") or not ("unrecorded"), or is
\* killed with the process.
Returned == {"done", "unrecorded"}
Finished == {"idle", "killed"} \cup Returned

-----------------------------------------------------------------------------
\* Pure parts of Handle.

\* resolveRef: "cfdt:x" and "x" name the same id.
resolveRef(ref) == ref.id

\* strings.TrimSuffix(strings.ToLower(host), ".")
Hostname(host) ==
  LET h == LowerHost(host)
      n == Len(h)
  IN IF n > 1 /\ h[n] = "" THEN SubSeq(h, 1, n - 1) ELSE h

\* validateUpstreamURL refuses every form but an absolute https URL with a host
\* and without userinfo or fragment.
validURL(u) == u.form = "https" /\ u.host # <<>>

Malformed(q) == ~q.json \/ ~validURL(q.url) \/ q.body = "not base64"

egressAllowed(host) == Egress = {} \/ hostAllowed(Egress, host)

\* The host and method half of policy.Authorize.
Permitted(p, method, host) == methodAllowed(p.methods, method) /\ hostAllowed(p.hosts, host)

\* credmod: the registry, its stubs, and the inject types Static.Apply knows (""
\* means header; a query injection here is one that names its parameter).
Registered == {"static", "sigv4", "oauth2"}
Implemented == {"static"}
Applies(p) == p.inject \in {"", "header", "basic", "query"}

\* Mutant: the policy is not part of the associated data.
UnboundAAD(id, env, p) == [env.seal EXCEPT !.id = id]

\* EnvelopeAAD: what the record must have been sealed with to open.
EnvelopeAAD(id, env, p) == [id |-> id, alg |-> env.alg, key |-> env.key, policy |-> p]

\* Mutant: AES-GCM opens without the associated data.
OpensAny(env, aad) ==
  env.alg = Unwrapper.alg /\ env.version = 1 /\ env.kek = Unwrapper.kek

\* DevKEK.Unwrap and EnvelopeUnwrapper.Unwrap: the envelope has the algorithm and
\* the associated-data version of this unwrapper, is under its KEK, and AES-GCM
\* finds the associated data it was sealed with.
Opens(env, aad) ==
  /\ env.alg = Unwrapper.alg
  /\ env.version = 1
  /\ env.kek = Unwrapper.kek
  /\ env.seal = aad

ReqId(h) == resolveRef(req[h].ref)
ReqHost(h) == Hostname(req[h].url.host)
ReqPolicy(h) == store[ReqId(h)].policy

-----------------------------------------------------------------------------
Init ==
  /\ proc = "up" /\ life = 1 /\ now = 0
  /\ store \in Stores
  /\ windows = [id \in Ids |-> NoWindow]
  /\ pc = [h \in Handlers |-> "idle"]
  /\ req = [h \in Handlers |-> NoRequest]
  /\ status = [h \in Handlers |-> 0]
  /\ secret = [h \in Handlers |-> NoSecret]
  /\ reply = [h \in Handlers |-> NoReply]
  /\ audited = [h \in Handlers |-> <<>>]
  /\ granted = [h \in Handlers |-> NoGrant]
  /\ unwraps = {}
  /\ calls = {}

Goto(h, stage) == pc' = [pc EXCEPT ![h] = stage]

\* The first half of deny: the status is chosen, the error is about to be sent.
Deny(h, code) ==
  /\ Goto(h, "deny")
  /\ status' = [status EXCEPT ![h] = code]

\* The server accepts a connection and starts Handle.
Accept(h, q) ==
  /\ proc = "up"
  /\ pc[h] = "idle"
  /\ Goto(h, "decode")
  /\ req' = [req EXCEPT ![h] = q]
  /\ UNCHANGED <<procVars, status, secret, reply, audited, granted, unwraps, calls>>

\* Steps 1 and 2: decode the body, check the URL, decode the upstream body.  The
\* server sets no deadline for reading the body, so an agent that stalls leaves
\* its handler here.
Decode(h) ==
  /\ pc[h] = "decode"
  /\ \/ Malformed(req[h]) /\ Deny(h, 400)
     \/ ~Malformed(req[h]) /\ req[h].body = "too large" /\ Deny(h, 413)
     \/ ~Malformed(req[h]) /\ req[h].body = "ok" /\ Goto(h, "authorize") /\ UNCHANGED status
  /\ UNCHANGED <<procVars, req, secret, reply, audited, granted, unwraps, calls>>

\* Steps 3 and 4: resolve the ref and run policy.Authorize, whose last check
\* takes a place in the id's rate window.
Authorize(h) ==
  /\ pc[h] = "authorize"
  /\ \/ /\ ReqId(h) \notin DOMAIN store
        /\ Deny(h, 404)
        /\ UNCHANGED <<windows, granted>>
     \/ /\ ReqId(h) \in DOMAIN store
        /\ ~Permitted(ReqPolicy(h), req[h].method, ReqHost(h))
        /\ Deny(h, 403)
        /\ UNCHANGED <<windows, granted>>
     \/ /\ ReqId(h) \in DOMAIN store
        /\ Permitted(ReqPolicy(h), req[h].method, ReqHost(h))
        /\ LET w == windows[ReqId(h)]
               rpm == ReqPolicy(h).rpm
               after == AfterAllow(w, rpm, now)
           IN /\ windows' = [windows EXCEPT ![ReqId(h)] = after]
              /\ IF Allows(w, rpm, now)
                 THEN /\ granted' = [granted EXCEPT ![h] = [life |-> life, start |-> after.start]]
                      /\ Goto(h, "gate")
                      /\ UNCHANGED status
                 ELSE Deny(h, 429) /\ UNCHANGED granted
  /\ UNCHANGED <<proc, life, store, now, req, secret, reply, audited, unwraps, calls>>

\* Steps 5 and 6: the egress allowlist and the credential module's registry.
Gate(h) ==
  /\ pc[h] = "gate"
  /\ LET kind == ReqPolicy(h).kind
         egress == egressAllowed(ReqHost(h))
     IN \/ ~egress /\ Deny(h, 403)
        \/ egress /\ kind \notin Registered /\ Deny(h, 500)
        \/ egress /\ kind \in Registered \ Implemented /\ Deny(h, 501)
        \/ egress /\ kind \in Implemented /\ Goto(h, "unwrap") /\ UNCHANGED status
  /\ UNCHANGED <<procVars, req, secret, reply, audited, granted, unwraps, calls>>

\* Step 7: unwrap under the associated data of the request's id and the stored
\* policy.  A remote unwrapper (the cloud KMS) may also fail for its own reasons.
Unwrap(h) ==
  /\ pc[h] = "unwrap"
  /\ LET rec == store[ReqId(h)]
         opens == Opens(rec.env, EnvelopeAAD(ReqId(h), rec.env, rec.policy))
     IN \/ /\ opens
           /\ secret' = [secret EXCEPT ![h] = rec.env.seal]
           /\ unwraps' = unwraps \cup {h}
           /\ Goto(h, "build")
           /\ UNCHANGED status
        \/ /\ ~opens \/ Unwrapper.remote
           /\ Deny(h, 503)
           /\ UNCHANGED <<secret, unwraps>>
  /\ UNCHANGED <<procVars, req, reply, audited, granted, calls>>

\* http.NewRequestWithContext, then step 8, the module's Apply.
Build(h) ==
  /\ pc[h] = "build"
  /\ LET valid == req[h].method \in ValidMethods
     IN \/ ~valid /\ Deny(h, 400)
        \/ valid /\ ~Applies(ReqPolicy(h)) /\ Deny(h, 501)
        \/ valid /\ Applies(ReqPolicy(h)) /\ Goto(h, "send") /\ UNCHANGED status
  /\ UNCHANGED <<procVars, req, secret, reply, audited, granted, unwraps, calls>>

\* Step 9, Upstream.Do: the request leaves, or no connection is made.
Send(h) ==
  /\ pc[h] = "send"
  /\ \/ /\ calls' = calls \cup {[h |-> h, id |-> ReqId(h), hop |-> 1, seal |-> secret[h],
                                 host |-> ReqHost(h), method |-> req[h].method]}
        /\ Goto(h, "wait")
        /\ UNCHANGED status
     \/ Deny(h, 502) /\ UNCHANGED calls
  /\ UNCHANGED <<procVars, req, secret, reply, audited, granted, unwraps>>

Hops(h) == Cardinality({c \in calls : c.h = h})

\* The client has no CheckRedirect, so Do follows a redirect wherever it leads.
Redirect(h, host) ==
  /\ pc[h] = "wait"
  /\ Hops(h) < MaxHops
  /\ calls' = calls \cup {[h |-> h, id |-> ReqId(h), hop |-> Hops(h) + 1, seal |-> secret[h],
                           host |-> host, method |-> req[h].method]}
  /\ UNCHANGED <<procVars, pc, req, status, secret, reply, audited, granted, unwraps>>

\* Mutant: a failed upstream call is reported as an unavailable KMS.
UpstreamFails503(h) ==
  /\ pc[h] = "wait"
  /\ Deny(h, 503)
  /\ UNCHANGED <<procVars, req, secret, reply, audited, granted, unwraps, calls>>

\* Do returns an error: refused, reset, or out of time (UPSTREAM_TIMEOUT).
UpstreamFails(h) ==
  /\ pc[h] = "wait"
  /\ Deny(h, 502)
  /\ UNCHANGED <<procVars, req, secret, reply, audited, granted, unwraps, calls>>

\* Do returns a response; its body is still to be read.
UpstreamAnswers(h, code) ==
  /\ pc[h] = "wait"
  /\ status' = [status EXCEPT ![h] = code]
  /\ Goto(h, "relay")
  /\ UNCHANGED <<procVars, req, secret, reply, audited, granted, unwraps, calls>>

\* Mutant: the success path returns without its audit record.
RelayUnaudited(h) ==
  /\ pc[h] = "relay"
  /\ reply' = [reply EXCEPT ![h] = [from |-> "upstream", status |-> status[h]]]
  /\ Goto(h, "done")
  /\ UNCHANGED <<procVars, req, status, secret, audited, granted, unwraps, calls>>

\* Step 10: scrub and copy the headers, send the status, copy the body.  io.Copy
\* ends at the end of the body or at the first error, which is dropped; an agent
\* that does not read leaves the handler here, since no write has a deadline.
Relay(h) ==
  /\ pc[h] = "relay"
  /\ reply' = [reply EXCEPT ![h] = [from |-> "upstream", status |-> status[h]]]
  /\ Goto(h, "allowed")
  /\ UNCHANGED <<procVars, req, status, secret, audited, granted, unwraps, calls>>

\* writeErr, the first thing deny does.
Respond(h) ==
  /\ pc[h] = "deny"
  /\ reply' = [reply EXCEPT ![h] = [from |-> "broker", status |-> status[h]]]
  /\ Goto(h, "denied")
  /\ UNCHANGED <<procVars, req, status, secret, audited, granted, unwraps, calls>>

\* audit, the last thing every path does: the sink takes the record, or Audit.Write
\* returns an error, which is dropped.  Then Handle returns: the deferred Zero wipes
\* the secret and the other locals are gone.  The stage is named after the decision
\* it is about to record.
Audit(h) ==
  /\ pc[h] \in {"allowed", "denied"}
  /\ \/ /\ audited' = [audited EXCEPT ![h] =
                         Append(@, [decision |-> pc[h], status |-> status[h]])]
        /\ Goto(h, "done")
     \/ SinkFails /\ Goto(h, "unrecorded") /\ UNCHANGED audited
  /\ secret' = [secret EXCEPT ![h] = NoSecret]
  /\ req' = [req EXCEPT ![h] = NoRequest]
  /\ status' = [status EXCEPT ![h] = 0]
  /\ UNCHANGED <<procVars, reply, granted, unwraps, calls>>

-----------------------------------------------------------------------------
\* The life of the process (proxy/main.go: runServe).

Tick ==
  /\ now < MaxTime
  /\ now' = now + 1
  /\ UNCHANGED <<proc, life, store, windows, handlerVars>>

\* SIGINT or SIGTERM: Shutdown closes the listener and waits for the handlers.
Signal ==
  /\ proc = "up"
  /\ proc' = "draining"
  /\ UNCHANGED <<life, store, now, windows, handlerVars>>

\* Mutant: Shutdown also waits for connections that never sent a request.
ExitWhenUsed ==
  /\ proc = "draining"
  /\ \A h \in Handlers : pc[h] \in Finished \ {"idle"}
  /\ proc' = "down"
  /\ UNCHANGED <<life, store, now, windows, handlerVars>>

\* Shutdown returns because every handler has.
Exit ==
  /\ proc = "draining"
  /\ \A h \in Handlers : pc[h] \in Finished
  /\ proc' = "down"
  /\ UNCHANGED <<life, store, now, windows, handlerVars>>

\* A handler that waits for the agent (to send its body or to read the answer), for
\* the KMS (15s a call) or for the upstream (30s) may outlast the 10s that Shutdown
\* waits: it returns, and the process ends.
Blocked == {"decode", "unwrap", "send", "wait", "relay"}

DeadlineExit ==
  /\ proc = "draining"
  /\ \E h \in Handlers : pc[h] \in Blocked
  /\ proc' = "down"
  /\ pc' = [h \in Handlers |-> IF pc[h] \in Finished THEN pc[h] ELSE "killed"]
  /\ secret' = [h \in Handlers |-> NoSecret]
  /\ req' = [h \in Handlers |-> NoRequest]
  /\ status' = [h \in Handlers |-> 0]
  /\ UNCHANGED <<life, store, now, windows, reply, audited, granted, unwraps, calls>>

\* Mutant: the new process serves without having loaded the store.
RestartUnloaded ==
  /\ proc = "down"
  /\ life < MaxLives
  /\ proc' = "up"
  /\ life' = life + 1
  /\ store' = <<>>
  /\ windows' = [id \in Ids |-> NoWindow]
  /\ UNCHANGED <<now, handlerVars>>

\* A new process loads the store file, which may have changed, and starts with
\* an empty limiter.
Restart ==
  /\ proc = "down"
  /\ life < MaxLives
  /\ proc' = "up"
  /\ life' = life + 1
  /\ store' \in Stores
  /\ windows' = [id \in Ids |-> NoWindow]
  /\ UNCHANGED <<now, handlerVars>>

\* Stages that need nobody, or a KMS client with a timeout for each of its calls:
\* a refusal fits into the server's buffer, and a write to the sink returns.
Proceed(h) ==
  Authorize(h) \/ Gate(h) \/ Unwrap(h) \/ Build(h) \/ Respond(h) \/ Audit(h)

\* Upstream.Do, which UPSTREAM_TIMEOUT bounds from the dialling to the end of the body.
Do(h) ==
  \/ Send(h)
  \/ \E host \in RedirectHosts : Redirect(h, host)
  \/ UpstreamFails(h)
  \/ \E code \in UpstreamCodes : UpstreamAnswers(h, code)

Handle(h) == Decode(h) \/ Proceed(h) \/ Do(h) \/ Relay(h)

Process == Tick \/ Signal \/ Exit \/ DeadlineExit \/ Restart

Next ==
  \/ \E h \in Handlers : Handle(h) \/ \E q \in Requests : Accept(h, q)
  \/ Process

\* What a handler is sure to do.  Decode and Relay wait for the agent, to whom the server
\* gives a deadline for the header of its request only (ReadHeaderTimeout): of them
\* nothing is promised but what a willing agent gives.
Progress(h) ==
  \/ Proceed(h)
  \/ UpstreamTimeout /\ Do(h)
  \/ h \in Willing /\ (Decode(h) \/ Relay(h))

\* A goroutine that can run does, and Shutdown has a deadline of its own.  Nothing
\* obliges a signal, a request or a restart to come.
Fairness ==
  /\ \A h \in Handlers : WF_vars(Progress(h))
  /\ WF_vars(Exit \/ DeadlineExit)

Spec == Init /\ [][Next]_vars /\ Fairness

-----------------------------------------------------------------------------
Stages == {"idle", "decode", "authorize", "gate", "unwrap", "build", "send", "wait", "relay",
           "allowed", "deny", "denied", "done", "unrecorded", "killed"}

TypeOK ==
  /\ proc \in {"up", "draining", "down"}
  /\ life \in 1..MaxLives
  /\ store \in Stores
  /\ now \in 0..MaxTime
  /\ windows \in [Ids -> [start : Nat, count : Nat]]
  /\ pc \in [Handlers -> Stages]
  /\ req \in [Handlers -> Requests \cup {NoRequest}]
  /\ status \in [Handlers -> Nat]
  /\ reply \in [Handlers -> [from : {"nobody", "broker", "upstream"}, status : Nat]]
  /\ audited \in [Handlers -> Seq([decision : {"allowed", "denied"}, status : Nat])]
  /\ granted \in [Handlers -> [life : Nat, start : Nat]]
  /\ unwraps \subseteq Handlers

\* Whatever is done to the store file between two starts of the process (a policy
\* widened, an envelope moved under another id), the request the pipeline builds
\* spends a credential only as the policy it was SEALED with allows: under the id
\* it was enrolled for, by a method and to a host of that policy, inside the
\* egress allowlist (pipeline.go: steps 4, 5 and 7; invariants I-B5 and I-B7).
SpentAsSealed(c) ==
  /\ c.seal.id = c.id
  /\ Permitted(c.seal.policy, c.method, c.host)
  /\ egressAllowed(c.host)

CredentialBound == \A c \in calls : c.hop = 1 => SpentAsSealed(c)

\* The inductive invariant behind CredentialBound: a handler past a check still
\* satisfies it, against the store it will read next; the secret it holds was
\* sealed for its id and with the stored policy; and no handler is in the
\* pipeline while the process is down, which is when the store may change.
Authorized == {"gate", "unwrap", "build", "send"}
Gated == {"unwrap", "build", "send"}
Holding == {"build", "send"}

HandlerInv(h) ==
  /\ pc[h] \in Authorized =>
       Permitted(ReqPolicy(h), req[h].method, ReqHost(h))
  /\ pc[h] \in Gated => egressAllowed(ReqHost(h))
  /\ pc[h] \in Holding =>
       secret[h].id = ReqId(h) /\ secret[h].policy = ReqPolicy(h)
  /\ pc[h] = "wait" => \E c \in calls : c.h = h

SpendInv ==
  /\ proc = "down" => \A h \in Handlers : pc[h] \in Finished
  /\ \A h \in Handlers : HandlerInv(h)
  /\ IsFiniteSet(calls)
  /\ CredentialBound

\* A refusal says truthfully how far the request got (broker-core.md, error
\* table): an agent told 403, 404, 413, 429 or 500 never caused an unwrap, and
\* only a 502 leaves open whether the upstream saw the request.
RefusalMeansUnspent ==
  \A h \in Handlers : reply[h].from = "broker" =>
    /\ reply[h].status \in {403, 404, 413, 429, 500} => h \notin unwraps
    /\ reply[h].status # 502 => \A c \in calls : c.h # h

\* Requests sent upstream that one limiter window admitted never exceed the rate
\* of the policy the credential was sealed with, however the handlers interleave
\* and however the caller spells the ref (pipeline.go: resolveRef, Authorize).
RateSpent ==
  \A c \in calls :
    c.hop = 1 /\ c.seal.policy.rpm > 0 =>
      Cardinality({d \in calls : d.hop = 1 /\ d.id = c.id /\ granted[d.h] = granted[c.h]})
        <= c.seal.policy.rpm

\* A handler that has returned left one audit record, or none if the sink did not
\* take it, never two; and a record that was written agrees with what the agent was
\* told: "allowed" exactly if the reply was the upstream's, with its status
\* (pipeline.go: deny, audit; invariant I-B10 as far as the code keeps it).
AuditMatchesReply ==
  \A h \in Handlers : pc[h] \in Returned =>
    /\ Len(audited[h]) = IF pc[h] = "done" THEN 1 ELSE 0
    /\ \A i \in 1..Len(audited[h]) :
         /\ audited[h][i].status = reply[h].status
         /\ audited[h][i].decision = "allowed" <=> reply[h].from = "upstream"

\* The inductive invariant behind RefusalMeansUnspent and AuditMatchesReply: what
\* each stage knows of the handler's unwraps, calls, reply and audit record.
Unspent(h) == \A c \in calls : c.h # h

Truthful(h, code) ==
  /\ code \in {403, 404, 413, 429, 500} => h \notin unwraps
  /\ code # 502 => Unspent(h)

Closed == Returned \cup {"killed"}
Early == {"idle", "decode", "authorize", "gate", "unwrap"}
Sent == {"wait", "relay", "allowed"}

Story(h) ==
  /\ pc[h] \in Early => h \notin unwraps
  /\ pc[h] \in Early \cup Holding => Unspent(h)
  /\ pc[h] \in Sent => ~Unspent(h)
  /\ pc[h] \in {"deny", "denied"} => Truthful(h, status[h])
  /\ pc[h] \notin {"allowed", "denied"} \cup Closed => reply[h].from = "nobody"
  /\ pc[h] = "allowed" => reply[h] = [from |-> "upstream", status |-> status[h]]
  /\ pc[h] = "denied" => reply[h] = [from |-> "broker", status |-> status[h]]
  /\ reply[h].from = "broker" => Truthful(h, reply[h].status)
  /\ pc[h] \notin Closed \/ pc[h] = "unrecorded" => audited[h] = <<>>
  /\ pc[h] = "done" =>
       /\ Len(audited[h]) = 1
       /\ audited[h][1].status = reply[h].status
       /\ audited[h][1].decision = "allowed" <=> reply[h].from = "upstream"

StoryInv == \A h \in Handlers : Story(h)

\* The pipeline does what CredentialUse promises: see that module.
Phase(h) ==
  CASE pc[h] = "idle" -> "idle"
    [] pc[h] = "done" -> "closed"
    [] pc[h] = "unrecorded" -> "unrecorded"
    [] pc[h] = "killed" -> "lost"
    [] OTHER -> IF Unspent(h) THEN "open" ELSE "spent"

Use == INSTANCE CredentialUse WITH
  phase <- [h \in Handlers |-> Phase(h)],
  spent <- {c \in calls : c.hop = 1},
  ledger <- audited,
  Permits <- SpentAsSealed

RefinesUse == Use!Spec

\* No shutdown is under way, and h is serving nothing.
AtRest(h) == proc = "down" \/ (proc = "up" /\ pc[h] \in Finished)

\* The broker comes to rest.  A shutdown that has begun completes, whatever agents,
\* upstreams and the KMS do: a handler that waits for one of them, for ever too, does not
\* hold it up (main.go: the deadline of Shutdown).  And a request of a willing agent ends
\* if there is an UPSTREAM_TIMEOUT: the broker adds no wait of its own, and neither a
\* request whose agent stalls nor an upstream or a KMS that does not answer holds it up
\* (pipeline.go: Handle; the timeouts of the two clients).  The request of an agent that
\* stalls may stay until a shutdown: the server has no deadline for it.
ComesToRest ==
  \A h \in Willing : (proc = "draining" \/ UpstreamTimeout) ~> AtRest(h)

\* "Every request is audited exactly once" (invariant I-B10), of the requests that matter
\* most and over the life of the process: one that spent a credential and is over has its
\* record, also if the sink failed to take it or the process ended first.
EveryRequestAudited ==
  \A h \in Handlers : pc[h] \in Finished /\ ~Unspent(h) => Len(audited[h]) = 1

\* "An outbound request reaches an upstream only if it passes both allow_hosts
\* and the network egress allowlist" (invariant I-B7), read over every hop.
EveryHopAllowed ==
  \A c \in calls : Permitted(c.seal.policy, c.method, c.host) /\ egressAllowed(c.host)
=============================================================================
