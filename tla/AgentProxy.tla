----------------------------- MODULE AgentProxy -----------------------------
(***************************************************************************)
(* The agent's forward proxy (agent/internal/proxy: Handler), between the  *)
(* tools on one side and the broker, or the blind tunnel's server, on the  *)
(* other.  net/http runs one goroutine per connection c; a blind tunnel    *)
(* has two more, one per direction.                                        *)
(*                                                                         *)
(* The tool, the server and the broker are environment: nothing obliges    *)
(* them to go on.  The broker does what CredentialUse promises of it: a    *)
(* request that reached it (phase "open") is spent at most once, and its   *)
(* answer says what Pipeline!RefusalMeansUnspent allows it to say.  A lost *)
(* connection does not stop it.                                            *)
(***************************************************************************)
EXTENDS AgentConfig, Naturals

CONSTANTS
  Conns,      \* connections of tools to the agent
  Hosts,      \* hosts named in CONNECT requests
  Requests,   \* requests of a tool: [header, query, body, close]
  Answers,    \* answers of the broker: [kind, framing, gzip, cut, close]
  Broker,     \* how the broker is configured: [endpoint, clientCert]
  MaxReqs,    \* bound on the requests of one connection
  MaxChunks   \* bound on what one side writes into a tunnel

ASSUME AgentAssumption == MaxReqs \in Nat /\ MaxChunks \in Nat

\* The broker's server frames an answer by its length or in chunks.
ASSUME AnswersAssumption ==
  Answers \subseteq [kind : {"ok", "refused", "gateway"}, framing : {"length", "chunked"},
                    gzip : BOOLEAN, cut : BOOLEAN, close : BOOLEAN]

VARIABLES
  up,       \* whether the agent process runs
  stage,    \* where the goroutine of each connection stands
  host,     \* the host of its CONNECT
  tool,     \* the tool's end: "open", "half" (no more is sent) or "closed"
  count,    \* requests read so far
  req,      \* the request being served
  wire,     \* what serveOne hands to Relay: [ref, upstream]
  resp,     \* the response Relay returned
  answers,  \* what was written to the tool inside its TLS connection
  tunnel,   \* the blind tunnel
  phase,    \* the broker's view of each relayed request
  spent     \* history: requests for which the broker spent a credential

connVars == <<stage, host, tool, count, req, wire, resp, answers>>
brokerVars == <<phase, spent>>
vars == <<up, stage, host, tool, count, req, wire, resp, answers, tunnel, phase, spent>>

\* Whether there is a client: without an endpoint, or with a client certificate that
\* does not load, failClosedBroker takes its place.
buildBroker == Broker.endpoint /\ Broker.clientCert # "unreadable"

NoRequest == [body |-> "none"]
NoWire == [ref |-> NoRef]
NoAnswer == [kind |-> "none"]

\* What the tool has written into the tunnel and how much of that came with the
\* CONNECT head (early), what reached the server, what the server wrote and what
\* reached the tool, and which of the two copying goroutines run.
NoTunnel == [early |-> 0, out |-> 0, up |-> <<>>, srv |-> 0, down |-> <<>>,
             server |-> "none", copies |-> {}]

Relays == Conns \X (1..MaxReqs)
Current(c) == <<c, count[c]>>

Init ==
  /\ up = TRUE
  /\ stage = [c \in Conns |-> "idle"]
  /\ host = [c \in Conns |-> <<>>]
  /\ tool = [c \in Conns |-> "open"]
  /\ count = [c \in Conns |-> 0]
  /\ req = [c \in Conns |-> NoRequest]
  /\ wire = [c \in Conns |-> NoWire]
  /\ resp = [c \in Conns |-> NoAnswer]
  /\ answers = [c \in Conns |-> <<>>]
  /\ tunnel = [c \in Conns |-> NoTunnel]
  /\ phase = [r \in Relays |-> "none"]
  /\ spent = {}

Goto(c, s) == stage' = [stage EXCEPT ![c] = s]

\* The handler returns; what it holds of the request is gone with it.
Return(c) ==
  /\ Goto(c, "closed")
  /\ req' = [req EXCEPT ![c] = NoRequest]
  /\ wire' = [wire EXCEPT ![c] = NoWire]
  /\ resp' = [resp EXCEPT ![c] = NoAnswer]

-----------------------------------------------------------------------------
\* Connections (ServeHTTP, handleConnect).

\* Anything but CONNECT is answered with 501; a CONNECT whose tool cannot be told
\* 200 any more ends in the same way.
PlainHTTP(c) ==
  /\ up /\ stage[c] = "idle"
  /\ Return(c)
  /\ UNCHANGED <<up, host, tool, count, answers, tunnel, brokerVars>>

\* CONNECT: the connection is hijacked and told "200 Connection established".
\* The tool may not have waited for that: early chunks came with the head.
Connect(c, h, early) ==
  /\ up /\ stage[c] = "idle"
  /\ host' = [host EXCEPT ![c] = h]
  /\ tunnel' = [tunnel EXCEPT ![c].early = early, ![c].out = early]
  /\ Goto(c, IF IsIntercepted(h) THEN "handshake" ELSE "dial")
  /\ UNCHANGED <<up, tool, count, req, wire, resp, answers, brokerVars>>

-----------------------------------------------------------------------------
\* The blind tunnel (blindTunnel).

\* net.DialTimeout: the tool was told 200 already, whatever comes of it.
Dial(c) ==
  /\ stage[c] = "dial"
  /\ \/ /\ tunnel' = [tunnel EXCEPT ![c].server = "open", ![c].copies = {"up", "down"}]
        /\ Goto(c, "tunnel")
        /\ UNCHANGED <<req, wire, resp>>
     \/ Return(c) /\ UNCHANGED tunnel
  /\ UNCHANGED <<up, host, tool, count, answers, brokerVars>>

Ends(c, dir) == tunnel' = [tunnel EXCEPT ![c].copies = @ \ {dir}]

\* Mutant: the copy reads from the connection, not from the hijacked buffer.
CopyUpUnbuffered(c) ==
  LET t == tunnel[c]
      next == Len(t.up) + t.early + 1
  IN /\ "up" \in t.copies
     /\ \/ /\ stage[c] = "tunnel" /\ next <= t.out /\ t.server = "open"
           /\ tunnel' = [tunnel EXCEPT ![c].up = Append(@, next)]
        \/ /\ \/ stage[c] = "closed"
              \/ next <= t.out /\ t.server = "closed"
              \/ next > t.out /\ tool[c] # "open"
           /\ Ends(c, "up")
     /\ UNCHANGED <<up, connVars, brokerVars>>

\* io.Copy(upstream, buf.Reader): the next chunk goes to the server; the copy ends
\* at the tool's end of file, when the server is gone, or with the connections.
CopyUp(c) ==
  LET t == tunnel[c]
      next == Len(t.up) + 1
  IN /\ "up" \in t.copies
     /\ \/ /\ stage[c] = "tunnel" /\ next <= t.out /\ t.server = "open"
           /\ tunnel' = [tunnel EXCEPT ![c].up = Append(@, next)]
        \/ /\ \/ stage[c] = "closed"
              \/ next <= t.out /\ t.server = "closed"
              \/ next > t.out /\ tool[c] # "open"
           /\ Ends(c, "up")
     /\ UNCHANGED <<up, connVars, brokerVars>>

\* io.Copy(clientConn, upstream).
CopyDown(c) ==
  LET t == tunnel[c]
      next == Len(t.down) + 1
  IN /\ "down" \in t.copies
     /\ \/ /\ stage[c] = "tunnel" /\ next <= t.srv /\ tool[c] # "closed"
           /\ tunnel' = [tunnel EXCEPT ![c].down = Append(@, next)]
        \/ /\ \/ stage[c] = "closed"
              \/ next <= t.srv /\ tool[c] = "closed"
              \/ next > t.srv /\ t.server = "closed"
           /\ Ends(c, "down")
     /\ UNCHANGED <<up, connVars, brokerVars>>

\* Mutant: the handler waits for both directions.
TunnelReturnsLate(c) ==
  /\ stage[c] = "tunnel"
  /\ tunnel[c].copies = {}
  /\ Return(c)
  /\ UNCHANGED <<up, host, tool, count, answers, tunnel, brokerVars>>

\* <-done: one direction has ended, and the deferred calls close both connections.
TunnelReturns(c) ==
  /\ stage[c] = "tunnel"
  /\ tunnel[c].copies # {"up", "down"}
  /\ Return(c)
  /\ UNCHANGED <<up, host, tool, count, answers, tunnel, brokerVars>>

-----------------------------------------------------------------------------
\* The intercepted connection (interceptAndRelay, serveOne).

\* The handshake succeeds or fails: the tool may not trust the leaf, or there may
\* be none (LocalCA has the leaves).
Handshake(c) ==
  /\ stage[c] = "handshake"
  /\ \/ Goto(c, "read") /\ UNCHANGED <<req, wire, resp>>
     \/ Return(c)
  /\ UNCHANGED <<up, host, tool, count, answers, tunnel, brokerVars>>

\* http.ReadRequest, and reading the body up to the limit, neither with a deadline: a
\* tool that stalls in a request leaves the connection here.  The request may have
\* been sent before the last answer, or before the tool left.
ReadRequest(c, q) ==
  /\ stage[c] = "read" /\ count[c] < MaxReqs
  /\ Goto(c, "serve")
  /\ count' = [count EXCEPT ![c] = @ + 1]
  /\ req' = [req EXCEPT ![c] = q]
  /\ UNCHANGED <<up, host, tool, wire, resp, answers, tunnel, brokerVars>>

\* No further request comes, or what comes is none.
ReadEnds(c) ==
  /\ stage[c] = "read"
  /\ Return(c)
  /\ UNCHANGED <<up, host, tool, count, answers, tunnel, brokerVars>>

\* An answer is written to the tool, unless it has left.
Written(c, a) ==
  answers' = IF tool[c] = "closed" THEN answers
             ELSE [answers EXCEPT ![c] = Append(@, a)]

\* writeError, then serveOne returns false and the connection is closed.
Refuse(c, code) ==
  /\ Written(c, [to |-> count[c], code |-> code, answer |-> NoAnswer, full |-> TRUE])
  /\ Return(c)

\* Mutant: the reference is looked up once the broker has the request.
serveOneUnchecked(c) ==
  /\ stage[c] = "serve"
  /\ \E rule \in DetectFor(host[c]) :
       LET ref == DetectRef(rule, req[c])
       IN \/ ref = NoRef /\ Refuse(c, "no_ref") /\ UNCHANGED <<tunnel, brokerVars>>
          \/ /\ ref # NoRef /\ ~Known(ref)
             /\ phase' = [phase EXCEPT ![Current(c)] = "open"]
             /\ Refuse(c, "unknown_ref")
             /\ UNCHANGED <<tunnel, spent>>
          \/ /\ ref # NoRef /\ Known(ref)
             /\ Goto(c, "relay")
             /\ wire' = [wire EXCEPT ![c] =
                           [ref |-> ref, upstream |-> buildUpstream(rule, req[c])]]
             /\ UNCHANGED <<req, resp, answers, tunnel, brokerVars>>
  /\ UNCHANGED <<up, host, tool, count>>

\* Mutant: the body is read to its end, without the limit.
serveOneUncapped(c) ==
  /\ stage[c] = "serve"
  /\ \/ req[c].body = "broken" /\ Refuse(c, "read_error")
     \/ req[c].body = "ok" /\ Refuse(c, "no_ref")
  /\ UNCHANGED <<up, host, tool, count, tunnel, brokerVars>>

\* The rule is chosen once, for looking and for stripping.
serveOne(c) ==
  /\ stage[c] = "serve"
  /\ \/ req[c].body = "broken" /\ Refuse(c, "read_error")
     \/ req[c].body = "too large" /\ Refuse(c, "cap_exceeded")
     \/ /\ req[c].body = "ok"
        /\ \E rule \in DetectFor(host[c]) :
             LET ref == DetectRef(rule, req[c])
             IN \/ ref = NoRef /\ Refuse(c, "no_ref")
                \/ ref # NoRef /\ ~Known(ref) /\ Refuse(c, "unknown_ref")
                \/ /\ ref # NoRef /\ Known(ref)
                   /\ Goto(c, "relay")
                   /\ wire' = [wire EXCEPT ![c] =
                                 [ref |-> ref, upstream |-> buildUpstream(rule, req[c])]]
                   /\ UNCHANGED <<req, resp, answers>>
  /\ UNCHANGED <<up, host, tool, count, tunnel, brokerVars>>

\* Relay connects, checks the pin and sends the request ...
Deliver(c) ==
  /\ stage[c] = "relay" /\ phase[Current(c)] = "none"
  /\ buildBroker
  /\ phase' = [phase EXCEPT ![Current(c)] = "open"]
  /\ UNCHANGED <<up, connVars, tunnel, spent>>

\* Mutant: the error is not looked at, and there is no response to write.
RelayFailsUnseen(c) ==
  /\ stage[c] = "relay"
  /\ Goto(c, "write")
  /\ UNCHANGED <<up, host, tool, count, req, wire, resp, answers, tunnel, brokerVars>>

\* ... or returns an error: there is no broker, it cannot be reached in 10s, the
\* pin does not match, or the connection breaks before there is an answer.
RelayFails(c) ==
  /\ stage[c] = "relay"
  /\ Refuse(c, "broker_unreachable")
  /\ UNCHANGED <<up, host, tool, count, tunnel, brokerVars>>

\* The transport asked for gzip and decodes it, dropping the length: an answer
\* framed by its length is then framed by nothing.
Framing(a) == IF a.gzip /\ a.framing = "length" THEN "none" ELSE a.framing

\* The broker drops the error of io.Copy and returns, so a body that broke off upstream
\* is ended as a whole one would be, unless its length was announced.
EndsShort(a) == a.cut /\ a.framing = "length"

\* resp.Write meets a read error if the body ends short, or the gzip stream in it does.
BreaksOff(a) == EndsShort(a) \/ (a.cut /\ a.gzip)

\* Mutant: an answer that broke off keeps the connection.
WriteBrokenAlive(c) ==
  /\ stage[c] = "write"
  /\ LET a == resp[c]
     IN /\ Written(c, [to |-> count[c], code |-> "broker", answer |-> a, full |-> ~BreaksOff(a)])
        /\ IF tool[c] # "closed" /\ ~req[c].close /\ ~a.close
           THEN /\ Goto(c, "read")
                /\ req' = [req EXCEPT ![c] = NoRequest]
                /\ wire' = [wire EXCEPT ![c] = NoWire]
                /\ resp' = [resp EXCEPT ![c] = NoAnswer]
           ELSE Return(c)
  /\ UNCHANGED <<up, host, tool, count, tunnel, brokerVars>>

\* resp.Write, and whether the connection is kept.  Writing to a tool that has left
\* may still succeed, into the socket's buffer.
Write(c) ==
  /\ stage[c] = "write"
  /\ LET a == resp[c]
     IN \E lost \in {FALSE, tool[c] = "closed"} :
        /\ Written(c, [to |-> count[c], code |-> "broker", answer |-> a, full |-> ~BreaksOff(a)])
        /\ IF ~BreaksOff(a) /\ ~lost /\ ~req[c].close /\ ~a.close
           THEN /\ Goto(c, "read")
                /\ req' = [req EXCEPT ![c] = NoRequest]
                /\ wire' = [wire EXCEPT ![c] = NoWire]
                /\ resp' = [resp EXCEPT ![c] = NoAnswer]
           ELSE Return(c)
  /\ UNCHANGED <<up, host, tool, count, tunnel, brokerVars>>

\* A signal: Shutdown does not wait for hijacked connections, and the process ends.
Exit ==
  /\ up
  /\ up' = FALSE
  /\ stage' = [c \in Conns |-> "closed"]
  /\ req' = [c \in Conns |-> NoRequest]
  /\ wire' = [c \in Conns |-> NoWire]
  /\ resp' = [c \in Conns |-> NoAnswer]
  /\ tunnel' = [c \in Conns |-> [tunnel[c] EXCEPT !.copies = {}]]
  /\ UNCHANGED <<host, tool, count, answers, brokerVars>>

-----------------------------------------------------------------------------
\* The environment.

\* The tool shuts down its sending side, or closes.
ToolEnds(c, how) ==
  /\ tool[c] # "closed" /\ tool[c] # how
  /\ stage[c] \notin {"idle", "closed"}
  /\ tool' = [tool EXCEPT ![c] = how]
  /\ UNCHANGED <<up, stage, host, count, req, wire, resp, answers, tunnel, brokerVars>>

ToolSends(c) ==
  /\ stage[c] = "tunnel" /\ tool[c] = "open" /\ tunnel[c].out < MaxChunks
  /\ tunnel' = [tunnel EXCEPT ![c].out = @ + 1]
  /\ UNCHANGED <<up, connVars, brokerVars>>

ServerSends(c) ==
  /\ stage[c] = "tunnel" /\ tunnel[c].server = "open" /\ tunnel[c].srv < MaxChunks
  /\ tunnel' = [tunnel EXCEPT ![c].srv = @ + 1]
  /\ UNCHANGED <<up, connVars, brokerVars>>

ServerCloses(c) ==
  /\ stage[c] = "tunnel" /\ tunnel[c].server = "open"
  /\ tunnel' = [tunnel EXCEPT ![c].server = "closed"]
  /\ UNCHANGED <<up, connVars, brokerVars>>

\* The broker calls the upstream with the credential.
BrokerSpends(r) ==
  /\ phase[r] = "open"
  /\ phase' = [phase EXCEPT ![r] = "spent"]
  /\ spent' = spent \cup {r}
  /\ UNCHANGED <<up, connVars, tunnel>>

\* What Pipeline proves of the broker, taken for granted here: an upstream's answer
\* needs a call; a refusal other than 502 excludes one.
Truthful(r, a) ==
  /\ a.kind = "ok" => phase[r] = "spent"
  /\ a.kind = "refused" => phase[r] = "open"

\* The broker answers the request a connection waits for ...
BrokerAnswers(c, a) ==
  /\ stage[c] = "relay" /\ phase[Current(c)] \in {"open", "spent"}
  /\ Truthful(Current(c), a)
  /\ phase' = [phase EXCEPT ![Current(c)] = "closed"]
  /\ resp' = [resp EXCEPT ![c] = a]
  /\ Goto(c, "write")
  /\ UNCHANGED <<up, host, tool, count, req, wire, answers, tunnel, spent>>

\* ... or finds that nobody waits for the answer any more.
BrokerDrops(r) ==
  /\ phase[r] \in {"open", "spent"}
  /\ ~(stage[r[1]] = "relay" /\ count[r[1]] = r[2])
  /\ phase' = [phase EXCEPT ![r] = "closed"]
  /\ UNCHANGED <<up, connVars, tunnel, spent>>

-----------------------------------------------------------------------------
Handler(c) == Dial(c) \/ TunnelReturns(c) \/ serveOne(c)
Connecting(c) ==
  stage[c] = "relay" /\ phase[Current(c)] = "none" /\ (Deliver(c) \/ RelayFails(c))
BrokerMoves(c) == \E a \in Answers : BrokerAnswers(c, a)

Agent(c) ==
  \/ PlainHTTP(c)
  \/ \E h \in Hosts, early \in {0, 1} : Connect(c, h, early)
  \/ Handler(c) \/ CopyUp(c) \/ CopyDown(c)
  \/ Handshake(c) \/ (\E q \in Requests : ReadRequest(c, q)) \/ ReadEnds(c)
  \/ Deliver(c) \/ RelayFails(c) \/ Write(c)

Environment ==
  \/ \E c \in Conns : \/ \E how \in {"half", "closed"} : ToolEnds(c, how)
                      \/ ToolSends(c) \/ ServerSends(c) \/ ServerCloses(c)
                      \/ BrokerMoves(c)
  \/ \E r \in Relays : BrokerSpends(r) \/ BrokerDrops(r)

Next == Environment \/ Exit \/ \E c \in Conns : Agent(c)

\* A copy is sure to end once what it reads from has: whatever it still holds can be
\* refused or lost by the other side, but not be waited for if that side has closed.
UpEnds(c) == (stage[c] = "closed" \/ tool[c] # "open") /\ CopyUp(c) /\ Ends(c, "up")
DownEnds(c) ==
  (stage[c] = "closed" \/ tunnel[c].server = "closed") /\ CopyDown(c) /\ Ends(c, "down")

\* Goroutines run, connecting to the broker has a deadline, and a refusal, a few lines,
\* fits into the socket's buffer.  No other read or write of the agent has a deadline,
\* and nothing is promised of a tool, a server or the broker: a chunk in a tunnel may
\* wait for ever for the side that should read it.
Fairness ==
  \A c \in Conns : /\ WF_vars(Handler(c)) /\ WF_vars(Connecting(c))
                   /\ WF_vars(UpEnds(c)) /\ WF_vars(DownEnds(c))

Spec == Init /\ [][Next]_vars /\ Fairness

-----------------------------------------------------------------------------
Stages == {"idle", "dial", "tunnel", "handshake", "read", "serve", "relay", "write", "closed"}
Serving == {"serve", "relay", "write"}
Codes == {"broker", "read_error", "cap_exceeded", "no_ref", "unknown_ref", "broker_unreachable"}

Replies == [to : Nat, code : Codes, answer : Answers \cup {NoAnswer}, full : BOOLEAN]
Tunnels == [early : {0, 1}, out : Nat, up : Seq(Nat), srv : Nat, down : Seq(Nat),
            server : {"none", "open", "closed"}, copies : SUBSET {"up", "down"}]

TypeOK ==
  /\ up \in BOOLEAN
  /\ stage \in [Conns -> Stages]
  /\ host \in [Conns -> Hosts \cup {<<>>}]
  /\ tool \in [Conns -> {"open", "half", "closed"}]
  /\ count \in [Conns -> 0..MaxReqs]
  /\ req \in [Conns -> Requests \cup {NoRequest}]
  /\ resp \in [Conns -> Answers \cup {NoAnswer}]
  /\ \A c \in Conns : /\ stage[c] = "relay" => wire[c] # NoWire
                      /\ stage[c] = "write" => resp[c] # NoAnswer
  /\ DOMAIN wire = Conns
  /\ answers \in [Conns -> Seq(Replies)]
  /\ tunnel \in [Conns -> Tunnels]
  /\ phase \in [Relays -> {"none", "open", "spent", "closed"}]
  /\ spent \subseteq Relays

\* What goes to the broker is a known reference and a request that carries nothing
\* in the place where the reference was found, whichever of several matching
\* rules the walk over the map met first and however the rule spells its header
\* (serveOne, buildUpstream; invariants I-A1 and I-A8).  A query rule without a name is
\* exempt: buildUpstream strips nothing then, and the reference, which is then the value
\* of the nameless parameter, goes on to the broker as part of the query.
Carries(u, rule) ==
  IF rule.mode = "query" THEN rule.name \in DOMAIN u.query \ {""}
  ELSE (IF rule.mode = "aws-sdk-dummy" THEN "Authorization" ELSE Canonical[rule.name])
         \in DOMAIN u.header

OnlyRefsRelayed ==
  \A c \in Conns : stage[c] = "relay" =>
    /\ IsIntercepted(host[c]) /\ Known(wire[c].ref)
    /\ \E rule \in DetectFor(host[c]) :
         /\ DetectRef(rule, req[c]) = wire[c].ref
         /\ ~Carries(wire[c].upstream, rule)

\* Answers stay aligned with requests on a kept connection: the i-th answer is to
\* the i-th request, and nothing is written after an answer that broke off, whose
\* missing bytes the tool would take from the next one (the return values of
\* serveOne and the loop of interceptAndRelay).
AnswersAligned ==
  \A c \in Conns : \A i \in 1..Len(answers[c]) :
    /\ answers[c][i].to = i
    /\ i < Len(answers[c]) => answers[c][i].full /\ answers[c][i].code = "broker"

\* What the tool is told is true, now and later: an upstream's answer means that
\* this very request was spent, a refusal of the broker or of the agent that it
\* was not and will not be; only broker_unreachable and the broker's 502 leave it
\* open ("the agent never fabricates a success", local-agent.md section 5).
AnswerTruthful ==
  \A c \in Conns : \A i \in 1..Len(answers[c]) :
    LET a == answers[c][i]
        r == <<c, a.to>>
    IN /\ a.answer.kind = "ok" => r \in spent
       /\ a.answer.kind = "refused" => r \notin spent
       /\ a.code \notin {"broker", "broker_unreachable"} => phase[r] = "none"

\* A tunnel delivers in order and from the first byte, also what came with the
\* CONNECT head; and a tool that stays until the server has closed, with nothing
\* of its own under way, has got everything (blindTunnel: the buffered reader, and
\* <-done closing both sides).
TunnelDelivers ==
  \A c \in Conns :
    LET t == tunnel[c]
    IN /\ \A i \in 1..Len(t.up) : t.up[i] = i
       /\ \A i \in 1..Len(t.down) : t.down[i] = i
       /\ up /\ stage[c] = "closed" /\ tool[c] = "open" /\ Len(t.up) = t.out =>
            Len(t.down) = t.srv

\* A side of a tunnel has ended and all it sent is delivered, or both have ended.
SideOver(c) ==
  LET t == tunnel[c]
  IN \/ tool[c] # "open" /\ Len(t.up) = t.out
     \/ t.server = "closed" /\ Len(t.down) = t.srv
     \/ tool[c] # "open" /\ t.server = "closed"

\* A tunnel closes both its connections and leaves no goroutine, without a further move
\* of anyone, once one side has ended and all it sent is delivered, or both have ended:
\* the copy of the other direction, blocked in a read or a write, does not hold it up
\* (blindTunnel: <-done and the deferred Close; I-A5: non-intercepted traffic is
\* unaffected).  While the other side neither closes nor reads what is left, it stays.
TunnelEnds ==
  \A c \in Conns :
    stage[c] = "tunnel" /\ SideOver(c) ~> stage[c] = "closed" /\ tunnel[c].copies = {}

\* A request that was read is answered or its connection closed, as long as the
\* broker answers and the tool reads: the agent adds no wait of its own.  Without
\* that the connection waits for ever (client.go: no timeout).
RequestEnds ==
  \A c \in Conns :
    WF_vars(BrokerMoves(c)) /\ WF_vars(Write(c)) =>
      (stage[c] \in {"serve", "relay", "write"} ~> stage[c] \in {"read", "closed"})

\* "Return the broker's response to the tool verbatim" (local-agent.md, section 1;
\* proxy.go, serveOne), of the end of a body: when the agent turns to the next
\* request, the tool can tell that the answer to the last one is over.
EndOfAnswerShown ==
  \A c \in Conns : stage[c] = "read" /\ answers[c] # <<>> =>
    Framing(answers[c][Len(answers[c])].answer) # "none"

-----------------------------------------------------------------------------
\* The inductive invariants behind the properties.

\* What a connection is about to relay, and where.
Relayed(c) ==
  /\ stage[c] \in {"handshake", "read"} \cup Serving => IsIntercepted(host[c])
  /\ stage[c] = "relay" =>
       /\ Known(wire[c].ref)
       /\ \E rule \in DetectFor(host[c]) : /\ DetectRef(rule, req[c]) = wire[c].ref
                                           /\ ~Carries(wire[c].upstream, rule)

RelayInv == \A c \in Conns : Relayed(c)

\* The answers written so far are those to the requests read, and an open
\* connection has only whole answers of the broker behind it.
Paired(c) ==
  LET n == Len(answers[c])
  IN /\ stage[c] \in {"idle", "dial", "tunnel", "handshake"} => count[c] = 0
     /\ n <= count[c]
     /\ stage[c] \in Serving => n < count[c]
     /\ stage[c] # "closed" /\ tool[c] # "closed" =>
          count[c] = IF stage[c] \in Serving THEN n + 1 ELSE n
     /\ \A i \in 1..n :
          /\ answers[c][i].to = i
          /\ i < n \/ stage[c] # "closed" => answers[c][i].full /\ answers[c][i].code = "broker"

PairInv == \A c \in Conns : Paired(c)

\* What an answer says of request r, for ever: no step takes it back.
Says(r, kind) ==
  /\ kind = "ok" => r \in spent
  /\ kind = "refused" => r \notin spent /\ phase[r] = "closed"

\* The broker has seen no request that was not relayed yet, and spends one only
\* between its arrival and its answer.
Accounted(c) ==
  /\ \A i \in 1..MaxReqs :
       /\ i > count[c] \/ (i = count[c] /\ stage[c] = "serve") => phase[<<c, i>>] = "none"
       /\ <<c, i>> \in spent => phase[<<c, i>>] \in {"spent", "closed"}
       /\ phase[<<c, i>>] = "spent" => <<c, i>> \in spent
  /\ stage[c] = "write" => phase[Current(c)] = "closed" /\ Says(Current(c), resp[c].kind)
  /\ \A i \in 1..Len(answers[c]) :
       /\ Says(<<c, i>>, answers[c][i].answer.kind)
       /\ answers[c][i].code \notin {"broker", "broker_unreachable"} => phase[<<c, i>>] = "none"

AccountInv == \A c \in Conns : Accounted(c)

\* A copy that has ended in an open tunnel ended for one of two reasons, and what is
\* not copied yet is still to come.
Tunnelled(c) ==
  LET t == tunnel[c]
  IN /\ \A i \in 1..Len(t.up) : t.up[i] = i
     /\ \A i \in 1..Len(t.down) : t.down[i] = i
     /\ Len(t.up) <= t.out /\ Len(t.down) <= t.srv
     /\ stage[c] \notin {"tunnel", "closed"} =>
          t.up = <<>> /\ t.down = <<>> /\ t.srv = 0 /\ t.copies = {}
     /\ stage[c] = "tunnel" =>
          /\ "up" \notin t.copies => tool[c] # "open" \/ Len(t.up) < t.out
          /\ "down" \notin t.copies =>
               tool[c] = "closed" \/ (t.server = "closed" /\ Len(t.down) = t.srv)
     /\ up /\ stage[c] = "closed" /\ tool[c] = "open" /\ Len(t.up) = t.out =>
          Len(t.down) = t.srv

TunnelInv == \A c \in Conns : Tunnelled(c)
=============================================================================
