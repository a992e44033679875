-------------------------- MODULE AgentProxyProofs --------------------------
(***************************************************************************)
(* Proofs about AgentProxy: for any number of connections and requests,    *)
(* whatever the tools, the servers and the broker do.                      *)
(***************************************************************************)
EXTENDS AgentProxy, TLAPS

-----------------------------------------------------------------------------
\* Facts about the sets the model uses.

\* The stages of a connection, and those between reading a request and answering it, by name.
LEMMA StageNames ==
  /\ {"idle", "dial", "tunnel", "handshake", "read", "serve", "relay", "write", "closed"} = Stages
  /\ {"serve", "relay", "write"} = Serving
BY DEF Stages, Serving

\* The sets a variable ranges over, TypeOK without the flag of the process.
Shape ==
  /\ stage \in [Conns -> Stages]
  /\ host \in [Conns -> Hosts \cup {<<>>}]
  /\ tool \in [Conns -> {"open", "half", "closed"}]
  /\ count \in [Conns -> 0..MaxReqs]
  /\ req \in [Conns -> Requests \cup {NoRequest}]
  /\ resp \in [Conns -> Answers \cup {NoAnswer}]
  /\ DOMAIN wire = Conns
  /\ answers \in [Conns -> Seq(Replies)]
  /\ tunnel \in [Conns -> Tunnels]
  /\ phase \in [Relays -> {"none", "open", "spent", "closed"}]
  /\ spent \subseteq Relays

Filled(c) ==
  /\ stage[c] = "relay" => wire[c] # NoWire
  /\ stage[c] = "write" => resp[c] # NoAnswer

\* What an agent's goroutine writes has its type.
LEMMA ReplyType ==
  /\ \A n \in Nat, code \in Codes :
       [to |-> n, code |-> code, answer |-> NoAnswer, full |-> TRUE] \in Replies
  /\ \A n \in Nat, a \in Answers :
       [to |-> n, code |-> "broker", answer |-> a, full |-> ~BreaksOff(a)] \in Replies
<1>1. \A a : (~BreaksOff(a)) \in BOOLEAN
  BY Zenon
<1> QED
  BY <1>1 DEF Replies, Codes

\* An answer written to the tool is appended to its connection's answers.
LEMMA WrittenType ==
  ASSUME Shape, NEW c \in Conns, NEW a \in Replies, Written(c, a)
  PROVE  answers' \in [Conns -> Seq(Replies)]
BY DEF Shape, Written

\* When a connection's goroutine returns, its own locals go and nothing else changes.
LEMMA ReturnType ==
  ASSUME Shape, NEW c \in Conns, Return(c)
  PROVE  /\ stage' \in [Conns -> Stages] /\ req' \in [Conns -> Requests \cup {NoRequest}]
         /\ resp' \in [Conns -> Answers \cup {NoAnswer}] /\ DOMAIN wire' = Conns
         /\ stage'[c] = "closed"
         /\ \A d \in Conns \ {c} : /\ stage'[d] = stage[d] /\ wire'[d] = wire[d]
                                   /\ req'[d] = req[d] /\ resp'[d] = resp[d]
BY StageNames DEF Shape, Return, Goto

\* A refusal of the agent's own keeps the types.
LEMMA RefuseType ==
  ASSUME Shape, NEW c \in Conns, NEW code \in Codes, Refuse(c, code),
         UNCHANGED <<host, tool, count, tunnel, brokerVars>>, \A d \in Conns : Filled(d)
  PROVE  Shape' /\ \A d \in Conns : Filled(d)'
<1>1. count[c] \in Nat
  BY AgentAssumption DEF Shape
<1>2. answers' \in [Conns -> Seq(Replies)]
  BY <1>1, ReplyType, WrittenType DEF Refuse
<1>3. Return(c)
  BY DEF Refuse
<1>4. Shape'
  BY <1>2, <1>3, ReturnType DEF Shape, brokerVars
<1> QED
  BY <1>3, <1>4, ReturnType DEF Filled


\* A handler that only returns.
LEMMA ReturnsType ==
  ASSUME Shape, \A d \in Conns : Filled(d), NEW c \in Conns, Return(c),
         UNCHANGED <<host, tool, count, answers, tunnel, brokerVars>>
  PROVE  Shape' /\ \A d \in Conns : Filled(d)'
<1>1. Shape'
  BY ReturnType DEF Shape, brokerVars
<1> QED
  BY <1>1, ReturnType DEF Filled

\* A step that leaves the connections as they are but for their tunnels.
LEMMA TunnelType ==
  ASSUME Shape, \A d \in Conns : Filled(d), NEW c \in Conns,
         NEW t \in Tunnels, tunnel' = [tunnel EXCEPT ![c] = t], UNCHANGED <<connVars, brokerVars>>
  PROVE  Shape' /\ \A d \in Conns : Filled(d)'
<1>1. tunnel' \in [Conns -> Tunnels]
  BY DEF Shape
<1>2. Shape'
  BY <1>1 DEF Shape, connVars, brokerVars
<1> QED
  BY <1>2 DEF Filled, connVars

\* A step of one goroutine to another stage.
LEMMA GotoType ==
  ASSUME Shape, NEW c \in Conns, NEW s \in Stages, Goto(c, s)
  PROVE  /\ stage' \in [Conns -> Stages] /\ stage'[c] = s
         /\ \A d \in Conns \ {c} : stage'[d] = stage[d]
BY DEF Shape, Goto

\* A tunnel keeps its type when one of its fields changes.
LEMMA TunnelKinds ==
  ASSUME NEW t \in Tunnels
  PROVE  /\ \A e \in {0, 1}, n \in Nat : [t EXCEPT !.early = e, !.out = n] \in Tunnels
         /\ \A x \in {"none", "open", "closed"}, y \in SUBSET {"up", "down"} :
              [t EXCEPT !.server = x, !.copies = y] \in Tunnels
         /\ \A x \in {"none", "open", "closed"} : [t EXCEPT !.server = x] \in Tunnels
         /\ \A y \in SUBSET {"up", "down"} : [t EXCEPT !.copies = y] \in Tunnels
         /\ \A seq \in Seq(Nat) : /\ [t EXCEPT !.up = seq] \in Tunnels
                                  /\ [t EXCEPT !.down = seq] \in Tunnels
         /\ \A n \in Nat : [t EXCEPT !.out = n] \in Tunnels /\ [t EXCEPT !.srv = n] \in Tunnels
<1>1. \A e \in {0, 1}, n \in Nat : [t EXCEPT !.early = e, !.out = n] \in Tunnels
  BY DEF Tunnels
<1>2. \A x \in {"none", "open", "closed"}, y \in SUBSET {"up", "down"} :
        [t EXCEPT !.server = x, !.copies = y] \in Tunnels
  BY DEF Tunnels
<1>3. \A x \in {"none", "open", "closed"} : [t EXCEPT !.server = x] \in Tunnels
  BY DEF Tunnels
<1>4. \A y \in SUBSET {"up", "down"} : [t EXCEPT !.copies = y] \in Tunnels
  BY DEF Tunnels
<1>5. \A seq \in Seq(Nat) : [t EXCEPT !.up = seq] \in Tunnels
  BY DEF Tunnels
<1>6. \A seq \in Seq(Nat) : [t EXCEPT !.down = seq] \in Tunnels
  BY DEF Tunnels
<1>7. \A n \in Nat : [t EXCEPT !.out = n] \in Tunnels /\ [t EXCEPT !.srv = n] \in Tunnels
  BY DEF Tunnels
<1> QED
  BY <1>1, <1>2, <1>3, <1>4, <1>5, <1>6, <1>7

\* The one tunnel a step of AgentProxy changes, as a whole.
LEMMA TunnelSteps ==
  ASSUME NEW c \in Conns, tunnel \in [Conns -> Tunnels]
  PROVE  /\ \A e, n : [tunnel EXCEPT ![c].early = e, ![c].out = n]
                        = [tunnel EXCEPT ![c] = [tunnel[c] EXCEPT !.early = e, !.out = n]]
         /\ \A x, y : [tunnel EXCEPT ![c].server = x, ![c].copies = y]
                        = [tunnel EXCEPT ![c] = [tunnel[c] EXCEPT !.server = x, !.copies = y]]
<1>1. \A e, n : [tunnel EXCEPT ![c].early = e, ![c].out = n]
                  = [tunnel EXCEPT ![c] = [tunnel[c] EXCEPT !.early = e, !.out = n]]
  OBVIOUS
<1>2. \A x, y : [tunnel EXCEPT ![c].server = x, ![c].copies = y]
                  = [tunnel EXCEPT ![c] = [tunnel[c] EXCEPT !.server = x, !.copies = y]]
  OBVIOUS
<1> QED
  BY <1>1, <1>2

\* CONNECT keeps the types, intercepted or not.
LEMMA ConnectType ==
  ASSUME Shape, \A d \in Conns : Filled(d), NEW c \in Conns, NEW h \in Hosts,
         NEW e \in {0, 1}, Connect(c, h, e)
  PROVE  Shape' /\ \A d \in Conns : Filled(d)'
<1>1. [tunnel[c] EXCEPT !.early = e, !.out = e] \in Tunnels
  BY TunnelKinds DEF Shape
<1>2. tunnel' = [tunnel EXCEPT ![c] = [tunnel[c] EXCEPT !.early = e, !.out = e]]
  BY TunnelSteps DEF Shape, Connect
<1>3. tunnel' \in [Conns -> Tunnels]
  BY <1>1, <1>2 DEF Shape
<1>4. PICK s \in {"handshake", "dial"} : Goto(c, s)
  BY DEF Connect
<1>5. /\ stage' \in [Conns -> Stages] /\ stage'[c] = s
      /\ \A d \in Conns \ {c} : stage'[d] = stage[d]
  BY <1>4, GotoType, StageNames
<1>6. Shape'
  BY <1>3, <1>5 DEF Shape, Connect, brokerVars
<1> QED
  BY <1>5, <1>6 DEF Filled, Connect

\* Dialling the server of a tunnel keeps the types, whether it succeeds or not.
LEMMA DialType ==
  ASSUME Shape, \A d \in Conns : Filled(d), NEW c \in Conns, Dial(c)
  PROVE  Shape' /\ \A d \in Conns : Filled(d)'
<1>1. CASE Return(c) /\ UNCHANGED tunnel
  BY <1>1, ReturnsType DEF Dial
<1>2. CASE /\ tunnel' = [tunnel EXCEPT ![c].server = "open", ![c].copies = {"up", "down"}]
           /\ Goto(c, "tunnel") /\ UNCHANGED <<req, wire, resp>>
  <2>1. tunnel' = [tunnel EXCEPT ![c] =
                     [tunnel[c] EXCEPT !.server = "open", !.copies = {"up", "down"}]]
    BY <1>2, TunnelSteps DEF Shape
  <2>2. [tunnel[c] EXCEPT !.server = "open", !.copies = {"up", "down"}] \in Tunnels
    BY TunnelKinds DEF Shape
  <2>3. tunnel' \in [Conns -> Tunnels]
    BY <2>1, <2>2 DEF Shape
  <2>4. /\ stage' \in [Conns -> Stages] /\ stage'[c] = "tunnel"
        /\ \A d \in Conns \ {c} : stage'[d] = stage[d]
    BY <1>2, GotoType, StageNames
  <2>5. Shape'
    BY <1>2, <2>3, <2>4 DEF Shape, Dial, brokerVars
  <2> QED
    BY <1>2, <2>4, <2>5 DEF Filled
<1> QED
  BY <1>1, <1>2 DEF Dial

\* What a copy and the two sides of a tunnel do to it.
TunnelMoves(c, t) ==
  \/ t = [tunnel[c] EXCEPT !.up = Append(@, Len(tunnel[c].up) + 1)]
  \/ t = [tunnel[c] EXCEPT !.down = Append(@, Len(tunnel[c].down) + 1)]
  \/ \E dir \in {"up", "down"} : t = [tunnel[c] EXCEPT !.copies = @ \ {dir}]
  \/ t = [tunnel[c] EXCEPT !.out = @ + 1]
  \/ t = [tunnel[c] EXCEPT !.srv = @ + 1]
  \/ t = [tunnel[c] EXCEPT !.server = "closed"]

\* A chunk more is still a sequence of numbers.
LEMMA OneLonger ==
  /\ \A seq \in Seq(Nat) : Append(seq, Len(seq) + 1) \in Seq(Nat)
  /\ \A n \in Nat : n + 1 \in Nat
OBVIOUS

\* A step inside a tunnel keeps the types.
LEMMA MovesType ==
  ASSUME Shape, \A d \in Conns : Filled(d), NEW c \in Conns, NEW t, TunnelMoves(c, t),
         tunnel' = [tunnel EXCEPT ![c] = t], UNCHANGED <<connVars, brokerVars>>
  PROVE  Shape' /\ \A d \in Conns : Filled(d)'
<1>1. tunnel[c] \in Tunnels
  BY DEF Shape
<1>2. /\ tunnel[c].up \in Seq(Nat) /\ tunnel[c].down \in Seq(Nat)
      /\ tunnel[c].out \in Nat /\ tunnel[c].srv \in Nat
      /\ tunnel[c].copies \in SUBSET {"up", "down"}
  BY <1>1 DEF Tunnels
<1>3. /\ Append(tunnel[c].up, Len(tunnel[c].up) + 1) \in Seq(Nat)
      /\ Append(tunnel[c].down, Len(tunnel[c].down) + 1) \in Seq(Nat)
      /\ tunnel[c].out + 1 \in Nat /\ tunnel[c].srv + 1 \in Nat
  BY <1>2, OneLonger, Zenon
<1>4. \A dir : tunnel[c].copies \ {dir} \in SUBSET {"up", "down"}
  BY <1>2
<1>5. t \in Tunnels
  <2>1. CASE t = [tunnel[c] EXCEPT !.up = Append(@, Len(tunnel[c].up) + 1)]
    BY <1>1, <1>3, <2>1, TunnelKinds
  <2>2. CASE t = [tunnel[c] EXCEPT !.down = Append(@, Len(tunnel[c].down) + 1)]
    BY <1>1, <1>3, <2>2, TunnelKinds
  <2>3. CASE \E dir \in {"up", "down"} : t = [tunnel[c] EXCEPT !.copies = @ \ {dir}]
    <3>1. PICK y \in SUBSET {"up", "down"} : t = [tunnel[c] EXCEPT !.copies = y]
      BY <1>4, <2>3, Zenon
    <3> QED
      BY <1>1, <3>1, TunnelKinds
  <2>4. CASE t = [tunnel[c] EXCEPT !.out = @ + 1]
    BY <1>1, <1>3, <2>4, TunnelKinds
  <2>5. CASE t = [tunnel[c] EXCEPT !.srv = @ + 1]
    BY <1>1, <1>3, <2>5, TunnelKinds
  <2>6. CASE t = [tunnel[c] EXCEPT !.server = "closed"]
    BY <1>1, <2>6, TunnelKinds
  <2> QED
    BY <2>1, <2>2, <2>3, <2>4, <2>5, <2>6 DEF TunnelMoves
<1> QED
  BY <1>5, TunnelType

\* The codes an answer may carry, by name.
LEMMA CodeNames ==
  {"broker", "read_error", "cap_exceeded", "no_ref", "unknown_ref", "broker_unreachable"} = Codes
BY DEF Codes

\* The steps that touch nothing but one tunnel.
LEMMA OnlyTunnel ==
  ASSUME Shape, NEW c \in Conns,
         CopyUp(c) \/ CopyDown(c) \/ ToolSends(c) \/ ServerSends(c) \/ ServerCloses(c)
  PROVE  /\ UNCHANGED <<connVars, brokerVars>>
         /\ \E t : TunnelMoves(c, t) /\ tunnel' = [tunnel EXCEPT ![c] = t]
<1>1. CASE CopyUp(c)
  BY <1>1 DEF CopyUp, Ends, TunnelMoves
<1>2. CASE CopyDown(c)
  BY <1>2 DEF CopyDown, Ends, TunnelMoves
<1>3. CASE ToolSends(c) \/ ServerSends(c) \/ ServerCloses(c)
  BY <1>3 DEF ToolSends, ServerSends, ServerCloses, TunnelMoves
<1> QED
  BY <1>1, <1>2, <1>3

\* serveOne keeps the types on every return path.
LEMMA ServeType ==
  ASSUME Shape, \A d \in Conns : Filled(d), NEW c \in Conns, serveOne(c)
  PROVE  Shape' /\ \A d \in Conns : Filled(d)'
<1>1. CASE \E code \in Codes : Refuse(c, code)
  BY <1>1, RefuseType DEF serveOne
<1>2. ASSUME NEW ref, NEW u, ref # NoRef, Goto(c, "relay"),
             wire' = [wire EXCEPT ![c] = [ref |-> ref, upstream |-> u]],
             UNCHANGED <<req, resp, answers>>
      PROVE  Shape' /\ \A d \in Conns : Filled(d)'
  <2>1. /\ stage' \in [Conns -> Stages] /\ stage'[c] = "relay"
        /\ \A d \in Conns \ {c} : stage'[d] = stage[d]
    BY <1>2, GotoType, StageNames
  <2>2. /\ DOMAIN wire' = Conns /\ wire'[c].ref # NoRef
        /\ \A d \in Conns \ {c} : wire'[d] = wire[d]
    BY <1>2 DEF Shape
  <2>3. Shape'
    BY <1>2, <2>1, <2>2 DEF Shape, serveOne, brokerVars
  <2> QED
    BY <1>2, <2>1, <2>2, <2>3 DEF Filled, NoWire
<1> QED
  BY <1>1, <1>2, CodeNames DEF serveOne

\* Writing the broker's answer keeps the types.
LEMMA WriteType ==
  ASSUME Shape, \A d \in Conns : Filled(d), NEW c \in Conns, Write(c)
  PROVE  Shape' /\ \A d \in Conns : Filled(d)'
<1>1. stage[c] = "write" /\ count[c] \in Nat /\ resp[c] \in Answers
  BY AgentAssumption DEF Shape, Filled, Write
<1>2. /\ Written(c, [to |-> count[c], code |-> "broker", answer |-> resp[c],
                     full |-> ~BreaksOff(resp[c])])
      /\ UNCHANGED <<up, host, tool, count, tunnel, brokerVars>>
  BY DEF Write
<1>3. answers' \in [Conns -> Seq(Replies)]
  BY <1>1, <1>2, ReplyType, WrittenType
<1>4. CASE Return(c)
  <2>1. Shape'
    BY <1>2, <1>3, <1>4, ReturnType DEF Shape, brokerVars
  <2> QED
    BY <1>4, <2>1, ReturnType DEF Filled
<1>5. CASE /\ Goto(c, "read") /\ req' = [req EXCEPT ![c] = NoRequest]
           /\ wire' = [wire EXCEPT ![c] = NoWire] /\ resp' = [resp EXCEPT ![c] = NoAnswer]
  <2>1. /\ stage' \in [Conns -> Stages] /\ stage'[c] = "read"
        /\ \A d \in Conns \ {c} : stage'[d] = stage[d]
    BY <1>5, GotoType, StageNames
  <2>2. Shape'
    BY <1>2, <1>3, <1>5, <2>1 DEF Shape, brokerVars
  <2> QED
    BY <1>5, <2>1, <2>2 DEF Filled, Shape
<1> QED
  BY <1>4, <1>5 DEF Write

\* Another stage, with nothing of the connection but one variable changed.
LEMMA StageType ==
  ASSUME Shape, \A d \in Conns : Filled(d), NEW c \in Conns,
         NEW s \in {"read", "serve", "closed"}, Goto(c, s),
         count' \in [Conns -> 0..MaxReqs], req' \in [Conns -> Requests \cup {NoRequest}],
         UNCHANGED <<host, tool, wire, resp, answers, tunnel, brokerVars>>
  PROVE  Shape' /\ \A d \in Conns : Filled(d)'
<1>1. /\ stage' \in [Conns -> Stages] /\ stage'[c] = s
      /\ \A d \in Conns \ {c} : stage'[d] = stage[d]
  BY GotoType, StageNames
<1>2. Shape'
  BY <1>1 DEF Shape, brokerVars
<1> QED
  BY <1>1, <1>2 DEF Filled

\* The broker's side of a request.
LEMMA BrokerType ==
  ASSUME Shape, \A d \in Conns : Filled(d), UNCHANGED <<connVars, tunnel>>,
         phase' \in [Relays -> {"none", "open", "spent", "closed"}], spent' \subseteq Relays
  PROVE  Shape' /\ \A d \in Conns : Filled(d)'
<1>1. Shape'
  BY DEF Shape, connVars
<1> QED
  BY <1>1 DEF Filled, connVars

\* The broker's answer keeps the types.
LEMMA AnswersType ==
  ASSUME Shape, \A d \in Conns : Filled(d), NEW c \in Conns, NEW a \in Answers,
         BrokerAnswers(c, a)
  PROVE  Shape' /\ \A d \in Conns : Filled(d)'
<1>1. /\ stage' \in [Conns -> Stages] /\ stage'[c] = "write"
      /\ \A d \in Conns \ {c} : stage'[d] = stage[d]
  BY GotoType, StageNames DEF BrokerAnswers
<1>2. phase' \in [Relays -> {"none", "open", "spent", "closed"}]
  BY DEF Shape, BrokerAnswers
<1>3. resp' \in [Conns -> Answers \cup {NoAnswer}] /\ resp'[c] = a
  BY DEF Shape, BrokerAnswers
<1>4. \A d \in Conns \ {c} : resp'[d] = resp[d]
  BY DEF Shape, BrokerAnswers
<1>5. Shape'
  BY <1>1, <1>2, <1>3 DEF Shape, BrokerAnswers
<1>6. a # NoAnswer
  BY AnswersAssumption DEF NoAnswer
<1> QED
  BY <1>1, <1>3, <1>4, <1>5, <1>6 DEF Filled, BrokerAnswers

\* The end of the agent keeps the types.
LEMMA ExitType ==
  ASSUME Shape, Exit
  PROVE  Shape' /\ \A d \in Conns : Filled(d)'
<1>1. \A c \in Conns : [tunnel[c] EXCEPT !.copies = {}] \in Tunnels
  BY TunnelKinds DEF Shape
<1>2. tunnel' \in [Conns -> Tunnels]
  BY <1>1 DEF Exit
<1>3. stage' \in [Conns -> Stages] /\ \A d \in Conns : stage'[d] = "closed"
  BY StageNames DEF Exit
<1>4. Shape'
  BY <1>2, <1>3 DEF Shape, Exit, brokerVars
<1> QED
  BY <1>3, <1>4 DEF Filled

\* Every step keeps the types.
LEMMA ShapeStep ==
  ASSUME Shape, \A d \in Conns : Filled(d), [Next]_vars
  PROVE  Shape' /\ \A d \in Conns : Filled(d)'
<1>1. ASSUME NEW c \in Conns, PlainHTTP(c) \/ ReadEnds(c) \/ TunnelReturns(c)
      PROVE  Shape' /\ \A d \in Conns : Filled(d)'
  BY <1>1, ReturnsType DEF PlainHTTP, ReadEnds, TunnelReturns
<1>2. ASSUME NEW c \in Conns, Handshake(c)
      PROVE  Shape' /\ \A d \in Conns : Filled(d)'
  <2>1. CASE Return(c)
    BY <1>2, <2>1, ReturnsType DEF Handshake
  <2>2. CASE Goto(c, "read") /\ UNCHANGED <<req, wire, resp>>
    <3>1. count' \in [Conns -> 0..MaxReqs] /\ req' \in [Conns -> Requests \cup {NoRequest}]
      BY <1>2, <2>2 DEF Shape, Handshake
    <3> QED
      BY <1>2, <2>2, <3>1, StageType DEF Handshake
  <2> QED
    BY <1>2, <2>1, <2>2 DEF Handshake
<1>3. ASSUME NEW c \in Conns, NEW q \in Requests, ReadRequest(c, q)
      PROVE  Shape' /\ \A d \in Conns : Filled(d)'
  <2>1. count' \in [Conns -> 0..MaxReqs] /\ req' \in [Conns -> Requests \cup {NoRequest}]
    BY <1>3, AgentAssumption DEF Shape, ReadRequest
  <2> QED
    BY <1>3, <2>1, StageType DEF ReadRequest
<1>4. ASSUME NEW c \in Conns, Deliver(c)
      PROVE  Shape' /\ \A d \in Conns : Filled(d)'
  <2>1. phase' \in [Relays -> {"none", "open", "spent", "closed"}]
    BY <1>4 DEF Shape, Deliver
  <2> QED
    BY <1>4, <2>1, BrokerType DEF Deliver, Shape
<1>5. ASSUME NEW c \in Conns, RelayFails(c)
      PROVE  Shape' /\ \A d \in Conns : Filled(d)'
  BY <1>5, CodeNames, RefuseType DEF RelayFails
<1>6. ASSUME NEW c \in Conns,
             CopyUp(c) \/ CopyDown(c) \/ ToolSends(c) \/ ServerSends(c) \/ ServerCloses(c)
      PROVE  Shape' /\ \A d \in Conns : Filled(d)'
  BY <1>6, OnlyTunnel, MovesType
<1>7. ASSUME NEW c \in Conns, NEW how \in {"half", "closed"}, ToolEnds(c, how)
      PROVE  Shape' /\ \A d \in Conns : Filled(d)'
  <2>1. tool' \in [Conns -> {"open", "half", "closed"}]
    BY <1>7 DEF Shape, ToolEnds
  <2>2. Shape'
    BY <1>7, <2>1 DEF Shape, ToolEnds, brokerVars
  <2> QED
    BY <1>7, <2>2 DEF Filled, ToolEnds
<1>8. ASSUME NEW r \in Relays, BrokerSpends(r) \/ BrokerDrops(r)
      PROVE  Shape' /\ \A d \in Conns : Filled(d)'
  <2>1. phase' \in [Relays -> {"none", "open", "spent", "closed"}] /\ spent' \subseteq Relays
    BY <1>8 DEF Shape, BrokerSpends, BrokerDrops
  <2> QED
    BY <1>8, <2>1, BrokerType DEF BrokerSpends, BrokerDrops
<1>9. CASE UNCHANGED vars
  <2>1. Shape'
    BY <1>9 DEF Shape, vars
  <2> QED
    BY <1>9, <2>1 DEF Filled, vars
<1> QED
  BY <1>1, <1>2, <1>3, <1>4, <1>5, <1>6, <1>7, <1>8, <1>9, ConnectType, DialType, ServeType,
     WriteType, AnswersType, ExitType
  DEF Next, Environment, Agent, Handler, BrokerMoves

\* The agent's proxy keeps its type, for any number of connections: in particular
\* there is a request to relay in stage "relay" and a response in stage "write".
THEOREM TypeHolds == Spec => []TypeOK
<1> DEFINE Inv == up \in BOOLEAN /\ Shape /\ \A d \in Conns : Filled(d)
<1>1. Init => Inv
  <2> SUFFICES ASSUME Init PROVE Inv
    OBVIOUS
  <2>1. up \in BOOLEAN
    BY Zenon DEF Init
  <2>2. NoTunnel \in Tunnels
    BY DEF NoTunnel, Tunnels
  <2>3. Shape
    BY <2>2, StageNames, AgentAssumption DEF Init, Shape
  <2> QED
    BY <2>1, <2>3 DEF Init, Filled
<1>2. Inv /\ [Next]_vars => Inv'
  <2> SUFFICES ASSUME Inv, [Next]_vars PROVE Inv'
    OBVIOUS
  <2>1. up' = up \/ up' = FALSE
    BY DEF Next, Environment, Agent, Handler, BrokerMoves, vars, PlainHTTP, Connect, Dial, CopyUp,
       CopyDown, TunnelReturns, Handshake, ReadRequest, ReadEnds, serveOne, Deliver, RelayFails,
       Write, Exit, ToolEnds, ToolSends, ServerSends, ServerCloses, BrokerSpends, BrokerAnswers,
       BrokerDrops
  <2>2. up' \in BOOLEAN
    BY <2>1, Zenon
  <2> QED
    BY <2>2, ShapeStep
<1>3. Inv => TypeOK
  BY DEF Shape, Filled, TypeOK
<1> QED
  BY <1>1, <1>2, <1>3, PTL DEF Spec


-----------------------------------------------------------------------------
\* A step of one connection leaves the others alone.

Others(c) ==
  \A d \in Conns \ {c} :
    /\ stage'[d] = stage[d] /\ host'[d] = host[d] /\ tool'[d] = tool[d]
    /\ count'[d] = count[d] /\ req'[d] = req[d] /\ wire'[d] = wire[d]
    /\ resp'[d] = resp[d] /\ answers'[d] = answers[d] /\ tunnel'[d] = tunnel[d]

\* The type invariant gives the parts the arguments below read.
LEMMA Shapely == TypeOK => Shape /\ \A d \in Conns : Filled(d)
BY DEF TypeOK, Shape, Filled

\* A goroutine that returns leaves the other connections alone.
LEMMA OthersReturn ==
  ASSUME Shape, NEW c \in Conns, Return(c), UNCHANGED <<host, tool, count, answers, tunnel>>
  PROVE  Others(c)
BY DEF Shape, Return, Goto, Others

\* A refusal leaves the other connections alone.
LEMMA OthersRefuse ==
  ASSUME Shape, NEW c \in Conns, NEW code, Refuse(c, code),
         UNCHANGED <<host, tool, count, tunnel>>
  PROVE  Others(c)
<1>1. \A d \in Conns \ {c} : answers'[d] = answers[d]
  BY DEF Shape, Refuse, Written
<1> QED
  BY <1>1 DEF Shape, Refuse, Return, Goto, Others

\* serveOne leaves the other connections alone.
LEMMA OthersServe ==
  ASSUME Shape, NEW c \in Conns, serveOne(c)
  PROVE  Others(c)
<1>1. CASE \E code : Refuse(c, code)
  BY <1>1, OthersRefuse DEF serveOne
<1>2. CASE /\ Goto(c, "relay") /\ UNCHANGED <<req, resp, answers>>
           /\ \E w : wire' = [wire EXCEPT ![c] = w]
  BY <1>2 DEF Shape, serveOne, Goto, Others
<1> QED
  BY <1>1, <1>2 DEF serveOne

\* Writing an answer leaves the other connections alone.
LEMMA OthersWrite ==
  ASSUME Shape, NEW c \in Conns, Write(c)
  PROVE  Others(c)
<1>1. \A d \in Conns \ {c} : answers'[d] = answers[d]
  BY DEF Shape, Write, Written
<1> QED
  BY <1>1 DEF Shape, Write, Return, Goto, Others

\* Every step of a connection leaves the others alone: they share no state of the proxy.
LEMMA OthersKept ==
  ASSUME Shape, NEW c \in Conns,
         \/ Agent(c) \/ BrokerMoves(c) \/ ToolSends(c) \/ ServerSends(c) \/ ServerCloses(c)
         \/ \E how \in {"half", "closed"} : ToolEnds(c, how)
  PROVE  Others(c)
<1>1. CASE PlainHTTP(c) \/ ReadEnds(c) \/ TunnelReturns(c)
  BY <1>1, OthersReturn DEF PlainHTTP, ReadEnds, TunnelReturns
<1>2. CASE Handshake(c)
  BY <1>2, OthersReturn DEF Shape, Handshake, Goto, Others
<1>3. CASE \E q \in Requests : ReadRequest(c, q)
  BY <1>3 DEF Shape, ReadRequest, Goto, Others
<1>4. CASE Deliver(c)
  BY <1>4 DEF Deliver, Others, connVars
<1>5. CASE RelayFails(c)
  BY <1>5, OthersRefuse DEF RelayFails
<1>6. CASE CopyUp(c) \/ CopyDown(c) \/ ToolSends(c) \/ ServerSends(c) \/ ServerCloses(c)
  BY <1>6, OnlyTunnel DEF Shape, Others, connVars
<1>7. CASE \E how \in {"half", "closed"} : ToolEnds(c, how)
  BY <1>7 DEF Shape, ToolEnds, Others
<1>8. CASE BrokerMoves(c)
  BY <1>8 DEF Shape, BrokerMoves, BrokerAnswers, Goto, Others
<1>9. CASE \E h \in Hosts, early \in {0, 1} : Connect(c, h, early)
  BY <1>9 DEF Shape, Connect, Goto, Others
<1>10. CASE Dial(c)
  BY <1>10, OthersReturn DEF Shape, Dial, Goto, Others
<1> QED
  BY <1>1, <1>2, <1>3, <1>4, <1>5, <1>6, <1>7, <1>8, <1>9, <1>10, OthersServe, OthersWrite
  DEF Agent, Handler

-----------------------------------------------------------------------------
\* What is relayed.

\* The place a rule reads is empty in what buildUpstream makes of a request.
LEMMA Stripped ==
  \A rule, q : ~Carries(buildUpstream(rule, q), rule)
BY DEF Carries, buildUpstream, Without

\* A connection's step owes RelayInv its own part only.
LEMMA RelayOthers ==
  ASSUME RelayInv, NEW c \in Conns, Others(c), Relayed(c)'
  PROVE  RelayInv'
BY DEF RelayInv, Relayed, Others

\* RelayInv is inductive.
LEMMA RelayStep ==
  ASSUME TypeOK, RelayInv, [Next]_vars
  PROVE  RelayInv'
<1>0. Shape
  BY Shapely
<1> DEFINE Steps(c) == \/ Agent(c) \/ BrokerMoves(c) \/ ToolSends(c) \/ ServerSends(c)
                       \/ ServerCloses(c) \/ \E how \in {"half", "closed"} : ToolEnds(c, how)
<1>1. ASSUME NEW c \in Conns, Steps(c) PROVE Relayed(c)'
  <2>0. Relayed(c)
    BY DEF RelayInv
  <2>1. CASE Return(c)
    <3>1. stage'[c] = "closed"
      BY <1>0, <2>1, ReturnType
    <3> QED
      BY <3>1, StageNames DEF Relayed
  <2>2. CASE \E h \in Hosts, early \in {0, 1} : Connect(c, h, early)
    <3>1. PICK h \in Hosts : /\ host' = [host EXCEPT ![c] = h]
                             /\ Goto(c, IF IsIntercepted(h) THEN "handshake" ELSE "dial")
      BY <2>2 DEF Connect
    <3>2. host'[c] = h /\ stage'[c] = IF IsIntercepted(h) THEN "handshake" ELSE "dial"
      BY <1>0, <3>1 DEF Shape, Goto
    <3> QED
      BY <3>2, StageNames DEF Relayed
  <2>3. CASE serveOne(c) /\ ~Return(c)
    <3>1. PICK rule \in DetectFor(host[c]) :
            /\ Known(DetectRef(rule, req[c])) /\ Goto(c, "relay") /\ UNCHANGED <<host, req>>
            /\ wire' = [wire EXCEPT ![c] = [ref |-> DetectRef(rule, req[c]),
                                            upstream |-> buildUpstream(rule, req[c])]]
      BY <2>3 DEF serveOne, Refuse
    <3>2. /\ wire'[c] = [ref |-> DetectRef(rule, req[c]), upstream |-> buildUpstream(rule, req[c])]
          /\ stage'[c] = "relay"
      BY <1>0, <3>1 DEF Shape, Goto
    <3>3. wire'[c].ref = DetectRef(rule, req[c]) /\ ~Carries(wire'[c].upstream, rule)
      BY <3>2, Stripped
    <3>4. IsIntercepted(host[c])
      BY <2>0, <2>3, StageNames DEF Relayed, serveOne
    <3> QED
      BY <3>1, <3>2, <3>3, <3>4 DEF Relayed
  <2>4. ASSUME NEW s \in Stages \ {"relay"}, Goto(c, s), host' = host,
               stage[c] \in {"handshake", "read"} \cup Serving \/ s = "tunnel"
        PROVE  Relayed(c)'
    <3>1. stage'[c] = s
      BY <1>0, <2>4, GotoType
    <3> QED
      BY <2>0, <2>4, <3>1, StageNames DEF Relayed
  <2>5. CASE Handshake(c) \/ (\E q \in Requests : ReadRequest(c, q)) \/ Dial(c)
             \/ BrokerMoves(c) \/ Write(c)
    BY <2>1, <2>4, <2>5, StageNames
    DEF Handshake, ReadRequest, Dial, BrokerMoves, BrokerAnswers, Write
  <2>6. CASE UNCHANGED <<stage, host, wire, req>>
    BY <2>0, <2>6 DEF Relayed
  <2> QED
    BY <1>0, <1>1, <2>1, <2>2, <2>3, <2>5, <2>6, OnlyTunnel
    DEF Agent, Handler, PlainHTTP, TunnelReturns, ReadEnds, RelayFails, Refuse, Deliver, connVars,
        ToolEnds
<1>2. ASSUME NEW c \in Conns, Steps(c) PROVE RelayInv'
  BY <1>0, <1>1, <1>2, OthersKept, RelayOthers
<1>3. CASE Exit
  BY <1>3, StageNames DEF Exit, RelayInv, Relayed
<1>4. CASE UNCHANGED <<stage, host, wire, req>>
  BY <1>4 DEF RelayInv, Relayed
<1> QED
  BY <1>2, <1>3, <1>4 DEF Next, Environment, BrokerSpends, BrokerDrops, connVars, vars

\* What is relayed is a known reference found in the place of a rule for the host,
\* and that place is empty in the request that goes along.
THEOREM OnlyRefsRelayedHolds == Spec => []OnlyRefsRelayed
<1>1. Init => RelayInv
  BY StageNames DEF Init, RelayInv, Relayed
<1>2. TypeOK /\ RelayInv /\ [Next]_vars => RelayInv'
  BY RelayStep
<1>3. RelayInv => OnlyRefsRelayed
  BY StageNames DEF RelayInv, Relayed, OnlyRefsRelayed
<1> QED
  BY <1>1, <1>2, <1>3, TypeHolds, PTL DEF Spec


-----------------------------------------------------------------------------
\* The blind tunnel.

\* One more element, equal to its place, keeps a sequence in order.
LEMMA InOrder ==
  ASSUME NEW seq \in Seq(Nat), \A i \in 1..Len(seq) : seq[i] = i
  PROVE  /\ Len(Append(seq, Len(seq) + 1)) = Len(seq) + 1
         /\ \A i \in 1..Len(Append(seq, Len(seq) + 1)) : Append(seq, Len(seq) + 1)[i] = i
OBVIOUS

\* A connection's step owes TunnelInv its own part only.
LEMMA TunnelOthers ==
  ASSUME TunnelInv, NEW c \in Conns, Others(c), up' = up, Tunnelled(c)'
  PROVE  TunnelInv'
BY DEF TunnelInv, Tunnelled, Others

\* The types of a tunnel's fields.
LEMMA TunnelFields ==
  ASSUME Shape, NEW c \in Conns
  PROVE  /\ tunnel[c].up \in Seq(Nat) /\ tunnel[c].down \in Seq(Nat)
         /\ tunnel[c].out \in Nat /\ tunnel[c].srv \in Nat
         /\ tunnel[c].copies \in SUBSET {"up", "down"}
         /\ tunnel[c] \in Tunnels
BY DEF Shape, Tunnels

\* The copy toward the server appends the next chunk, ends, or does nothing.
LEMMA CopyUpDelivers ==
  ASSUME Shape, NEW c \in Conns, Tunnelled(c), CopyUp(c)
  PROVE  Tunnelled(c)'
<1> DEFINE t == tunnel[c]
<1>0. /\ t.up \in Seq(Nat) /\ t.down \in Seq(Nat) /\ t.out \in Nat /\ t.srv \in Nat
      /\ t.copies \in SUBSET {"up", "down"} /\ t \in Tunnels
  BY TunnelFields
<1>1. CASE /\ stage[c] = "tunnel" /\ Len(t.up) + 1 <= t.out /\ t.server = "open"
           /\ tunnel' = [tunnel EXCEPT ![c].up = Append(@, Len(t.up) + 1)]
  <2>1. /\ tunnel'[c].up = Append(t.up, Len(t.up) + 1) /\ tunnel'[c].down = t.down
        /\ tunnel'[c].out = t.out /\ tunnel'[c].srv = t.srv /\ tunnel'[c].copies = t.copies
        /\ tunnel'[c].server = t.server
    BY <1>0, <1>1 DEF Shape, Tunnels
  <2>2. \A i \in 1..Len(t.up) : t.up[i] = i
    BY DEF Tunnelled
  <2>3. /\ Len(tunnel'[c].up) = Len(t.up) + 1
        /\ \A i \in 1..Len(tunnel'[c].up) : tunnel'[c].up[i] = i
    BY <1>0, <2>1, <2>2, InOrder
  <2>4. "up" \in t.copies /\ UNCHANGED <<up, stage, tool>>
    BY DEF CopyUp, connVars
  <2> QED
    BY <1>0, <1>1, <2>1, <2>3, <2>4 DEF Tunnelled
<1>2. CASE /\ \/ stage[c] = "closed"
              \/ Len(t.up) + 1 <= t.out /\ t.server = "closed"
              \/ Len(t.up) + 1 > t.out /\ tool[c] # "open"
           /\ Ends(c, "up")
  <2>1. /\ tunnel'[c].up = t.up /\ tunnel'[c].down = t.down
        /\ tunnel'[c].out = t.out /\ tunnel'[c].srv = t.srv /\ tunnel'[c].copies = t.copies \ {"up"}
        /\ tunnel'[c].server = t.server
    BY <1>0, <1>2 DEF Shape, Tunnels, Ends
  <2>2. "up" \in t.copies /\ UNCHANGED <<up, stage, tool>>
    BY DEF CopyUp, connVars
  <2> QED
    BY <1>0, <1>2, <2>1, <2>2 DEF Tunnelled
<1> QED
  BY <1>1, <1>2 DEF CopyUp

\* The copy toward the tool appends the next chunk, ends, or does nothing.
LEMMA CopyDownDelivers ==
  ASSUME Shape, NEW c \in Conns, Tunnelled(c), CopyDown(c)
  PROVE  Tunnelled(c)'
<1> DEFINE t == tunnel[c]
<1>0. /\ t.up \in Seq(Nat) /\ t.down \in Seq(Nat) /\ t.out \in Nat /\ t.srv \in Nat
      /\ t.copies \in SUBSET {"up", "down"} /\ t \in Tunnels
  BY TunnelFields
<1>1. CASE /\ stage[c] = "tunnel" /\ Len(t.down) + 1 <= t.srv /\ tool[c] # "closed"
           /\ tunnel' = [tunnel EXCEPT ![c].down = Append(@, Len(t.down) + 1)]
  <2>1. /\ tunnel'[c].down = Append(t.down, Len(t.down) + 1) /\ tunnel'[c].up = t.up
        /\ tunnel'[c].out = t.out /\ tunnel'[c].srv = t.srv /\ tunnel'[c].copies = t.copies
        /\ tunnel'[c].server = t.server
    BY <1>0, <1>1 DEF Shape, Tunnels
  <2>2. \A i \in 1..Len(t.down) : t.down[i] = i
    BY DEF Tunnelled
  <2>3. /\ Len(tunnel'[c].down) = Len(t.down) + 1
        /\ \A i \in 1..Len(tunnel'[c].down) : tunnel'[c].down[i] = i
    BY <1>0, <2>1, <2>2, InOrder
  <2>4. "down" \in t.copies /\ UNCHANGED <<up, stage, tool>>
    BY DEF CopyDown, connVars
  <2> QED
    BY <1>0, <1>1, <2>1, <2>3, <2>4 DEF Tunnelled
<1>2. CASE /\ \/ stage[c] = "closed"
              \/ Len(t.down) + 1 <= t.srv /\ tool[c] = "closed"
              \/ Len(t.down) + 1 > t.srv /\ t.server = "closed"
           /\ Ends(c, "down")
  <2>1. /\ tunnel'[c].up = t.up /\ tunnel'[c].down = t.down
        /\ tunnel'[c].out = t.out /\ tunnel'[c].srv = t.srv
        /\ tunnel'[c].copies = t.copies \ {"down"} /\ tunnel'[c].server = t.server
    BY <1>0, <1>2 DEF Shape, Tunnels, Ends
  <2>2. "down" \in t.copies /\ UNCHANGED <<up, stage, tool>>
    BY DEF CopyDown, connVars
  <2> QED
    BY <1>0, <1>2, <2>1, <2>2 DEF Tunnelled
<1> QED
  BY <1>1, <1>2 DEF CopyDown

\* What the two sides of an open tunnel add.
LEMMA SidesDeliver ==
  ASSUME Shape, NEW c \in Conns, Tunnelled(c), ToolSends(c) \/ ServerSends(c) \/ ServerCloses(c)
  PROVE  Tunnelled(c)'
<1> DEFINE t == tunnel[c]
<1>0. /\ t.up \in Seq(Nat) /\ t.down \in Seq(Nat) /\ t.out \in Nat /\ t.srv \in Nat
      /\ t.copies \in SUBSET {"up", "down"} /\ t \in Tunnels
  BY TunnelFields
<1>1. stage[c] = "tunnel" /\ UNCHANGED <<up, stage, tool>>
  BY DEF ToolSends, ServerSends, ServerCloses, connVars
<1>2. CASE ToolSends(c)
  <2>1. /\ tunnel'[c].up = t.up /\ tunnel'[c].down = t.down /\ tunnel'[c].out = t.out + 1
        /\ tunnel'[c].srv = t.srv /\ tunnel'[c].copies = t.copies /\ tunnel'[c].server = t.server
    BY <1>0, <1>2 DEF Shape, Tunnels, ToolSends
  <2> QED
    BY <1>0, <1>1, <2>1 DEF Tunnelled
<1>3. CASE ServerSends(c)
  <2>1. /\ tunnel'[c].up = t.up /\ tunnel'[c].down = t.down /\ tunnel'[c].out = t.out
        /\ tunnel'[c].srv = t.srv + 1 /\ tunnel'[c].copies = t.copies
        /\ tunnel'[c].server = t.server /\ t.server = "open"
    BY <1>0, <1>3 DEF Shape, Tunnels, ServerSends
  <2> QED
    BY <1>0, <1>1, <2>1 DEF Tunnelled
<1>4. CASE ServerCloses(c)
  <2>1. /\ tunnel'[c].up = t.up /\ tunnel'[c].down = t.down /\ tunnel'[c].out = t.out
        /\ tunnel'[c].srv = t.srv /\ tunnel'[c].copies = t.copies
        /\ tunnel'[c].server = "closed"
    BY <1>0, <1>4 DEF Shape, Tunnels, ServerCloses
  <2> QED
    BY <1>0, <1>1, <2>1 DEF Tunnelled
<1> QED
  BY <1>2, <1>3, <1>4

\* A handler that returns: if one copy of a tunnel has ended while the tool stays and
\* everything of it was delivered, it is the one down that has, with nothing left.
LEMMA ReturnDelivers ==
  ASSUME Shape, NEW c \in Conns, Tunnelled(c), Return(c), UNCHANGED <<up, tool, tunnel>>,
         stage[c] \notin {"tunnel", "closed"} \/ TunnelReturns(c)
  PROVE  Tunnelled(c)'
<1> DEFINE t == tunnel[c]
<1>0. /\ t.up \in Seq(Nat) /\ t.down \in Seq(Nat) /\ t.out \in Nat /\ t.srv \in Nat
      /\ t.copies \in SUBSET {"up", "down"} /\ t \in Tunnels
  BY TunnelFields
<1>1. stage'[c] = "closed"
  BY ReturnType
<1>2. tool[c] = "open" /\ Len(t.up) = t.out => Len(t.down) = t.srv
  <2>1. CASE stage[c] \notin {"tunnel", "closed"}
    BY <1>0, <2>1 DEF Tunnelled
  <2>2. CASE TunnelReturns(c)
    <3>1. stage[c] = "tunnel" /\ ("up" \notin t.copies \/ "down" \notin t.copies)
      BY <1>0, <2>2 DEF TunnelReturns
    <3> QED
      BY <1>0, <3>1 DEF Tunnelled
  <2> QED
    BY <2>1, <2>2
<1> QED
  BY <1>0, <1>1, <1>2 DEF Tunnelled

\* A tunnel begins with what was buffered behind the CONNECT head, in order.
LEMMA DialDelivers ==
  ASSUME Shape, NEW c \in Conns, Tunnelled(c), Dial(c), ~Return(c)
  PROVE  Tunnelled(c)'
<1> DEFINE t == tunnel[c]
<1>0. /\ t.up \in Seq(Nat) /\ t.down \in Seq(Nat) /\ t.out \in Nat /\ t.srv \in Nat
      /\ t.copies \in SUBSET {"up", "down"} /\ t \in Tunnels
  BY TunnelFields
<1>1. /\ tunnel' = [tunnel EXCEPT ![c] = [t EXCEPT !.server = "open", !.copies = {"up", "down"}]]
      /\ Goto(c, "tunnel") /\ stage[c] = "dial" /\ UNCHANGED <<up, tool>>
  BY TunnelSteps DEF Shape, Dial
<1>2. stage'[c] = "tunnel"
  BY <1>1, GotoType, StageNames
<1>3. /\ tunnel'[c].up = t.up /\ tunnel'[c].down = t.down /\ tunnel'[c].out = t.out
      /\ tunnel'[c].srv = t.srv /\ tunnel'[c].copies = {"up", "down"}
      /\ tunnel'[c].server = "open"
  BY <1>0, <1>1 DEF Shape, Tunnels
<1> QED
  BY <1>0, <1>1, <1>2, <1>3 DEF Tunnelled

\* CONNECT notes what the tool sent along with it.
LEMMA ConnectDelivers ==
  ASSUME Shape, NEW c \in Conns, Tunnelled(c), NEW h \in Hosts, NEW e \in {0, 1}, Connect(c, h, e)
  PROVE  Tunnelled(c)'
<1> DEFINE t == tunnel[c]
<1>0. /\ t.up \in Seq(Nat) /\ t.down \in Seq(Nat) /\ t.out \in Nat /\ t.srv \in Nat
      /\ t.copies \in SUBSET {"up", "down"} /\ t \in Tunnels
  BY TunnelFields
<1>1. /\ tunnel' = [tunnel EXCEPT ![c] = [t EXCEPT !.early = e, !.out = e]]
      /\ stage[c] = "idle" /\ UNCHANGED <<up, tool>>
  BY TunnelSteps DEF Shape, Connect
<1>2. stage'[c] \in {"handshake", "dial"}
  BY DEF Shape, Connect, Goto
<1>3. /\ tunnel'[c].up = t.up /\ tunnel'[c].down = t.down /\ tunnel'[c].out = e
      /\ tunnel'[c].srv = t.srv /\ tunnel'[c].copies = t.copies
  BY <1>0, <1>1 DEF Shape, Tunnels
<1> QED
  BY <1>0, <1>1, <1>2, <1>3 DEF Tunnelled

\* TunnelInv is inductive.
LEMMA TunnelStep ==
  ASSUME TypeOK, TunnelInv, [Next]_vars
  PROVE  TunnelInv'
<1>0. Shape
  BY Shapely
<1> DEFINE Steps(c) == \/ Agent(c) \/ BrokerMoves(c) \/ ToolSends(c) \/ ServerSends(c)
                       \/ ServerCloses(c) \/ \E how \in {"half", "closed"} : ToolEnds(c, how)
<1>1. ASSUME NEW c \in Conns, Steps(c) PROVE Tunnelled(c)'
  <2>0. Tunnelled(c)
    BY DEF TunnelInv
  <2>1. CASE \/ CopyUp(c) \/ CopyDown(c) \/ ToolSends(c) \/ ServerSends(c) \/ ServerCloses(c)
             \/ \E h \in Hosts, early \in {0, 1} : Connect(c, h, early)
    BY <1>0, <2>0, <2>1, CopyUpDelivers, CopyDownDelivers, SidesDeliver, ConnectDelivers
  <2>2. CASE Dial(c)
    <3>1. CASE ~Return(c)
      BY <1>0, <2>0, <2>2, <3>1, DialDelivers
    <3>2. CASE Return(c)
      <4>1. UNCHANGED tunnel
        BY <1>0, <2>2, <3>2 DEF Shape, Dial, Return, Goto
      <4> QED
        BY <1>0, <2>0, <2>2, <3>2, <4>1, ReturnDelivers DEF Dial
    <3> QED
      BY <3>1, <3>2
  <2>3. CASE TunnelReturns(c)
    BY <1>0, <2>0, <2>3, ReturnDelivers DEF TunnelReturns
  <2>4. CASE \E how \in {"half", "closed"} : ToolEnds(c, how)
    <3>1. /\ UNCHANGED <<up, stage, tunnel>> /\ tool'[c] # "open" /\ stage[c] # "closed"
          /\ tool'[c] = "closed" \/ tool[c] # "closed"
      BY <1>0, <2>4 DEF Shape, ToolEnds
    <3> QED
      BY <2>0, <3>1 DEF Tunnelled
  <2>5. ASSUME UNCHANGED <<up, tool, tunnel>>, stage[c] \notin {"tunnel", "closed"},
               stage'[c] \notin {"tunnel", "closed"}
        PROVE  Tunnelled(c)'
    BY <2>0, <2>5 DEF Tunnelled
  <2>6. CASE /\ UNCHANGED <<up, tool, tunnel>> /\ stage[c] \notin {"tunnel", "closed"}
             /\ Return(c) \/ \E s \in {"read", "serve", "relay", "write"} : Goto(c, s)
    <3>1. CASE \E s \in {"read", "serve", "relay", "write"} : Goto(c, s)
      BY <1>0, <2>5, <2>6, <3>1 DEF Shape, Goto
    <3> QED
      BY <1>0, <2>0, <2>6, <3>1, ReturnDelivers
  <2>7. CASE Deliver(c)
    BY <2>0, <2>7 DEF Deliver, Tunnelled, connVars
  <2> QED
    BY <1>1, <2>1, <2>2, <2>3, <2>4, <2>6, <2>7
    DEF Agent, Handler, PlainHTTP, ReadEnds, Handshake, ReadRequest, serveOne, RelayFails, Refuse,
        Write, BrokerMoves, BrokerAnswers
<1>2. ASSUME NEW c \in Conns, Steps(c) PROVE up' = up
  BY <1>2 DEF Agent, Handler, PlainHTTP, Connect, Dial, CopyUp, CopyDown, TunnelReturns, Handshake,
     ReadRequest, ReadEnds, serveOne, Deliver, RelayFails, Write, ToolEnds, ToolSends,
     ServerSends, ServerCloses, BrokerMoves, BrokerAnswers
<1>3. ASSUME NEW c \in Conns, Steps(c) PROVE TunnelInv'
  BY <1>0, <1>1, <1>2, <1>3, OthersKept, TunnelOthers
<1>4. CASE Exit
  <2>1. ASSUME NEW c \in Conns PROVE Tunnelled(c)'
    <3>1. /\ tunnel'[c].up = tunnel[c].up /\ tunnel'[c].down = tunnel[c].down
          /\ tunnel'[c].out = tunnel[c].out /\ tunnel'[c].srv = tunnel[c].srv
          /\ stage'[c] = "closed" /\ ~up'
      BY <1>0, <1>4, TunnelFields DEF Exit, Shape, Tunnels
    <3> QED
      BY <3>1 DEF Tunnelled, TunnelInv
  <2> QED
    BY <2>1 DEF TunnelInv
<1>5. CASE UNCHANGED <<up, stage, tool, tunnel>>
  BY <1>5 DEF TunnelInv, Tunnelled
<1> QED
  BY <1>3, <1>4, <1>5 DEF Next, Environment, BrokerSpends, BrokerDrops, connVars, vars

\* A tunnel delivers in order and from the first byte, and a tool that stays until
\* the server has closed has got everything.
THEOREM TunnelDeliversHolds == Spec => []TunnelDelivers
<1>1. Init => TunnelInv
  BY DEF Init, TunnelInv, Tunnelled, NoTunnel
<1>2. TypeOK /\ TunnelInv /\ [Next]_vars => TunnelInv'
  BY TunnelStep
<1>3. TunnelInv => TunnelDelivers
  BY DEF TunnelInv, Tunnelled, TunnelDelivers
<1> QED
  BY <1>1, <1>2, <1>3, TypeHolds, PTL DEF Spec


-----------------------------------------------------------------------------
\* Answers and requests.

\* The fields of what is written.
Own(n, code) == [to |-> n, code |-> code, answer |-> NoAnswer, full |-> TRUE]
Brokers(n, a) == [to |-> n, code |-> "broker", answer |-> a, full |-> ~BreaksOff(a)]

\* Appending an answer leaves the earlier ones where they were.
LEMMA OneMore ==
  ASSUME NEW seq \in Seq(Replies), NEW a \in Replies
  PROVE  /\ Len(Append(seq, a)) = Len(seq) + 1 /\ Append(seq, a)[Len(seq) + 1] = a
         /\ \A i \in 1..Len(seq) : Append(seq, a)[i] = seq[i]
         /\ Len(seq) \in Nat
OBVIOUS

\* An answer becomes the last one, or is lost because the tool has left.
LEMMA WrittenLast ==
  ASSUME Shape, NEW c \in Conns, NEW a \in Replies, Written(c, a)
  PROVE  LET n == Len(answers[c])
         IN /\ n \in Nat
            /\ \A i \in 1..n : answers'[c][i] = answers[c][i]
            /\ \/ tool[c] = "closed" /\ answers'[c] = answers[c]
               \/ tool[c] # "closed" /\ Len(answers'[c]) = n + 1 /\ answers'[c][n + 1] = a
<1>1. answers[c] \in Seq(Replies) /\ Len(answers[c]) \in Nat
  BY DEF Shape
<1>2. \/ tool[c] = "closed" /\ answers'[c] = answers[c]
      \/ tool[c] # "closed" /\ answers'[c] = Append(answers[c], a)
  BY DEF Shape, Written
<1> QED
  BY <1>1, <1>2, OneMore

\* A connection's step owes PairInv its own part only.
LEMMA PairOthers ==
  ASSUME PairInv, NEW c \in Conns, Others(c), Paired(c)'
  PROVE  PairInv'
BY DEF PairInv, Paired, Others

\* The connection is closed after an answer of the agent's own.
LEMMA RefusePairs ==
  ASSUME Shape, NEW c \in Conns, Paired(c), NEW code \in Codes, Refuse(c, code),
         stage[c] \in Serving, count' = count, tool' = tool
  PROVE  Paired(c)'
<1> DEFINE n == Len(answers[c])
<1>1. count[c] \in Nat /\ Own(count[c], code) \in Replies
  BY ReplyType, AgentAssumption DEF Shape, Own
<1>2. Written(c, Own(count[c], code))
  BY DEF Refuse, Own
<1>3. /\ n \in Nat /\ \A i \in 1..n : answers'[c][i] = answers[c][i]
      /\ \/ tool[c] = "closed" /\ answers'[c] = answers[c]
         \/ /\ tool[c] # "closed" /\ Len(answers'[c]) = n + 1
            /\ answers'[c][n + 1] = Own(count[c], code)
  BY <1>1, <1>2, WrittenLast
<1>4. Own(count[c], code).to = count[c]
  BY DEF Own
<1>5. stage'[c] = "closed"
  BY ReturnType DEF Refuse
<1>6. stage[c] # "closed"
  BY StageNames
<1>7. CASE tool[c] = "closed" /\ answers'[c] = answers[c]
  BY <1>1, <1>5, <1>6, <1>7, StageNames DEF Paired
<1>8. CASE tool[c] # "closed" /\ Len(answers'[c]) = n + 1 /\ answers'[c][n + 1] = Own(count[c], code)
  <2>1. count[c] = n + 1
    BY <1>6, <1>8 DEF Paired
  <2>2. \A i \in 1..n : /\ answers[c][i].to = i /\ answers[c][i].full
                        /\ answers[c][i].code = "broker"
    BY <1>6 DEF Paired
  <2>3. \A i \in 1..(n + 1) : i \in 1..n \/ i = n + 1
    BY <1>3
  <2> QED
    BY <1>3, <1>4, <1>5, <1>8, <2>1, <2>2, <2>3, StageNames DEF Paired
<1> QED
  BY <1>3, <1>7, <1>8

\* What a Write step does, apart from what it forgets.
LEMMA WriteFacts ==
  ASSUME Shape, NEW c \in Conns, Filled(c), Write(c)
  PROVE  LET n == Len(answers[c])
         IN /\ stage[c] = "write" /\ count[c] \in Nat /\ resp[c] \in Answers
            /\ count' = count /\ tool' = tool /\ phase' = phase /\ spent' = spent
            /\ stage'[c] = "closed" \/ (stage'[c] = "read" /\ ~BreaksOff(resp[c]))
            /\ n \in Nat /\ \A i \in 1..n : answers'[c][i] = answers[c][i]
            /\ \/ tool[c] = "closed" /\ answers'[c] = answers[c]
               \/ /\ tool[c] # "closed" /\ Len(answers'[c]) = n + 1
                  /\ answers'[c][n + 1] = Brokers(count[c], resp[c])
<1>1. stage[c] = "write" /\ count[c] \in Nat /\ resp[c] \in Answers
  BY AgentAssumption DEF Shape, Filled, Write
<1>2. Brokers(count[c], resp[c]) \in Replies
  BY <1>1, ReplyType DEF Brokers
<1>3. Written(c, Brokers(count[c], resp[c])) /\ count' = count /\ tool' = tool
      /\ phase' = phase /\ spent' = spent
  BY DEF Write, Brokers, brokerVars
<1>4. stage'[c] = "closed" \/ (stage'[c] = "read" /\ ~BreaksOff(resp[c]))
  BY DEF Shape, Write, Return, Goto
<1> QED
  BY <1>1, <1>2, <1>3, <1>4, WrittenLast

\* The broker's answer is written behind the answers to the earlier requests.
LEMMA WritePairs ==
  ASSUME Shape, NEW c \in Conns, Filled(c), Paired(c), Write(c)
  PROVE  Paired(c)'
<1> DEFINE n == Len(answers[c])
<1>1. /\ stage[c] = "write" /\ count[c] \in Nat /\ count' = count /\ tool' = tool
      /\ stage'[c] = "closed" \/ (stage'[c] = "read" /\ ~BreaksOff(resp[c]))
      /\ n \in Nat /\ \A i \in 1..n : answers'[c][i] = answers[c][i]
  BY WriteFacts
<1>2. \A i \in 1..n : /\ answers[c][i].to = i /\ answers[c][i].full
                      /\ answers[c][i].code = "broker"
  BY <1>1 DEF Paired
<1>3. stage[c] \in Serving /\ stage'[c] \notin Serving
  BY <1>1, StageNames
<1>4. CASE tool[c] = "closed" /\ answers'[c] = answers[c]
  <2>1. n < count[c]
    BY <1>3 DEF Paired
  <2> QED
    BY <1>1, <1>2, <1>3, <1>4, <2>1 DEF Paired
<1>5. CASE /\ tool[c] # "closed" /\ Len(answers'[c]) = n + 1
           /\ answers'[c][n + 1] = Brokers(count[c], resp[c])
  <2>1. count[c] = n + 1
    BY <1>1, <1>3, <1>5 DEF Paired
  <2>2. \A i \in 1..(n + 1) : i \in 1..n \/ i = n + 1
    BY <1>1
  <2>3. /\ answers'[c][n + 1].to = n + 1 /\ answers'[c][n + 1].code = "broker"
        /\ answers'[c][n + 1].full = ~BreaksOff(resp[c])
    BY <1>5, <2>1 DEF Brokers
  <2>4. stage'[c] # "closed" => answers'[c][n + 1].full
    BY <1>1, <2>3
  <2>5. \A i \in 1..(n + 1) :
          /\ answers'[c][i].to = i
          /\ i < n + 1 \/ stage'[c] # "closed" =>
               answers'[c][i].full /\ answers'[c][i].code = "broker"
    BY <1>1, <1>2, <2>2, <2>3, <2>4
  <2>6. stage'[c] \notin {"idle", "dial", "tunnel", "handshake"}
    BY <1>1
  <2> QED
    BY <1>1, <1>3, <1>5, <2>1, <2>5, <2>6 DEF Paired
<1> QED
  BY <1>4, <1>5, WriteFacts

\* PairInv is inductive.
LEMMA PairStep ==
  ASSUME TypeOK, PairInv, [Next]_vars
  PROVE  PairInv'
<1>0. Shape /\ \A d \in Conns : Filled(d)
  BY Shapely
<1> DEFINE Steps(c) == \/ Agent(c) \/ BrokerMoves(c) \/ ToolSends(c) \/ ServerSends(c)
                       \/ ServerCloses(c) \/ \E how \in {"half", "closed"} : ToolEnds(c, how)
<1>1. ASSUME NEW c \in Conns, Steps(c) PROVE Paired(c)'
  <2>0. Paired(c) /\ answers[c] \in Seq(Replies) /\ Len(answers[c]) \in Nat /\ count[c] \in Nat
    BY <1>0, AgentAssumption DEF PairInv, Shape
  <2>1. CASE Return(c) /\ UNCHANGED <<tool, count, answers>>
    <3>1. stage'[c] = "closed"
      BY <1>0, <2>1, ReturnType
    <3> QED
      BY <2>0, <2>1, <3>1, StageNames DEF Paired
  <2>2. CASE stage[c] \in Serving /\ count' = count /\ tool' = tool
             /\ \E code \in Codes : Refuse(c, code)
    BY <1>0, <2>0, <2>2, RefusePairs
  <2>3. ASSUME NEW s \in Stages, Goto(c, s), UNCHANGED <<tool, count, answers>>, s # "closed",
               stage[c] # "closed", stage[c] \in Serving <=> s \in Serving,
               stage[c] \in {"idle", "dial", "tunnel", "handshake"}
                 \/ s \notin {"idle", "dial", "tunnel", "handshake"}
        PROVE  Paired(c)'
    <3>1. stage'[c] = s
      BY <1>0, <2>3, GotoType
    <3> QED
      BY <2>0, <2>3, <3>1 DEF Paired
  <2>4. CASE \E q \in Requests : ReadRequest(c, q)
    <3>1. /\ stage[c] = "read" /\ stage'[c] = "serve" /\ count'[c] = count[c] + 1
          /\ UNCHANGED <<tool, answers>>
      BY <1>0, <2>4 DEF Shape, ReadRequest, Goto
    <3> QED
      BY <2>0, <3>1, StageNames DEF Paired
  <2>5. CASE Handshake(c) \/ Dial(c)
    BY <2>1, <2>3, <2>5, StageNames DEF Handshake, Dial
  <2>6. CASE \E h \in Hosts, early \in {0, 1} : Connect(c, h, early)
    BY <2>3, <2>6, StageNames DEF Connect
  <2>7. CASE BrokerMoves(c)
    BY <2>3, <2>7, StageNames DEF BrokerMoves, BrokerAnswers
  <2>8. CASE serveOne(c)
    BY <2>2, <2>3, <2>8, StageNames, CodeNames DEF serveOne
  <2>9. CASE \E how \in {"half", "closed"} : ToolEnds(c, how)
    <3>1. UNCHANGED <<stage, count, answers>> /\ tool[c] # "closed"
      BY <2>9 DEF ToolEnds
    <3> QED
      BY <2>0, <3>1 DEF Paired
  <2>10. CASE UNCHANGED connVars
    BY <2>0, <2>10 DEF Paired, connVars
  <2> QED
    BY <1>0, <1>1, <2>0, <2>1, <2>2, <2>4, <2>5, <2>6, <2>7, <2>8, <2>9, <2>10, OnlyTunnel,
       WritePairs, StageNames, CodeNames
    DEF Agent, Handler, PlainHTTP, TunnelReturns, ReadEnds, RelayFails, Deliver
<1>2. ASSUME NEW c \in Conns, Steps(c) PROVE PairInv'
  BY <1>0, <1>1, <1>2, OthersKept, PairOthers
<1>3. CASE Exit
  <2>1. ASSUME NEW c \in Conns PROVE Paired(c)'
    <3>1. stage'[c] = "closed" /\ UNCHANGED <<tool, count, answers>>
      BY <1>3 DEF Exit
    <3> QED
      BY <3>1, StageNames DEF PairInv, Paired
  <2> QED
    BY <2>1 DEF PairInv
<1>4. CASE UNCHANGED connVars
  BY <1>4 DEF PairInv, Paired, connVars
<1> QED
  BY <1>2, <1>3, <1>4 DEF Next, Environment, BrokerSpends, BrokerDrops, connVars, vars

\* The answers to a connection's requests are in step with them.
THEOREM PairInvHolds == Spec => []PairInv
<1>1. Init => PairInv
  BY StageNames DEF Init, PairInv, Paired
<1>2. TypeOK /\ PairInv /\ [Next]_vars => PairInv'
  BY PairStep
<1> QED
  BY <1>1, <1>2, TypeHolds, PTL DEF Spec

\* The i-th answer on a connection is to the i-th request, and nothing follows an
\* answer that broke off or one of the agent's own.
THEOREM AnswersAlignedHolds == Spec => []AnswersAligned
<1>1. PairInv => AnswersAligned
  BY DEF PairInv, Paired, AnswersAligned
<1> QED
  BY <1>1, PairInvHolds, PTL


-----------------------------------------------------------------------------
\* How answers end.

OwnCodes == {"read_error", "cap_exceeded", "no_ref", "unknown_ref", "broker_unreachable"}

\* All codes but the broker's are the agent's own.
LEMMA OwnCodeNames == OwnCodes = Codes \ {"broker"}
BY DEF OwnCodes, Codes

\* The agent's own answer is the last one of its connection.
LEMMA RefuseFacts ==
  ASSUME Shape, NEW c \in Conns, NEW code \in OwnCodes, Refuse(c, code)
  PROVE  LET n == Len(answers[c])
         IN /\ n \in Nat /\ \A i \in 1..n : answers'[c][i] = answers[c][i]
            /\ \/ tool[c] = "closed" /\ answers'[c] = answers[c]
               \/ /\ tool[c] # "closed" /\ Len(answers'[c]) = n + 1
                  /\ answers'[c][n + 1] = Own(count[c], code)
<1>1. count[c] \in Nat /\ Own(count[c], code) \in Replies
  BY ReplyType, OwnCodeNames, AgentAssumption DEF Shape, Own
<1>2. Written(c, Own(count[c], code))
  BY DEF Refuse, Own
<1> QED
  BY <1>1, <1>2, WrittenLast

\* What a step adds to the answers of a connection.
LEMMA AnswerSteps ==
  ASSUME Shape, [Next]_vars, NEW c \in Conns, answers'[c] # answers[c]
  PROVE  Write(c) \/ \E code \in OwnCodes : Refuse(c, code)
<1>1. ASSUME NEW d \in Conns,
             \/ Agent(d) \/ BrokerMoves(d) \/ ToolSends(d) \/ ServerSends(d) \/ ServerCloses(d)
             \/ \E how \in {"half", "closed"} : ToolEnds(d, how)
      PROVE  d = c
  BY <1>1, OthersKept DEF Others
<1>2. CASE Agent(c)
  <2>1. CASE serveOne(c) \/ RelayFails(c)
    BY <2>1 DEF serveOne, RelayFails, OwnCodes
  <2> QED
    BY <1>2, <2>1 DEF Agent, Handler, PlainHTTP, Connect, Dial, CopyUp, CopyDown, TunnelReturns,
       Handshake, ReadRequest, ReadEnds, Deliver, connVars
<1> QED
  BY <1>1, <1>2 DEF Next, Environment, Exit, BrokerMoves, BrokerAnswers, ToolEnds, ToolSends,
     ServerSends, ServerCloses, BrokerSpends, BrokerDrops, connVars, vars

-----------------------------------------------------------------------------
\* What answers say.

\* A request has its place among the relays, also one that was answered.
LEMMA Places ==
  ASSUME Shape, NEW c \in Conns, Paired(c)
  PROVE  /\ Len(answers[c]) \in Nat /\ count[c] \in Nat /\ MaxReqs \in Nat
         /\ \A i \in 1..MaxReqs : <<c, i>> \in Relays
         /\ 1..Len(answers[c]) \subseteq 1..MaxReqs
         /\ stage[c] \in Serving => count[c] \in 1..MaxReqs /\ count[c] \notin 1..Len(answers[c])
<1>1. count[c] \in 0..MaxReqs /\ answers[c] \in Seq(Replies) /\ MaxReqs \in Nat
  BY AgentAssumption DEF Shape
<1>2. Len(answers[c]) \in Nat /\ Len(answers[c]) <= count[c]
  BY <1>1 DEF Paired
<1>3. \A i \in 1..MaxReqs : <<c, i>> \in Relays
  BY DEF Relays
<1>4. stage[c] \in Serving => Len(answers[c]) < count[c]
  BY DEF Paired
<1> QED
  BY <1>1, <1>2, <1>3, <1>4

\* The ledger of request i of connection c.
Entry(c, i) ==
  /\ i > count[c] \/ (i = count[c] /\ stage[c] = "serve") => phase[<<c, i>>] = "none"
  /\ <<c, i>> \in spent => phase[<<c, i>>] \in {"spent", "closed"}
  /\ phase[<<c, i>>] = "spent" => <<c, i>> \in spent

Told(c, i, a) ==
  /\ Says(<<c, i>>, a.answer.kind)
  /\ a.code \notin {"broker", "broker_unreachable"} => phase[<<c, i>>] = "none"

\* Accounted, in the three parts that the steps below disturb.
LEMMA AccountedParts ==
  \A c : Accounted(c) <=>
    /\ \A i \in 1..MaxReqs : Entry(c, i)
    /\ stage[c] = "write" => phase[<<c, count[c]>>] = "closed" /\ Says(<<c, count[c]>>, resp[c].kind)
    /\ \A i \in 1..Len(answers[c]) : Told(c, i, answers[c][i])
BY DEF Accounted, Entry, Told, Current

\* A step that books nothing for the other connections owes AccountInv its own part only.
LEMMA AccountOthers ==
  ASSUME Shape, PairInv, AccountInv, NEW c \in Conns, Others(c), Accounted(c)',
         \A d \in Conns \ {c} : \A i \in 1..MaxReqs :
           /\ phase'[<<d, i>>] = phase[<<d, i>>]
           /\ <<d, i>> \in spent' <=> <<d, i>> \in spent
  PROVE  AccountInv'
<1> SUFFICES ASSUME NEW d \in Conns \ {c} PROVE Accounted(d)'
  BY DEF AccountInv
<1>1. Accounted(d) /\ Paired(d)
  BY DEF AccountInv, PairInv
<1>2. /\ stage'[d] = stage[d] /\ count'[d] = count[d] /\ resp'[d] = resp[d]
      /\ answers'[d] = answers[d]
  BY DEF Others
<1>3. \A i \in 1..MaxReqs : Entry(d, i)'
  BY <1>1, <1>2, AccountedParts DEF Entry
<1>4. stage'[d] = "write" =>
        phase'[<<d, count'[d]>>] = "closed" /\ Says(<<d, count[d]>>, resp[d].kind)'
  BY <1>1, <1>2, Places, StageNames, AccountedParts DEF Says
<1>5. ASSUME NEW i \in 1..Len(answers[d]) PROVE Told(d, i, answers[d][i])'
  <2>1. i \in 1..MaxReqs
    BY <1>1, Places
  <2> QED
    BY <1>1, <1>2, <2>1, AccountedParts DEF Told, Says
<1> QED
  BY <1>2, <1>3, <1>4, <1>5 DEF Accounted, Entry, Told, Says, Current

\* A step that leaves the broker's books alone and adds at most a true answer.
LEMMA AccountAgent ==
  ASSUME Shape, NEW c \in Conns, Paired(c), Accounted(c), phase' = phase, spent' = spent,
         NEW n \in Nat, n = Len(answers[c]), \A i \in 1..n : answers'[c][i] = answers[c][i],
         \/ answers'[c] = answers[c]
         \/ Len(answers'[c]) = n + 1 /\ Told(c, n + 1, answers'[c][n + 1]),
         count'[c] >= count[c], count'[c] \in Nat, stage'[c] # "write",
         stage'[c] = "serve" =>
           (stage[c] = "serve" /\ count'[c] = count[c]) \/ count'[c] > count[c]
  PROVE  Accounted(c)'
<1>1. \A i \in 1..MaxReqs : Entry(c, i)'
  <2> SUFFICES ASSUME NEW i \in 1..MaxReqs PROVE Entry(c, i)'
    OBVIOUS
  <2>1. Entry(c, i)
    BY AccountedParts
  <2>2. count[c] \in Nat /\ i \in Nat
    BY Places
  <2> QED
    BY <2>1, <2>2 DEF Entry
<1>2. ASSUME NEW i \in 1..Len(answers'[c]) PROVE Told(c, i, answers[c][i])'
  <2>1. CASE i \in 1..n
    <3>1. Told(c, i, answers[c][i]) /\ answers'[c][i] = answers[c][i]
      BY <2>1, AccountedParts
    <3> QED
      BY <3>1 DEF Told, Says
  <2>2. CASE Len(answers'[c]) = n + 1 /\ i = n + 1
    BY <2>2 DEF Told, Says
  <2> QED
    BY <1>2, <2>1, <2>2
<1> QED
  BY <1>1, <1>2 DEF Accounted, Entry, Told, Says, Current

\* The broker takes a request in, spends it, or closes it.
Booked(c, j, p) ==
  \/ /\ phase[<<c, j>>] = "none" /\ p = "open" /\ stage[c] = "relay" /\ j = count[c]
     /\ spent' = spent
  \/ phase[<<c, j>>] = "open" /\ p = "spent" /\ spent' = spent \cup {<<c, j>>}
  \/ phase[<<c, j>>] \in {"open", "spent"} /\ p = "closed" /\ spent' = spent

\* Booking one request leaves the ledger of all others as it was.
LEMMA BookedOne ==
  ASSUME Shape, NEW c \in Conns, NEW j \in 1..MaxReqs, NEW p, Booked(c, j, p),
         phase' = [phase EXCEPT ![<<c, j>>] = p]
  PROVE  /\ phase'[<<c, j>>] = p
         /\ \A d \in Conns : \A i \in 1..MaxReqs : d # c \/ i # j =>
              /\ phase'[<<d, i>>] = phase[<<d, i>>]
              /\ <<d, i>> \in spent' <=> <<d, i>> \in spent
<1>1. \A d \in Conns : \A i \in 1..MaxReqs : /\ <<d, i>> \in Relays
                                             /\ d # c \/ i # j => <<d, i>> # <<c, j>>
  BY DEF Relays
<1>2. spent' = spent \/ spent' = spent \cup {<<c, j>>}
  BY DEF Booked
<1> QED
  BY <1>1, <1>2 DEF Shape

\* What was told of the requests of a connection stays true: none that was refused,
\* or never relayed, is taken in or spent any more.
LEMMA ToldStays ==
  ASSUME Shape, NEW c \in Conns, Paired(c), Accounted(c), NEW j \in 1..MaxReqs, NEW p,
         Booked(c, j, p), phase' = [phase EXCEPT ![<<c, j>>] = p], answers' = answers
  PROVE  \A i \in 1..Len(answers[c]) : Told(c, i, answers[c][i])'
<1> SUFFICES ASSUME NEW i \in 1..Len(answers[c]) PROVE Told(c, i, answers[c][i])'
  OBVIOUS
<1>1. Told(c, i, answers[c][i]) /\ i \in 1..MaxReqs
  BY Places, AccountedParts
<1>2. CASE i # j
  BY <1>1, <1>2, BookedOne DEF Told, Says
<1>3. CASE i = j
  <2>1. phase[<<c, j>>] \in {"open", "spent"}
    <3>1. stage[c] = "relay" => count[c] \notin 1..Len(answers[c])
      BY Places, StageNames
    <3> QED
      BY <1>3, <3>1 DEF Booked
  <2>2. /\ answers[c][i].code \in {"broker", "broker_unreachable"}
        /\ answers[c][i].answer.kind # "refused"
    BY <1>1, <1>3, <2>1 DEF Told, Says
  <2>3. spent \subseteq spent'
    BY DEF Booked
  <2> QED
    BY <1>1, <1>3, <2>2, <2>3 DEF Told, Says
<1> QED
  BY <1>2, <1>3

\* What the broker does to a request in flight agrees with what was told of it so far.
LEMMA AccountBooked ==
  ASSUME Shape, NEW c \in Conns, Paired(c), Accounted(c), NEW j \in 1..MaxReqs, NEW p,
         Booked(c, j, p), phase' = [phase EXCEPT ![<<c, j>>] = p],
         UNCHANGED <<count, answers>>,
         \/ UNCHANGED <<stage, resp>>
         \/ /\ stage[c] = "relay" /\ stage'[c] = "write" /\ j = count[c] /\ p = "closed"
            /\ Truthful(<<c, j>>, resp'[c])
  PROVE  Accounted(c)'
<1>0. \A i \in 1..MaxReqs : Entry(c, i)
  BY AccountedParts
<1>1. ASSUME NEW i \in 1..MaxReqs PROVE Entry(c, i)'
  <2>1. CASE i # j
    <3>1. phase'[<<c, i>>] = phase[<<c, i>>] /\ (<<c, i>> \in spent' <=> <<c, i>> \in spent)
      BY <2>1, BookedOne
    <3>2. stage'[c] = "serve" => stage[c] = "serve"
      OBVIOUS
    <3>3. Entry(c, i)
      BY <1>0
    <3> QED
      BY <3>1, <3>2, <3>3 DEF Entry
  <2>2. CASE i = j
    <3>1. phase'[<<c, j>>] = p
      BY BookedOne
    <3>2. ~(i > count[c] \/ (i = count[c] /\ stage[c] = "serve"))
      <4>1. count[c] \in Nat
        BY Places
      <4> QED
        BY <1>0, <2>2, <4>1 DEF Entry, Booked
    <3>3. Entry(c, j)
      BY <1>0
    <3> QED
      BY <2>2, <3>1, <3>2, <3>3 DEF Entry, Booked
  <2> QED
    BY <2>1, <2>2
<1>2. stage'[c] = "write" =>
        phase'[<<c, count'[c]>>] = "closed" /\ Says(<<c, count[c]>>, resp[c].kind)'
  <2>1. CASE UNCHANGED <<stage, resp>>
    <3> SUFFICES ASSUME stage[c] = "write"
                 PROVE  phase'[<<c, count[c]>>] = "closed" /\ Says(<<c, count[c]>>, resp[c].kind)'
      BY <2>1
    <3>1. count[c] \in 1..MaxReqs
      BY Places, StageNames
    <3>2. phase[<<c, count[c]>>] = "closed" /\ Says(<<c, count[c]>>, resp[c].kind)
      BY AccountedParts
    <3>3. count[c] # j
      BY <3>2 DEF Booked
    <3>4. /\ phase'[<<c, count[c]>>] = phase[<<c, count[c]>>]
          /\ <<c, count[c]>> \in spent' <=> <<c, count[c]>> \in spent
      BY <3>1, <3>3, BookedOne
    <3> QED
      BY <2>1, <3>2, <3>4 DEF Says
  <2>2. CASE /\ stage[c] = "relay" /\ stage'[c] = "write" /\ j = count[c] /\ p = "closed"
             /\ Truthful(<<c, j>>, resp'[c])
    <3>1. phase'[<<c, j>>] = "closed" /\ spent' = spent
      <4>1. phase'[<<c, j>>] = p
        BY BookedOne
      <4>2. spent' = spent
        BY <2>2 DEF Booked
      <4> QED
        BY <2>2, <4>1, <4>2
    <3>2. Entry(c, j)
      BY <1>0
    <3> QED
      BY <2>2, <3>1, <3>2 DEF Says, Truthful, Entry
  <2> QED
    BY <2>1, <2>2
<1>3. \A i \in 1..Len(answers'[c]) : Told(c, i, answers[c][i])'
  BY ToldStays
<1> QED
  BY <1>1, <1>2, <1>3 DEF Accounted, Entry, Told, Says, Current

\* A refusal of the agent's own is true: nothing was relayed, or nobody can know.
LEMMA RefuseAccounts ==
  ASSUME Shape, NEW c \in Conns, Paired(c), Accounted(c), NEW code \in OwnCodes, Refuse(c, code),
         UNCHANGED <<count, tool, phase, spent>>, stage[c] \in Serving,
         stage[c] = "serve" \/ code = "broker_unreachable"
  PROVE  Accounted(c)'
<1> DEFINE n == Len(answers[c])
<1>1. /\ n \in Nat /\ \A i \in 1..n : answers'[c][i] = answers[c][i]
      /\ \/ tool[c] = "closed" /\ answers'[c] = answers[c]
         \/ /\ tool[c] # "closed" /\ Len(answers'[c]) = n + 1
            /\ answers'[c][n + 1] = Own(count[c], code)
  BY RefuseFacts
<1>2. stage'[c] = "closed"
  BY ReturnType DEF Refuse
<1>3. count[c] \in Nat /\ count[c] \in 1..MaxReqs
  BY Places
<1>4. Told(c, count[c], Own(count[c], code))
  <2>1. Own(count[c], code).answer.kind = "none" /\ Own(count[c], code).code = code
    BY DEF Own, NoAnswer
  <2>2. Entry(c, count[c])
    BY <1>3, AccountedParts
  <2> QED
    BY <2>1, <2>2 DEF Told, Says, Entry
<1>5. tool[c] # "closed" => count[c] = n + 1
  BY StageNames DEF Paired
<1>6. \/ answers'[c] = answers[c]
      \/ Len(answers'[c]) = n + 1 /\ Told(c, n + 1, answers'[c][n + 1])
  BY <1>1, <1>4, <1>5
<1>7. count'[c] >= count[c] /\ count'[c] \in Nat
  BY <1>3
<1> QED
  BY <1>1, <1>2, <1>6, <1>7, AccountAgent

\* What is written to the tool is what the broker said.
LEMMA WriteAccounts ==
  ASSUME Shape, NEW c \in Conns, Filled(c), Paired(c), Accounted(c), Write(c)
  PROVE  Accounted(c)'
<1> DEFINE n == Len(answers[c])
<1>1. /\ stage[c] = "write" /\ count[c] \in Nat /\ count' = count /\ phase' = phase
      /\ spent' = spent /\ stage'[c] \in {"closed", "read"}
      /\ n \in Nat /\ \A i \in 1..n : answers'[c][i] = answers[c][i]
  BY WriteFacts
<1>2. \/ tool[c] = "closed" /\ answers'[c] = answers[c]
      \/ /\ tool[c] # "closed" /\ Len(answers'[c]) = n + 1
         /\ answers'[c][n + 1] = Brokers(count[c], resp[c])
  BY WriteFacts
<1>3. Told(c, count[c], Brokers(count[c], resp[c]))
  <2>1. /\ Brokers(count[c], resp[c]).answer = resp[c]
        /\ Brokers(count[c], resp[c]).code = "broker"
    BY DEF Brokers
  <2>2. Says(<<c, count[c]>>, resp[c].kind)
    BY <1>1, AccountedParts
  <2> QED
    BY <2>1, <2>2 DEF Told
<1>4. tool[c] # "closed" => count[c] = n + 1
  BY <1>1, StageNames DEF Paired
<1>5. \/ answers'[c] = answers[c]
      \/ Len(answers'[c]) = n + 1 /\ Told(c, n + 1, answers'[c][n + 1])
  BY <1>2, <1>3, <1>4
<1>6. count'[c] >= count[c] /\ count'[c] \in Nat
  BY <1>1
<1> QED
  BY <1>1, <1>5, <1>6, AccountAgent

\* A step that answers nothing and does not reach the broker.
LEMMA QuietAccounts ==
  ASSUME Shape, NEW c \in Conns, Paired(c), Accounted(c),
         UNCHANGED <<answers, phase, spent>>, stage'[c] # "write",
         \/ count' = count /\ (stage'[c] = "serve" => stage[c] = "serve")
         \/ count'[c] = count[c] + 1
  PROVE  Accounted(c)'
<1>1. Len(answers[c]) \in Nat /\ count[c] \in Nat
  BY Places
<1>2. count'[c] >= count[c] /\ count'[c] \in Nat
  BY <1>1
<1>3. stage'[c] = "serve" => (stage[c] = "serve" /\ count'[c] = count[c]) \/ count'[c] > count[c]
  BY <1>1
<1> QED
  BY <1>1, <1>2, <1>3, AccountAgent

\* The broker's steps on one request.
LEMMA BrokerAccounts ==
  ASSUME Shape, NEW c \in Conns, Paired(c), Accounted(c), NEW j \in 1..MaxReqs,
         \/ (Deliver(c) \/ BrokerMoves(c)) /\ j = count[c]
         \/ BrokerSpends(<<c, j>>) \/ BrokerDrops(<<c, j>>)
  PROVE  /\ Accounted(c)'
         /\ \A d \in Conns \ {c} : \A i \in 1..MaxReqs :
              /\ phase'[<<d, i>>] = phase[<<d, i>>]
              /\ <<d, i>> \in spent' <=> <<d, i>> \in spent
<1>1. PICK p \in {"open", "spent", "closed"} :
        Booked(c, j, p) /\ phase' = [phase EXCEPT ![<<c, j>>] = p]
  BY DEF Booked, Deliver, BrokerMoves, BrokerAnswers, BrokerSpends, BrokerDrops, Current
<1>2. CASE UNCHANGED <<count, answers, stage, resp>>
  BY <1>1, <1>2, AccountBooked, BookedOne
<1>3. CASE BrokerMoves(c) /\ j = count[c]
  <2>1. PICK a \in Answers : BrokerAnswers(c, a)
    BY <1>3 DEF BrokerMoves
  <2>2. /\ stage[c] = "relay" /\ stage'[c] = "write" /\ Truthful(<<c, j>>, resp'[c])
        /\ UNCHANGED <<count, answers>> /\ phase' = [phase EXCEPT ![<<c, j>>] = "closed"]
        /\ Booked(c, j, "closed")
    BY <1>3, <2>1 DEF BrokerAnswers, Shape, Goto, Current, Truthful, Booked
  <2> QED
    BY <1>3, <2>2, AccountBooked, BookedOne
<1> QED
  BY <1>2, <1>3 DEF Deliver, BrokerSpends, BrokerDrops, connVars

\* AccountInv is inductive.
LEMMA AccountStep ==
  ASSUME TypeOK, PairInv, AccountInv, [Next]_vars
  PROVE  AccountInv'
<1>0. Shape /\ \A d \in Conns : Filled(d) /\ Paired(d) /\ Accounted(d)
  BY Shapely DEF PairInv, AccountInv
<1>1. ASSUME NEW c \in Conns, \/ Agent(c) \/ ToolSends(c) \/ ServerSends(c) \/ ServerCloses(c)
                              \/ \E how \in {"half", "closed"} : ToolEnds(c, how),
             ~Deliver(c)
      PROVE  Accounted(c)' /\ phase' = phase /\ spent' = spent
  <2>1. CASE serveOne(c)
    <3>1. CASE \E code \in OwnCodes : Refuse(c, code)
      BY <1>0, <2>1, <3>1, RefuseAccounts, StageNames DEF serveOne, brokerVars
    <3>2. CASE Goto(c, "relay") /\ UNCHANGED answers
      <4>1. stage'[c] = "relay"
        BY <1>0, <3>2 DEF Shape, Goto
      <4> QED
        BY <1>0, <2>1, <3>2, <4>1, QuietAccounts DEF serveOne, brokerVars
    <3> QED
      BY <2>1, <3>1, <3>2 DEF serveOne, OwnCodes
  <2>2. CASE RelayFails(c)
    BY <1>0, <2>2, RefuseAccounts, StageNames DEF RelayFails, brokerVars, OwnCodes
  <2>3. CASE Write(c)
    BY <1>0, <2>3, WriteAccounts, WriteFacts
  <2>4. CASE \E q \in Requests : ReadRequest(c, q)
    <3>1. /\ stage'[c] = "serve" /\ count'[c] = count[c] + 1
          /\ UNCHANGED <<answers, phase, spent>>
      BY <1>0, <2>4 DEF Shape, ReadRequest, Goto, brokerVars
    <3> QED
      BY <1>0, <3>1, QuietAccounts
  <2>5. CASE /\ UNCHANGED <<count, answers, phase, spent>>
             /\ \/ Return(c)
                \/ \E s \in {"handshake", "dial", "tunnel", "read"} : Goto(c, s)
    <3>1. stage'[c] \in {"closed", "handshake", "dial", "tunnel", "read"}
      BY <1>0, <2>5 DEF Shape, Return, Goto
    <3> QED
      BY <1>0, <2>5, <3>1, QuietAccounts
  <2>6. CASE UNCHANGED <<stage, count, resp, answers, phase, spent>>
    BY <1>0, <2>6 DEF Accounted, Says, Current
  <2> QED
    BY <1>0, <1>1, <2>1, <2>2, <2>3, <2>4, <2>5, <2>6, OnlyTunnel
    DEF Agent, Handler, PlainHTTP, Connect, Dial, TunnelReturns, Handshake, ReadEnds, ToolEnds,
        connVars, brokerVars
<1>2. ASSUME NEW c \in Conns, \/ Agent(c) \/ ToolSends(c) \/ ServerSends(c) \/ ServerCloses(c)
                              \/ \E how \in {"half", "closed"} : ToolEnds(c, how),
             ~Deliver(c)
      PROVE  AccountInv'
  BY <1>0, <1>1, <1>2, OthersKept, AccountOthers
<1>3. ASSUME NEW c \in Conns, Deliver(c) \/ BrokerMoves(c) PROVE AccountInv'
  <2>1. count[c] \in 1..MaxReqs
    BY <1>0, <1>3, Places, StageNames DEF Deliver, BrokerMoves, BrokerAnswers
  <2>2. Others(c)
    BY <1>0, <1>3, OthersKept DEF Agent
  <2> QED
    BY <1>0, <1>3, <2>1, <2>2, BrokerAccounts, AccountOthers
<1>4. ASSUME NEW r \in Relays, BrokerSpends(r) \/ BrokerDrops(r) PROVE AccountInv'
  <2>1. PICK c \in Conns, j \in 1..MaxReqs : r = <<c, j>>
    BY DEF Relays
  <2>2. Others(c)
    BY <1>4 DEF BrokerSpends, BrokerDrops, Others, connVars
  <2>3. BrokerSpends(<<c, j>>) \/ BrokerDrops(<<c, j>>)
    BY <1>4, <2>1
  <2> QED
    BY <1>0, <2>2, <2>3, BrokerAccounts, AccountOthers
<1>5. CASE Exit
  <2>1. ASSUME NEW c \in Conns PROVE Accounted(c)'
    <3>1. stage'[c] = "closed" /\ UNCHANGED <<count, answers, phase, spent>>
      BY <1>5 DEF Exit, brokerVars
    <3> QED
      BY <1>0, <3>1, QuietAccounts
  <2> QED
    BY <2>1 DEF AccountInv
<1>6. CASE UNCHANGED vars
  BY <1>6 DEF AccountInv, Accounted, Says, Current, vars
<1> QED
  BY <1>2, <1>3, <1>4, <1>5, <1>6 DEF Next, Environment

\* The broker's books and the answers written agree on every request.
THEOREM AccountInvHolds == Spec => []AccountInv
<1>1. Init => AccountInv
  BY AgentAssumption DEF Init, AccountInv, Accounted, Relays
<1>2. TypeOK /\ PairInv /\ AccountInv /\ [Next]_vars => AccountInv'
  BY AccountStep
<1> QED
  BY <1>1, <1>2, TypeHolds, PairInvHolds, PTL DEF Spec

\* What a tool is told of a request is true and stays true: an upstream's answer means
\* it was spent, a refusal that it was not and never will be.
THEOREM AnswerTruthfulHolds == Spec => []AnswerTruthful
<1>1. TypeOK /\ PairInv /\ AccountInv => AnswerTruthful
  <2> SUFFICES ASSUME TypeOK, PairInv, AccountInv, NEW c \in Conns, NEW i \in 1..Len(answers[c])
               PROVE  LET a == answers[c][i]
                          r == <<c, a.to>>
                      IN /\ a.answer.kind = "ok" => r \in spent
                         /\ a.answer.kind = "refused" => r \notin spent
                         /\ a.code \notin {"broker", "broker_unreachable"} => phase[r] = "none"
    BY DEF AnswerTruthful
  <2>1. answers[c][i].to = i
    BY DEF PairInv, Paired
  <2>2. Told(c, i, answers[c][i])
    BY AccountedParts DEF AccountInv
  <2> QED
    BY <2>1, <2>2 DEF Told, Says
<1> QED
  BY <1>1, TypeHolds, PairInvHolds, AccountInvHolds, PTL
=============================================================================
