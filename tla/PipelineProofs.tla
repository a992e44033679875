--------------------------- MODULE PipelineProofs ---------------------------
(***************************************************************************)
(* Proofs about Pipeline, for any handlers, requests, store files, egress  *)
(* lists and unwrappers.                                                   *)
(***************************************************************************)
EXTENDS Pipeline, FiniteSetTheorems, TLAPS

\* The variables the argument reads are functions of the handlers.
Shape ==
  /\ pc \in [Handlers -> Stages]
  /\ req \in [Handlers -> Requests \cup {NoRequest}]
  /\ DOMAIN secret = Handlers /\ DOMAIN status = Handlers
  /\ DOMAIN reply = Handlers /\ DOMAIN audited = Handlers
  /\ proc \in {"up", "draining", "down"}

\* Shape is inductive.
LEMMA ShapeStep == Shape /\ [Next]_vars => Shape'
<1> SUFFICES ASSUME Shape, [Next]_vars PROVE Shape'
  OBVIOUS
<1> USE DEF Shape, Stages, Goto, Deny, procVars
<1>1. ASSUME NEW h \in Handlers, NEW q \in Requests, Accept(h, q) PROVE Shape'
  BY <1>1 DEF Accept
<1>2. ASSUME NEW h \in Handlers, Decode(h) PROVE Shape'
  BY <1>2 DEF Decode
<1>3. ASSUME NEW h \in Handlers, Authorize(h) PROVE Shape'
  BY <1>3 DEF Authorize
<1>4. ASSUME NEW h \in Handlers, Gate(h) PROVE Shape'
  BY <1>4 DEF Gate
<1>5. ASSUME NEW h \in Handlers, Unwrap(h) PROVE Shape'
  BY <1>5 DEF Unwrap
<1>6. ASSUME NEW h \in Handlers, Build(h) PROVE Shape'
  BY <1>6 DEF Build
<1>7. ASSUME NEW h \in Handlers, Send(h) PROVE Shape'
  BY <1>7 DEF Send
<1>8. ASSUME NEW h \in Handlers, NEW host \in RedirectHosts, Redirect(h, host) PROVE Shape'
  BY <1>8 DEF Redirect
<1>9. ASSUME NEW h \in Handlers, UpstreamFails(h) PROVE Shape'
  BY <1>9 DEF UpstreamFails
<1>10. ASSUME NEW h \in Handlers, NEW code \in UpstreamCodes, UpstreamAnswers(h, code) PROVE Shape'
  BY <1>10 DEF UpstreamAnswers
<1>11. ASSUME NEW h \in Handlers, Relay(h) \/ Respond(h) \/ Audit(h) PROVE Shape'
  BY <1>11 DEF Relay, Respond, Audit
<1>12. CASE Tick \/ Signal \/ Exit \/ Restart
  BY <1>12 DEF Tick, Signal, Exit, Restart, handlerVars
<1>13. CASE DeadlineExit
  BY <1>13 DEF DeadlineExit
<1>14. CASE UNCHANGED vars
  BY <1>14 DEF vars
<1> QED
  BY <1>1, <1>2, <1>3, <1>4, <1>5, <1>6, <1>7, <1>8, <1>9, <1>10, <1>11, <1>12, <1>13, <1>14
  DEF Next, Handle, Proceed, Do, Process

\* Stages, requests and the handlers' locals keep their types (pipeline.go: Handle).
THEOREM ShapeHolds == Spec => []Shape
<1>1. Init => Shape
  BY DEF Init, Shape, Stages
<1> QED
  BY <1>1, ShapeStep, PTL DEF Spec

-----------------------------------------------------------------------------
\* A handler that a step does not touch keeps its invariant.
LEMMA UntouchedHandler ==
  ASSUME NEW k \in Handlers, HandlerInv(k), pc'[k] = pc[k], req'[k] = req[k],
         secret'[k] = secret[k], store' = store, calls \subseteq calls'
  PROVE  HandlerInv(k)'
<1>1. /\ ReqId(k)' = ReqId(k) /\ ReqHost(k)' = ReqHost(k) /\ ReqPolicy(k)' = ReqPolicy(k)
      /\ req'[k].method = req[k].method
  BY DEF ReqId, ReqHost, ReqPolicy
<1>2. Permitted(ReqPolicy(k)', req'[k].method, ReqHost(k)')
        <=> Permitted(ReqPolicy(k), req[k].method, ReqHost(k))
  BY <1>1
<1>3. egressAllowed(ReqHost(k)') <=> egressAllowed(ReqHost(k))
  BY <1>1
<1> QED
  BY <1>1, <1>2, <1>3 DEF HandlerInv

\* What a stage of one handler owes the invariant: its own handler's part, and
\* that every first hop it adds is spent as sealed.
LEMMA StageKeepsSpendInv ==
  ASSUME SpendInv, NEW h \in Handlers, pc[h] \notin Finished,
         proc' = proc, store' = store,
         \A k \in Handlers \ {h} :
           pc'[k] = pc[k] /\ req'[k] = req[k] /\ secret'[k] = secret[k],
         HandlerInv(h)', calls \subseteq calls', IsFiniteSet(calls'),
         \A c \in calls' \ calls : c.hop = 1 => SpentAsSealed(c)
  PROVE  SpendInv'
<1>1. proc # "down"
  BY DEF SpendInv
<1>2. \A k \in Handlers : HandlerInv(k)'
  <2> SUFFICES ASSUME NEW k \in Handlers, k # h PROVE HandlerInv(k)'
    OBVIOUS
  <2> QED
    BY UntouchedHandler DEF SpendInv
<1>3. \A c \in calls' : c.hop = 1 => SpentAsSealed(c)
  BY DEF SpendInv, CredentialBound
<1>4. CredentialBound'
  BY <1>3 DEF CredentialBound, SpentAsSealed
<1> QED
  BY <1>1, <1>2, <1>4 DEF SpendInv

\* A handler that leaves the pipeline's spending stages owes nothing.
LEMMA StageOut ==
  ASSUME SpendInv, Shape, NEW h \in Handlers, pc[h] \notin Finished,
         proc' = proc, store' = store, calls' = calls,
         \A k \in Handlers \ {h} :
           pc'[k] = pc[k] /\ req'[k] = req[k] /\ secret'[k] = secret[k],
         pc'[h] \notin Authorized \cup {"wait"}
  PROVE  SpendInv'
<1>1. HandlerInv(h)'
  BY DEF HandlerInv, Authorized, Gated, Holding
<1> QED
  BY <1>1, StageKeepsSpendInv DEF SpendInv

\* A handler that has sent its request counts at least that hop.
LEMMA LaterHop ==
  ASSUME SpendInv, NEW h \in Handlers, pc[h] = "wait"
  PROVE  Hops(h) \in Nat /\ Hops(h) # 0 /\ Hops(h) + 1 # 1
<1> DEFINE mine == {c \in calls : c.h = h}
<1>1. IsFiniteSet(mine)
  BY FS_Subset DEF SpendInv
<1>2. mine # {}
  BY DEF SpendInv, HandlerInv
<1>3. Hops(h) \in Nat /\ Hops(h) # 0
  BY <1>1, <1>2, FS_CardinalityType, FS_EmptySet DEF Hops
<1> QED
  BY <1>3

\* SpendInv is inductive.
LEMMA SpendStep == Shape /\ SpendInv /\ [Next]_vars => SpendInv'
<1> SUFFICES ASSUME Shape, SpendInv, [Next]_vars PROVE SpendInv'
  OBVIOUS
<1> USE DEF Goto, Deny, procVars
<1>1. ASSUME NEW h \in Handlers, NEW q \in Requests, Accept(h, q) PROVE SpendInv'
  <2>1. proc' # "down" /\ calls' = calls
    BY <1>1 DEF Accept
  <2>2. HandlerInv(h)'
    BY <1>1 DEF Accept, HandlerInv, Authorized, Gated, Holding, Shape
  <2>3. ASSUME NEW k \in Handlers, k # h PROVE HandlerInv(k)'
    BY <1>1, <2>3, UntouchedHandler DEF Accept, Shape, SpendInv
  <2>4. CredentialBound'
    BY <2>1 DEF SpendInv, CredentialBound, SpentAsSealed
  <2> QED
    BY <2>1, <2>2, <2>3, <2>4 DEF SpendInv
<1>2. ASSUME NEW h \in Handlers, Decode(h) PROVE SpendInv'
  <2>1. pc'[h] \in {"deny", "authorize"} /\ pc[h] = "decode"
    BY <1>2 DEF Decode, Shape
  <2>2. \A k \in Handlers \ {h} :
          pc'[k] = pc[k] /\ req'[k] = req[k] /\ secret'[k] = secret[k]
    BY <1>2 DEF Decode, Shape
  <2> QED
    BY <1>2, <2>1, <2>2, StageOut DEF Decode, Finished, Returned, Authorized
<1>3. ASSUME NEW h \in Handlers, Authorize(h) PROVE SpendInv'
  <2>1. CASE pc'[h] = "deny"
    BY <1>3, <2>1, StageOut DEF Authorize, Shape, Finished, Returned, Authorized
  <2>2. CASE pc'[h] = "gate"
    <3>1. Permitted(ReqPolicy(h), req[h].method, ReqHost(h))
      BY <1>3, <2>2 DEF Authorize, Shape
    <3>2. HandlerInv(h)'
      BY <1>3, <2>2, <3>1 DEF Authorize, HandlerInv, Authorized, Gated, Holding,
                              ReqPolicy, ReqId, ReqHost
    <3> QED
      BY <1>3, <3>2, StageKeepsSpendInv DEF Authorize, Shape, Finished, Returned, SpendInv
  <2> QED
    BY <1>3, <2>1, <2>2 DEF Authorize, Shape
<1>4. ASSUME NEW h \in Handlers, Gate(h) PROVE SpendInv'
  <2>1. CASE pc'[h] = "deny"
    BY <1>4, <2>1, StageOut DEF Gate, Shape, Finished, Returned, Authorized
  <2>2. CASE pc'[h] = "unwrap"
    <3>1. egressAllowed(ReqHost(h)) /\ Permitted(ReqPolicy(h), req[h].method, ReqHost(h))
      BY <1>4, <2>2 DEF Gate, Shape, SpendInv, HandlerInv, Authorized
    <3>2. HandlerInv(h)'
      BY <1>4, <2>2, <3>1 DEF Gate, HandlerInv, Authorized, Gated, Holding,
                              ReqPolicy, ReqId, ReqHost
    <3> QED
      BY <1>4, <3>2, StageKeepsSpendInv DEF Gate, Shape, Finished, Returned, SpendInv
  <2> QED
    BY <1>4, <2>1, <2>2 DEF Gate, Shape
<1>5. ASSUME NEW h \in Handlers, Unwrap(h) PROVE SpendInv'
  <2>1. CASE pc'[h] = "deny"
    BY <1>5, <2>1, StageOut DEF Unwrap, Shape, Finished, Returned, Authorized
  <2>2. CASE pc'[h] = "build"
    <3> DEFINE rec == store[ReqId(h)]
    <3>1. secret'[h] = EnvelopeAAD(ReqId(h), rec.env, rec.policy)
      BY <1>5, <2>2 DEF Unwrap, Opens, Shape
    <3>2. secret'[h].id = ReqId(h) /\ secret'[h].policy = ReqPolicy(h)
      BY <3>1 DEF EnvelopeAAD, ReqPolicy
    <3>3. egressAllowed(ReqHost(h)) /\ Permitted(ReqPolicy(h), req[h].method, ReqHost(h))
      BY <1>5 DEF Unwrap, SpendInv, HandlerInv, Authorized, Gated
    <3>4. HandlerInv(h)'
      BY <1>5, <2>2, <3>2, <3>3 DEF Unwrap, HandlerInv, Authorized, Gated, Holding,
                                    ReqPolicy, ReqId, ReqHost
    <3> QED
      BY <1>5, <3>4, StageKeepsSpendInv DEF Unwrap, Shape, Finished, Returned, SpendInv
  <2> QED
    BY <1>5, <2>1, <2>2 DEF Unwrap, Shape
<1>6. ASSUME NEW h \in Handlers, Build(h) PROVE SpendInv'
  <2>1. CASE pc'[h] = "deny"
    BY <1>6, <2>1, StageOut DEF Build, Shape, Finished, Returned, Authorized
  <2>2. CASE pc'[h] = "send"
    <3>1. /\ egressAllowed(ReqHost(h)) /\ Permitted(ReqPolicy(h), req[h].method, ReqHost(h))
          /\ secret[h].id = ReqId(h) /\ secret[h].policy = ReqPolicy(h)
      BY <1>6 DEF Build, SpendInv, HandlerInv, Authorized, Gated, Holding
    <3>2. HandlerInv(h)'
      BY <1>6, <2>2, <3>1 DEF Build, HandlerInv, Authorized, Gated, Holding,
                              ReqPolicy, ReqId, ReqHost
    <3> QED
      BY <1>6, <3>2, StageKeepsSpendInv DEF Build, Shape, Finished, Returned, SpendInv
  <2> QED
    BY <1>6, <2>1, <2>2 DEF Build, Shape
<1>7. ASSUME NEW h \in Handlers, Send(h) PROVE SpendInv'
  <2>1. CASE Deny(h, 502) /\ UNCHANGED calls
    BY <1>7, <2>1, StageOut DEF Send, Shape, Finished, Returned, Authorized
  <2> DEFINE call == [h |-> h, id |-> ReqId(h), hop |-> 1, seal |-> secret[h],
                      host |-> ReqHost(h), method |-> req[h].method]
  <2>2. CASE calls' = calls \cup {call} /\ Goto(h, "wait")
    <3>1. SpentAsSealed(call)
      BY <1>7 DEF Send, SpendInv, HandlerInv, Authorized, Gated, Holding, SpentAsSealed
    <3>2. HandlerInv(h)'
      <4>1. pc'[h] = "wait" /\ call \in calls' /\ call.h = h
        BY <2>2 DEF Shape
      <4> HIDE DEF call
      <4> QED
        BY <4>1 DEF HandlerInv, Authorized, Gated, Holding
    <3>3. IsFiniteSet(calls')
      BY <2>2, FS_AddElement DEF SpendInv
    <3> HIDE DEF call
    <3> QED
      BY <1>7, <2>2, <3>1, <3>2, <3>3, StageKeepsSpendInv DEF Send, Shape, Finished, Returned
  <2> QED
    BY <1>7, <2>1, <2>2 DEF Send
<1>8. ASSUME NEW h \in Handlers, NEW host \in RedirectHosts, Redirect(h, host) PROVE SpendInv'
  <2> DEFINE call == [h |-> h, id |-> ReqId(h), hop |-> Hops(h) + 1, seal |-> secret[h],
                      host |-> host, method |-> req[h].method]
  <2>3. call.hop # 1
    BY <1>8, LaterHop DEF Redirect
  <2>4. calls' = calls \cup {call}
    BY <1>8 DEF Redirect
  <2>5. IsFiniteSet(calls')
    BY <2>4, FS_AddElement DEF SpendInv
  <2> HIDE DEF call
  <2>6. HandlerInv(h)'
    BY <1>8, <2>4, UntouchedHandler DEF Redirect, SpendInv
  <2> QED
    BY <1>8, <2>3, <2>4, <2>5, <2>6, StageKeepsSpendInv DEF Redirect, Finished, Returned
<1>9. ASSUME NEW h \in Handlers, UpstreamFails(h) PROVE SpendInv'
  BY <1>9, StageOut DEF UpstreamFails, Shape, Finished, Returned, Authorized
<1>10. ASSUME NEW h \in Handlers, NEW code \in UpstreamCodes, UpstreamAnswers(h, code)
       PROVE  SpendInv'
  BY <1>10, StageOut DEF UpstreamAnswers, Shape, Finished, Returned, Authorized
<1>11. ASSUME NEW h \in Handlers, Relay(h) PROVE SpendInv'
  BY <1>11, StageOut DEF Relay, Shape, Finished, Returned, Authorized
<1>12. ASSUME NEW h \in Handlers, Respond(h) PROVE SpendInv'
  BY <1>12, StageOut DEF Respond, Shape, Finished, Returned, Authorized
<1>13. ASSUME NEW h \in Handlers, Audit(h) PROVE SpendInv'
  BY <1>13, StageOut DEF Audit, Shape, Finished, Returned, Authorized
<1>14. ASSUME UNCHANGED <<pc, req, secret, store, calls>>,
              proc' = "down" => \A h \in Handlers : pc[h] \in Finished
       PROVE  SpendInv'
  <2>1. \A k \in Handlers : HandlerInv(k)'
    BY <1>14, UntouchedHandler DEF SpendInv
  <2>2. CredentialBound'
    BY <1>14 DEF SpendInv, CredentialBound, SpentAsSealed
  <2> QED
    BY <1>14, <2>1, <2>2 DEF SpendInv
<1>15. CASE Tick \/ Signal \/ Exit \/ UNCHANGED vars
  BY <1>14, <1>15 DEF Tick, Signal, Exit, vars, handlerVars, SpendInv
<1>16. CASE DeadlineExit
  <2>1. \A h \in Handlers : pc'[h] \in Finished
    BY <1>16 DEF DeadlineExit, Finished, Returned
  <2>2. \A h \in Handlers : HandlerInv(h)'
    BY <2>1 DEF HandlerInv, Authorized, Gated, Holding, Finished, Returned
  <2>3. CredentialBound' /\ IsFiniteSet(calls')
    BY <1>16 DEF DeadlineExit, SpendInv, CredentialBound, SpentAsSealed
  <2> QED
    BY <2>1, <2>2, <2>3 DEF SpendInv
<1>17. CASE Restart
  <2>1. \A h \in Handlers : pc'[h] \in Finished
    BY <1>17 DEF Restart, handlerVars, SpendInv
  <2>2. \A h \in Handlers : HandlerInv(h)'
    BY <2>1 DEF HandlerInv, Authorized, Gated, Holding, Finished, Returned
  <2>3. CredentialBound' /\ IsFiniteSet(calls')
    BY <1>17 DEF Restart, handlerVars, SpendInv, CredentialBound, SpentAsSealed
  <2> QED
    BY <2>1, <2>2, <2>3 DEF SpendInv
<1> QED
  BY <1>1, <1>2, <1>3, <1>4, <1>5, <1>6, <1>7, <1>8, <1>9, <1>10, <1>11, <1>12, <1>13, <1>15,
     <1>16, <1>17 DEF Next, Handle, Proceed, Do, Process

\* The inductive invariant behind CredentialBound: a handler past a check still satisfies it,
\* and none is in the pipeline while the process is down (pipeline.go: steps 4, 5 and 7).
THEOREM SpendInvHolds == Spec => []SpendInv
<1>1. Init => SpendInv
  <2> SUFFICES ASSUME Init PROVE SpendInv
    OBVIOUS
  <2>1. \A h \in Handlers : HandlerInv(h)
    BY DEF Init, HandlerInv, Authorized, Gated, Holding
  <2>2. IsFiniteSet(calls) /\ CredentialBound /\ proc # "down"
    BY FS_EmptySet DEF Init, CredentialBound
  <2> QED
    BY <2>1, <2>2 DEF SpendInv
<1> QED
  BY <1>1, SpendStep, ShapeHolds, PTL DEF Spec

\* Every credential the pipeline spends is spent as the policy it was sealed with
\* allows, whatever handlers run concurrently and whatever is done to the store
\* file between two starts (pipeline.go: Handle; store.go: EnvelopeAAD).
THEOREM CredentialBoundHolds == Spec => []CredentialBound
<1>1. SpendInv => CredentialBound
  BY DEF SpendInv
<1> QED
  BY <1>1, SpendInvHolds, PTL

-----------------------------------------------------------------------------
\* A handler that a step does not touch keeps its story.
LEMMA UntouchedStory ==
  ASSUME NEW k \in Handlers, Story(k), pc'[k] = pc[k], status'[k] = status[k],
         reply'[k] = reply[k], audited'[k] = audited[k],
         k \in unwraps' <=> k \in unwraps, Unspent(k)' <=> Unspent(k)
  PROVE  Story(k)'
<1>1. \A code : Truthful(k, code)' <=> Truthful(k, code)
  BY DEF Truthful
<1> QED
  BY <1>1 DEF Story

\* A stage of handler h, which adds no calls or unwraps but its own.
StageOf(h) ==
  /\ \A k \in Handlers \ {h} :
       /\ pc'[k] = pc[k] /\ status'[k] = status[k]
       /\ reply'[k] = reply[k] /\ audited'[k] = audited[k]
  /\ unwraps \subseteq unwraps' /\ unwraps' \subseteq unwraps \cup {h}
  /\ calls \subseteq calls' /\ \A c \in calls' \ calls : c.h = h

\* A stage owes StoryInv its own handler's part only.
LEMMA StageKeepsStories ==
  ASSUME StoryInv, NEW h \in Handlers, StageOf(h), Story(h)'
  PROVE  StoryInv'
<1>1. ASSUME NEW k \in Handlers, k # h PROVE Story(k)'
  <2>1. Unspent(k)' <=> Unspent(k)
    BY <1>1 DEF StageOf, Unspent
  <2> QED
    BY <1>1, <2>1, UntouchedStory DEF StageOf, StoryInv
<1> QED
  BY <1>1 DEF StoryInv

\* A refusal: nothing but the stage and the status changes.
LEMMA DenyTellsStory ==
  ASSUME Shape, StoryInv, NEW h \in Handlers, NEW code, Deny(h, code), Truthful(h, code),
         pc[h] \notin {"allowed", "denied"} \cup Closed,
         UNCHANGED <<reply, audited, unwraps, calls>>
  PROVE  StoryInv'
<1>1. pc'[h] = "deny" /\ status'[h] = code
  BY DEF Deny, Goto, Shape
<1>2. Truthful(h, code)'
  BY DEF Truthful, Unspent
<1>3. reply'[h].from = "nobody" /\ audited'[h] = <<>>
  BY DEF StoryInv, Story, Closed, Returned
<1>4. Story(h)'
  BY <1>1, <1>2, <1>3 DEF Story, Early, Holding, Sent, Closed, Returned
<1>5. StageOf(h)
  BY DEF StageOf, Deny, Goto, Shape
<1> QED
  BY <1>4, <1>5, StageKeepsStories

\* A stage that goes on, before anything is sent.
LEMMA PassTellsStory ==
  ASSUME Shape, StoryInv, NEW h \in Handlers, NEW stage, Goto(h, stage),
         pc[h] \in Early \cup Holding, stage \in Early \cup Holding,
         stage \in Early => h \notin unwraps',
         unwraps \subseteq unwraps', unwraps' \subseteq unwraps \cup {h},
         UNCHANGED <<status, reply, audited, calls>>
  PROVE  StoryInv'
<1>1. pc'[h] = stage
  BY DEF Goto, Shape
<1>2. reply'[h].from = "nobody" /\ audited'[h] = <<>> /\ Unspent(h)'
  BY DEF StoryInv, Story, Closed, Returned, Early, Holding, Unspent
<1>3. Story(h)'
  BY <1>1, <1>2 DEF Story, Early, Holding, Sent, Closed, Returned
<1>4. StageOf(h)
  BY DEF StageOf, Goto, Shape
<1> QED
  BY <1>3, <1>4, StageKeepsStories

\* StoryInv is inductive.
LEMMA StoryStep == Shape /\ StoryInv /\ [Next]_vars => StoryInv'
<1> SUFFICES ASSUME Shape, StoryInv, [Next]_vars PROVE StoryInv'
  OBVIOUS
<1> USE DEF procVars
<1>0. ASSUME NEW h \in Handlers PROVE Story(h)
  BY <1>0 DEF StoryInv
<1>1. ASSUME NEW h \in Handlers, NEW q \in Requests, Accept(h, q) PROVE StoryInv'
  <2>1. h \notin unwraps
    BY <1>0, <1>1 DEF Accept, Story, Early
  <2> QED
    BY <1>1, <2>1, PassTellsStory DEF Accept, Early
<1>2. ASSUME NEW h \in Handlers, pc[h] \in Early, NEW code, Deny(h, code),
             UNCHANGED <<reply, audited, unwraps, calls>>
      PROVE  StoryInv'
  <2>1. Truthful(h, code)
    BY <1>0, <1>2 DEF Story, Truthful
  <2> QED
    BY <1>2, <2>1, DenyTellsStory DEF Early, Closed, Returned
<1>3. ASSUME NEW h \in Handlers, pc[h] \in Early, NEW stage \in Early, Goto(h, stage),
             UNCHANGED <<status, reply, audited, unwraps, calls>>
      PROVE  StoryInv'
  <2>1. h \notin unwraps
    BY <1>0, <1>3 DEF Story
  <2> QED
    BY <1>3, <2>1, PassTellsStory
<1>4. ASSUME NEW h \in Handlers, Decode(h) PROVE StoryInv'
  BY <1>2, <1>3, <1>4 DEF Decode, Early
<1>5. ASSUME NEW h \in Handlers, Authorize(h) PROVE StoryInv'
  <2>1. /\ pc[h] \in Early /\ UNCHANGED <<reply, audited, unwraps, calls>>
        /\ (\E code : Deny(h, code)) \/ (Goto(h, "gate") /\ UNCHANGED status)
    BY <1>5 DEF Authorize, Early
  <2> QED
    BY <1>2, <1>3, <2>1 DEF Early
<1>6. ASSUME NEW h \in Handlers, Gate(h) PROVE StoryInv'
  BY <1>2, <1>3, <1>6 DEF Gate, Early
<1>7. ASSUME NEW h \in Handlers, Unwrap(h) PROVE StoryInv'
  <2>1. CASE Deny(h, 503) /\ UNCHANGED <<secret, unwraps>>
    BY <1>2, <1>7, <2>1 DEF Unwrap, Early
  <2>2. CASE unwraps' = unwraps \cup {h} /\ Goto(h, "build") /\ UNCHANGED status
    BY <1>7, <2>2, PassTellsStory DEF Unwrap, Early, Holding
  <2> QED
    BY <1>7, <2>1, <2>2 DEF Unwrap
<1>8. ASSUME NEW h \in Handlers, Build(h) PROVE StoryInv'
  <2>1. Unspent(h)
    BY <1>0, <1>8 DEF Build, Story, Holding
  <2>2. CASE Deny(h, 400) \/ Deny(h, 501)
    <3>1. Truthful(h, 400) /\ Truthful(h, 501)
      BY <2>1 DEF Truthful
    <3> QED
      BY <1>8, <2>2, <3>1, DenyTellsStory DEF Build, Closed, Returned
  <2>3. CASE Goto(h, "send") /\ UNCHANGED status
    BY <1>8, <2>3, PassTellsStory DEF Build, Early, Holding
  <2> QED
    BY <1>8, <2>2, <2>3 DEF Build
<1>9. ASSUME NEW h \in Handlers, pc[h] \in {"send", "wait"}, NEW stage \in {"wait", "relay"},
             pc' = [pc EXCEPT ![h] = stage], ~Unspent(h)',
             \A k \in Handlers \ {h} : status'[k] = status[k],
             UNCHANGED <<reply, audited, unwraps>>,
             calls \subseteq calls', \A c \in calls' \ calls : c.h = h
      PROVE  StoryInv'
  <2>1. pc'[h] = stage
    BY <1>9 DEF Shape
  <2>2. reply'[h].from = "nobody" /\ audited'[h] = <<>>
    BY <1>0, <1>9 DEF Story, Closed, Returned
  <2>3. Story(h)'
    BY <1>9, <2>1, <2>2 DEF Story, Early, Holding, Sent, Closed, Returned
  <2>4. StageOf(h)
    BY <1>9 DEF StageOf, Shape
  <2> QED
    BY <2>3, <2>4, StageKeepsStories
<1>10. ASSUME NEW h \in Handlers, pc[h] \in {"send", "wait"}, Deny(h, 502),
              UNCHANGED <<reply, audited, unwraps, calls>>
       PROVE  StoryInv'
  <2>1. Truthful(h, 502)
    BY DEF Truthful
  <2> QED
    BY <1>10, <2>1, DenyTellsStory DEF Closed, Returned
<1>11. ASSUME NEW h \in Handlers, Send(h) PROVE StoryInv'
  <2>1. CASE Deny(h, 502) /\ UNCHANGED calls
    BY <1>10, <1>11, <2>1 DEF Send
  <2> DEFINE call == [h |-> h, id |-> ReqId(h), hop |-> 1, seal |-> secret[h],
                      host |-> ReqHost(h), method |-> req[h].method]
  <2>2. CASE calls' = calls \cup {call} /\ Goto(h, "wait") /\ UNCHANGED status
    <3>1. call.h = h
      OBVIOUS
    <3> HIDE DEF call
    <3>2. ~Unspent(h)'
      BY <2>2, <3>1 DEF Unspent
    <3> QED
      BY <1>9, <1>11, <2>2, <3>1, <3>2 DEF Send, Goto
  <2> QED
    BY <1>11, <2>1, <2>2 DEF Send
<1>12. ASSUME NEW h \in Handlers, NEW host \in RedirectHosts, Redirect(h, host) PROVE StoryInv'
  <2> DEFINE call == [h |-> h, id |-> ReqId(h), hop |-> Hops(h) + 1, seal |-> secret[h],
                      host |-> host, method |-> req[h].method]
  <2>1. call.h = h /\ calls' = calls \cup {call} /\ pc[h] = "wait" /\ pc' = pc
    BY <1>12 DEF Redirect
  <2> HIDE DEF call
  <2>2. ~Unspent(h)' /\ pc' = [pc EXCEPT ![h] = "wait"]
    BY <2>1 DEF Unspent, Shape
  <2> QED
    BY <1>9, <1>12, <2>1, <2>2 DEF Redirect
<1>13. ASSUME NEW h \in Handlers, UpstreamFails(h) PROVE StoryInv'
  BY <1>10, <1>13 DEF UpstreamFails
<1>14. ASSUME NEW h \in Handlers, NEW code \in UpstreamCodes, UpstreamAnswers(h, code)
       PROVE  StoryInv'
  <2>1. ~Unspent(h)'
    BY <1>0, <1>14 DEF UpstreamAnswers, Story, Sent, Unspent
  <2> QED
    BY <1>9, <1>14, <2>1 DEF UpstreamAnswers, Goto, Shape
<1>15. ASSUME NEW h \in Handlers, Relay(h) PROVE StoryInv'
  <2>1. /\ pc'[h] = "allowed" /\ reply'[h] = [from |-> "upstream", status |-> status'[h]]
        /\ UNCHANGED <<audited, calls, unwraps>> /\ StageOf(h)
    BY <1>15 DEF Relay, Goto, Shape, StageOf
  <2>2. audited'[h] = <<>> /\ ~Unspent(h)'
    BY <1>0, <1>15, <2>1 DEF Relay, Story, Closed, Returned, Sent, Unspent
  <2>3. Story(h)'
    BY <2>1, <2>2 DEF Story, Early, Holding, Sent, Closed, Returned
  <2> QED
    BY <2>1, <2>3, StageKeepsStories
<1>16. ASSUME NEW h \in Handlers, Respond(h) PROVE StoryInv'
  <2>1. /\ pc'[h] = "denied" /\ reply'[h] = [from |-> "broker", status |-> status'[h]]
        /\ UNCHANGED <<status, audited, calls, unwraps>> /\ StageOf(h)
    BY <1>16 DEF Respond, Goto, Shape, StageOf
  <2>2. audited'[h] = <<>> /\ Truthful(h, status[h])'
    <3>1. audited[h] = <<>> /\ Truthful(h, status[h])
      BY <1>0, <1>16 DEF Respond, Story, Closed, Returned
    <3> QED
      BY <2>1, <3>1 DEF Truthful, Unspent
  <2>3. Story(h)'
    BY <2>1, <2>2 DEF Story, Early, Holding, Sent, Closed, Returned
  <2> QED
    BY <2>1, <2>3, StageKeepsStories
<1>17. ASSUME NEW h \in Handlers, Audit(h) PROVE StoryInv'
  <2> DEFINE record == [decision |-> pc[h], status |-> status[h]]
  <2>1. /\ pc[h] \in {"allowed", "denied"} /\ UNCHANGED <<reply, calls, unwraps>> /\ StageOf(h)
        /\ \/ pc'[h] = "done" /\ audited'[h] = Append(audited[h], record)
           \/ pc'[h] = "unrecorded" /\ audited'[h] = audited[h]
    BY <1>17 DEF Audit, Goto, Shape, StageOf
  <2>2. audited[h] = <<>>
    BY <1>0, <2>1 DEF Story, Closed, Returned
  <2>3. pc'[h] = "done" => Len(audited'[h]) = 1 /\ audited'[h][1] = record
    <3>1. pc'[h] = "done" => audited'[h] = Append(<<>>, record)
      BY <2>1, <2>2
    <3> HIDE DEF record
    <3>2. Append(<<>>, record) = <<record>>
      OBVIOUS
    <3> QED
      BY <3>1, <3>2
  <2>4. /\ pc[h] = "allowed" => reply[h] = [from |-> "upstream", status |-> status[h]]
        /\ pc[h] = "denied" => reply[h] = [from |-> "broker", status |-> status[h]]
    BY <1>0 DEF Story
  <2>5. pc'[h] = "done" =>
          /\ audited'[h][1].status = reply'[h].status
          /\ audited'[h][1].decision = "allowed" <=> reply'[h].from = "upstream"
    BY <2>1, <2>3, <2>4
  <2>6. reply'[h].from = "broker" => Truthful(h, reply[h].status)'
    <3>1. reply[h].from = "broker" => Truthful(h, reply[h].status)
      BY <1>0 DEF Story
    <3> QED
      BY <2>1, <3>1 DEF Truthful, Unspent
  <2>7. Story(h)'
    BY <2>1, <2>2, <2>3, <2>5, <2>6 DEF Story, Early, Holding, Sent, Closed, Returned
  <2> QED
    BY <2>1, <2>7, StageKeepsStories
<1>18. CASE Tick \/ Signal \/ Exit \/ Restart \/ UNCHANGED vars
  <2>1. UNCHANGED handlerVars
    BY <1>18 DEF Tick, Signal, Exit, Restart, vars, handlerVars
  <2> QED
    BY <2>1, UntouchedStory DEF handlerVars, StoryInv, Unspent
<1>19. CASE DeadlineExit
  <2>1. ASSUME NEW h \in Handlers, pc[h] \in Finished PROVE Story(h)'
    <3>1. /\ pc'[h] = pc[h] /\ pc[h] \in {"idle", "done", "unrecorded", "killed"}
          /\ UNCHANGED <<reply, audited, unwraps, calls>>
      BY <1>19, <2>1 DEF DeadlineExit, Finished, Returned
    <3>2. reply'[h].from = "broker" => Truthful(h, reply[h].status)'
      <4>1. reply[h].from = "broker" => Truthful(h, reply[h].status)
        BY <1>0 DEF Story
      <4> QED
        BY <3>1, <4>1 DEF Truthful, Unspent
    <3>3. Unspent(h)' <=> Unspent(h)
      BY <3>1 DEF Unspent
    <3> QED
      BY <1>0, <3>1, <3>2, <3>3 DEF Story, Early, Holding, Sent, Closed, Returned
  <2>2. ASSUME NEW h \in Handlers, pc[h] \notin Finished PROVE Story(h)'
    <3>1. pc'[h] = "killed" /\ UNCHANGED <<reply, audited, unwraps, calls>>
      BY <1>19, <2>2 DEF DeadlineExit
    <3>2. reply'[h].from = "broker" => Truthful(h, reply[h].status)'
      <4>1. reply[h].from = "broker" => Truthful(h, reply[h].status)
        BY <1>0 DEF Story
      <4> QED
        BY <3>1, <4>1 DEF Truthful, Unspent
    <3> QED
      BY <3>1, <3>2 DEF Story, Early, Holding, Sent, Closed, Returned
  <2> QED
    BY <2>1, <2>2 DEF StoryInv
<1> QED
  BY <1>1, <1>4, <1>5, <1>6, <1>7, <1>8, <1>11, <1>12, <1>13, <1>14, <1>15, <1>16, <1>17, <1>18,
     <1>19 DEF Next, Handle, Proceed, Do, Process

\* The inductive invariant behind RefusalMeansUnspent and AuditMatchesReply: each stage knows
\* what was unwrapped, sent, replied and recorded before it (pipeline.go: Handle, deny, audit).
THEOREM StoryInvHolds == Spec => []StoryInv
<1>1. Init => StoryInv
  BY DEF Init, StoryInv, Story, Early, Holding, Sent, Closed, Returned, Unspent, NoReply
<1> QED
  BY <1>1, StoryStep, ShapeHolds, PTL DEF Spec

\* A refusal tells truthfully how far the request got, for any number of handlers
\* and whatever the upstreams, the KMS and the process do (pipeline.go: deny).
THEOREM RefusalMeansUnspentHolds == Spec => []RefusalMeansUnspent
<1>1. StoryInv => RefusalMeansUnspent
  BY DEF StoryInv, Story, Truthful, Unspent, RefusalMeansUnspent
<1> QED
  BY <1>1, StoryInvHolds, PTL

\* Whether or not the sink takes records: a handler that has returned left at most one,
\* and none only if the sink failed it, and a record written agrees with what the agent
\* was told, on every path through the pipeline (pipeline.go: deny, audit).
THEOREM AuditMatchesReplyHolds == Spec => []AuditMatchesReply
<1>1. StoryInv => AuditMatchesReply
  <2> SUFFICES ASSUME NEW h \in Handlers, Story(h), pc[h] \in Returned
               PROVE  /\ Len(audited[h]) = IF pc[h] = "done" THEN 1 ELSE 0
                      /\ \A i \in 1..Len(audited[h]) :
                           /\ audited[h][i].status = reply[h].status
                           /\ audited[h][i].decision = "allowed" <=> reply[h].from = "upstream"
    BY DEF StoryInv, AuditMatchesReply
  <2>1. CASE pc[h] = "done"
    BY <2>1 DEF Story
  <2>2. CASE pc[h] = "unrecorded"
    BY <2>2 DEF Story
  <2> QED
    BY <2>1, <2>2 DEF Returned
<1> QED
  BY <1>1, StoryInvHolds, PTL

-----------------------------------------------------------------------------
\* The refinement: what a step of the pipeline is in CredentialUse.

\* Mapped states are equal if the phases, the first hops and the records are.
LEMMA Stutter ==
  ASSUME \A k \in Handlers : Phase(k)' = Phase(k),
         \A c \in calls' \ calls : c.hop # 1, calls \subseteq calls', audited' = audited
  PROVE  UNCHANGED Use!vars
<1>1. [k \in Handlers |-> Phase(k)]' = [k \in Handlers |-> Phase(k)]
  OBVIOUS
<1>2. {c \in calls' : c.hop = 1} = {c \in calls : c.hop = 1}
  OBVIOUS
<1> QED
  BY <1>1, <1>2 DEF Use!vars

\* A handler that a stage does not touch keeps its phase.
LEMMA OtherPhases ==
  ASSUME NEW h \in Handlers, StageOf(h)
  PROVE  \A k \in Handlers \ {h} : Phase(k)' = Phase(k)
<1> SUFFICES ASSUME NEW k \in Handlers, k # h PROVE Phase(k)' = Phase(k)
  OBVIOUS
<1>1. (Unspent(k)' <=> Unspent(k)) /\ pc'[k] = pc[k]
  BY DEF StageOf, Unspent
<1> QED
  BY <1>1 DEF Phase

\* A stage inside the pipeline that sends nothing is no step of CredentialUse.
LEMMA StageStutters ==
  ASSUME NEW h \in Handlers, StageOf(h), pc[h] \notin Finished, pc'[h] \notin Finished,
         UNCHANGED <<calls, audited>>
  PROVE  UNCHANGED Use!vars
<1>1. Unspent(h)' <=> Unspent(h)
  BY DEF Unspent
<1>2. Phase(h)' = Phase(h)
  BY <1>1 DEF Phase, Finished, Returned
<1> QED
  BY <1>2, OtherPhases, Stutter

\* A stage moves one handler's phase.
LEMMA PhaseMoves ==
  ASSUME NEW h \in Handlers, StageOf(h), NEW p, Phase(h)' = p
  PROVE  [k \in Handlers |-> Phase(k)]' = [[k \in Handlers |-> Phase(k)] EXCEPT ![h] = p]
<1>1. \A k \in Handlers : Phase(k)' = IF k = h THEN p ELSE Phase(k)
  BY OtherPhases
<1> QED
  BY <1>1

\* Every step of the pipeline is a step of CredentialUse or leaves it alone.
LEMMA UseStep ==
  Shape /\ StoryInv /\ SpendInv /\ [Next]_vars => [Use!Next]_Use!vars
<1> SUFFICES ASSUME Shape, StoryInv, SpendInv, [Next]_vars PROVE [Use!Next]_Use!vars
  OBVIOUS
<1> USE DEF procVars
<1>0. ASSUME NEW h \in Handlers PROVE Story(h) /\ HandlerInv(h)
  BY <1>0 DEF StoryInv, SpendInv
<1>1. ASSUME NEW h \in Handlers, NEW q \in Requests, Accept(h, q) PROVE Use!Next
  <2>1. /\ pc[h] = "idle" /\ pc'[h] = "decode" /\ StageOf(h)
        /\ UNCHANGED <<calls, audited>>
    BY <1>1 DEF Accept, Goto, Shape, StageOf
  <2>2. Unspent(h)'
    BY <1>0, <2>1 DEF Story, Early, Unspent
  <2>3. Phase(h) = "idle" /\ Phase(h)' = "open"
    BY <2>1, <2>2 DEF Phase
  <2>4. Use!Open(h)
    BY <2>1, <2>3, PhaseMoves DEF Use!Open
  <2> QED
    BY <2>4 DEF Use!Next
<1>2. ASSUME NEW h \in Handlers, StageOf(h), pc[h] \notin Finished, pc'[h] \notin Finished,
             UNCHANGED <<calls, audited>>
      PROVE  UNCHANGED Use!vars
  BY <1>2, StageStutters
<1>3. ASSUME NEW h \in Handlers, Decode(h) \/ Authorize(h) \/ Gate(h) PROVE UNCHANGED Use!vars
  <2>1. /\ pc[h] \in {"decode", "authorize", "gate"} /\ UNCHANGED <<calls, audited>>
        /\ pc'[h] \in {"deny", "authorize", "gate", "unwrap"} /\ StageOf(h)
    <3>1. CASE Decode(h)
      BY <3>1 DEF Decode, Deny, Goto, Shape, StageOf
    <3>2. CASE Authorize(h)
      BY <3>2 DEF Authorize, Deny, Goto, Shape, StageOf
    <3>3. CASE Gate(h)
      BY <3>3 DEF Gate, Deny, Goto, Shape, StageOf
    <3> QED
      BY <1>3, <3>1, <3>2, <3>3
  <2> QED
    BY <1>2, <2>1 DEF Finished, Returned
<1>4. ASSUME NEW h \in Handlers, Unwrap(h) \/ Build(h) PROVE UNCHANGED Use!vars
  <2>1. /\ pc[h] \in {"unwrap", "build"} /\ UNCHANGED <<calls, audited>>
        /\ pc'[h] \in {"deny", "build", "send"} /\ StageOf(h)
    BY <1>4 DEF Unwrap, Build, Deny, Goto, Shape, StageOf
  <2> QED
    BY <1>2, <2>1 DEF Finished, Returned
<1>5. ASSUME NEW h \in Handlers, Send(h) PROVE [Use!Next]_Use!vars
  <2>1. CASE Deny(h, 502) /\ UNCHANGED calls
    <3>1. /\ pc[h] = "send" /\ pc'[h] = "deny" /\ UNCHANGED <<calls, audited>> /\ StageOf(h)
      BY <1>5, <2>1 DEF Send, Deny, Goto, Shape, StageOf
    <3> QED
      BY <1>2, <3>1 DEF Finished, Returned
  <2> DEFINE call == [h |-> h, id |-> ReqId(h), hop |-> 1, seal |-> secret[h],
                      host |-> ReqHost(h), method |-> req[h].method]
  <2>2. CASE calls' = calls \cup {call} /\ Goto(h, "wait")
    <3>1. call.h = h /\ call.hop = 1
      OBVIOUS
    <3>2. SpentAsSealed(call)
      BY <1>0, <1>5 DEF Send, HandlerInv, Authorized, Gated, Holding, SpentAsSealed
    <3>0. /\ pc[h] = "send" /\ pc' = [pc EXCEPT ![h] = "wait"] /\ calls' = calls \cup {call}
          /\ status' = status /\ UNCHANGED <<reply, audited, unwraps>>
      <4>1. status' = status
        BY <1>5, <2>2 DEF Send, Deny, Goto, Shape
      <4> QED
        BY <1>5, <2>2, <4>1 DEF Send, Goto
    <3> HIDE DEF call
    <3>3. pc[h] = "send" /\ pc'[h] = "wait" /\ audited' = audited /\ StageOf(h)
      BY <3>0, <3>1 DEF Shape, StageOf
    <3>4. Unspent(h) /\ ~Unspent(h)'
      BY <1>0, <2>2, <3>1, <3>3 DEF Story, Holding, Unspent
    <3>5. Phase(h) = "open" /\ Phase(h)' = "spent"
      BY <3>3, <3>4 DEF Phase
    <3>6. {c \in calls' : c.hop = 1} = {c \in calls : c.hop = 1} \cup {call}
      BY <2>2, <3>1
    <3>7. Use!Spend(h)
      BY <3>1, <3>2, <3>3, <3>5, <3>6, PhaseMoves DEF Use!Spend
    <3> QED
      BY <3>7 DEF Use!Next
  <2> QED
    BY <1>5, <2>1, <2>2 DEF Send
<1>6. ASSUME NEW h \in Handlers, NEW host \in RedirectHosts, Redirect(h, host)
      PROVE  UNCHANGED Use!vars
  <2> DEFINE call == [h |-> h, id |-> ReqId(h), hop |-> Hops(h) + 1, seal |-> secret[h],
                      host |-> host, method |-> req[h].method]
  <2>1. call.h = h /\ call.hop # 1
    BY <1>0, <1>6, LaterHop DEF Redirect
  <2>2. /\ calls' = calls \cup {call} /\ pc[h] = "wait" /\ pc' = pc
        /\ UNCHANGED <<status, reply, audited, unwraps>>
    BY <1>6 DEF Redirect
  <2> HIDE DEF call
  <2>3. StageOf(h)
    BY <2>1, <2>2 DEF StageOf
  <2>4. ~Unspent(h) /\ ~Unspent(h)'
    BY <1>0, <2>2 DEF Story, Sent, Unspent
  <2>5. Phase(h)' = Phase(h)
    BY <2>2, <2>4 DEF Phase
  <2> QED
    BY <2>1, <2>2, <2>3, <2>5, OtherPhases, Stutter
<1>7. ASSUME NEW h \in Handlers,
             \/ UpstreamFails(h) \/ \E code \in UpstreamCodes : UpstreamAnswers(h, code)
             \/ Relay(h) \/ Respond(h)
      PROVE  UNCHANGED Use!vars
  <2>1. /\ pc[h] \in {"wait", "relay", "deny"} /\ UNCHANGED <<calls, audited>>
        /\ pc'[h] \in {"deny", "relay", "allowed", "denied"} /\ StageOf(h)
    BY <1>7 DEF UpstreamFails, UpstreamAnswers, Relay, Respond, Deny, Goto, Shape, StageOf
  <2> QED
    BY <1>2, <2>1 DEF Finished, Returned
<1>8. ASSUME NEW h \in Handlers, Audit(h) PROVE Use!Next
  <2> DEFINE record == [decision |-> pc[h], status |-> status[h]]
  <2>1. pc[h] \in {"allowed", "denied"} /\ calls' = calls /\ StageOf(h)
    BY <1>8 DEF Audit, Goto, Shape, StageOf
  <2>2. audited[h] = <<>> /\ (pc[h] = "allowed" => ~Unspent(h))
    BY <1>0, <2>1 DEF Story, Closed, Returned, Sent
  <2>3. Phase(h) \in {"open", "spent"} /\ (pc[h] = "allowed" => Phase(h) = "spent")
    BY <2>1, <2>2 DEF Phase
  <2>4. CASE pc'[h] = "done" /\ audited'[h] = Append(audited[h], record)
    <3>1. Len(audited'[h]) = 1 /\ audited'[h][1].decision = pc[h]
      BY <2>2, <2>4
    <3>2. Phase(h)' = "closed"
      BY <2>4 DEF Phase
    <3>3. \A k \in Handlers \ {h} : audited'[k] = audited[k]
      BY <2>1 DEF StageOf
    <3>4. Use!Close(h)
      BY <2>1, <2>2, <2>3, <3>1, <3>2, <3>3, PhaseMoves DEF Use!Close
    <3> QED
      BY <3>4 DEF Use!Next
  <2>5. CASE pc'[h] = "unrecorded" /\ audited' = audited
    <3>1. Phase(h)' = "unrecorded"
      BY <2>5 DEF Phase
    <3>2. Use!CloseUnrecorded(h)
      BY <2>1, <2>2, <2>3, <2>5, <3>1, PhaseMoves DEF Use!CloseUnrecorded
    <3> QED
      BY <3>2 DEF Use!Next
  <2> QED
    BY <1>8, <2>4, <2>5 DEF Audit, Goto, Shape
<1>9. CASE Tick \/ Signal \/ Exit \/ Restart \/ UNCHANGED vars
  <2>1. UNCHANGED <<pc, calls, audited>>
    BY <1>9 DEF Tick, Signal, Exit, Restart, vars, handlerVars
  <2> QED
    BY <2>1, Stutter DEF Phase, Unspent
<1>10. CASE DeadlineExit
  <2>1. UNCHANGED <<calls, audited>>
    BY <1>10 DEF DeadlineExit
  <2>2. ASSUME NEW h \in Handlers
        PROVE  Phase(h)' = IF Phase(h) \in {"open", "spent"} THEN "lost" ELSE Phase(h)
    <3>1. pc'[h] = IF pc[h] \in Finished THEN pc[h] ELSE "killed"
      BY <1>10 DEF DeadlineExit
    <3>2. Unspent(h)' <=> Unspent(h)
      BY <2>1 DEF Unspent
    <3> QED
      BY <3>1, <3>2 DEF Phase, Finished, Returned
  <2>3. Use!Lose
    BY <2>1, <2>2 DEF Use!Lose
  <2> QED
    BY <2>3 DEF Use!Next
<1> QED
  BY <1>1, <1>3, <1>4, <1>5, <1>6, <1>7, <1>8, <1>9, <1>10 DEF Next, Handle, Proceed, Do, Process

\* The pipeline implements CredentialUse: every request is opened, spends its
\* credential at most once and as sealed, and is closed with one record that
\* tells whether it was spent, or with none if the sink failed (pipeline.go: Handle).
THEOREM RefinesUseHolds == Spec => RefinesUse
<1>1. Init => Use!Init
  <2> SUFFICES ASSUME Init PROVE Use!Init
    OBVIOUS
  <2>1. \A h \in Handlers : Phase(h) = "idle"
    BY DEF Init, Phase
  <2>2. calls = {} /\ audited = [h \in Handlers |-> <<>>]
    BY DEF Init
  <2> QED
    BY <2>1, <2>2 DEF Use!Init
<1> QED
  BY <1>1, UseStep, ShapeHolds, StoryInvHolds, SpendInvHolds, PTL DEF Spec, RefinesUse, Use!Spec


-----------------------------------------------------------------------------
\* The type invariant.

Windows == [start : Nat, count : Nat]
Replies == [from : {"nobody", "broker", "upstream"}, status : Nat]
Records == [decision : {"allowed", "denied"}, status : Nat]
Grants == [life : Nat, start : Nat]

ProcType ==
  /\ life \in 1..MaxLives /\ store \in Stores /\ now \in 0..MaxTime
  /\ windows \in [Ids -> Windows]

HandlerType ==
  /\ status \in [Handlers -> Nat] /\ reply \in [Handlers -> Replies]
  /\ audited \in [Handlers -> Seq(Records)] /\ granted \in [Handlers -> Grants]
  /\ unwraps \subseteq Handlers

\* Whatever branch Limiter.Allow takes, it leaves a window behind (policy.go).
LEMMA AfterAllowType ==
  ASSUME NEW w \in Windows, NEW rpm \in Int, NEW t \in Nat
  PROVE  AfterAllow(w, rpm, t) \in Windows /\ AfterAllow(w, rpm, t).start \in Nat
<1>1. w.start \in Nat /\ w.count \in Nat
  BY DEF Windows
<1>2. [start |-> t, count |-> 1] \in Windows
  BY DEF Windows
<1>3. [w EXCEPT !.count = @ + 1] \in Windows
  BY <1>1 DEF Windows
<1>4. AfterAllow(w, rpm, t) \in Windows
  BY <1>2, <1>3, Zenon DEF AfterAllow
<1> QED
  BY <1>4 DEF Windows

\* What replies, records and grants are made of.
LEMMA RecordType ==
  /\ \A n \in Nat : /\ [from |-> "upstream", status |-> n] \in Replies
                    /\ [from |-> "broker", status |-> n] \in Replies
                    /\ \A d \in {"allowed", "denied"} : [decision |-> d, status |-> n] \in Records
  /\ \A n, s \in Nat : [life |-> n, start |-> s] \in Grants
  /\ NoReply \in Replies /\ NoGrant \in Grants /\ NoWindow \in Windows
BY DEF Replies, Records, Grants, Windows, NoReply, NoGrant, NoWindow

\* A stage that touches neither the process nor the histories.
LEMMA StatusType ==
  ASSUME ProcType, HandlerType, NEW h \in Handlers, NEW n \in Nat,
         status' = status \/ status' = [status EXCEPT ![h] = n],
         unwraps' = unwraps \/ unwraps' = unwraps \cup {h},
         UNCHANGED <<procVars, reply, audited, granted>>
  PROVE  ProcType' /\ HandlerType'
<1>1. status' \in [Handlers -> Nat]
  BY DEF HandlerType
<1>2. unwraps' \subseteq Handlers
  BY DEF HandlerType
<1> QED
  BY <1>1, <1>2 DEF ProcType, HandlerType, procVars

\* policy.Authorize keeps the types on every return path.
LEMMA AuthorizeType ==
  ASSUME ProcType, HandlerType, NEW h \in Handlers, Authorize(h)
  PROVE  ProcType' /\ HandlerType'
<1> DEFINE w == windows[ReqId(h)]
           rpm == ReqPolicy(h).rpm
           after == AfterAllow(w, rpm, now)
<1>1. life \in Nat /\ now \in Nat
  BY PipelineAssumption DEF ProcType
<1>2. \A n \in Nat : [status EXCEPT ![h] = n] \in [Handlers -> Nat]
  BY DEF HandlerType
<1>3. CASE UNCHANGED <<windows, granted>> /\ \E n \in {403, 404} : Deny(h, n)
  <2>1. status' = [status EXCEPT ![h] = 403] \/ status' = [status EXCEPT ![h] = 404]
    BY <1>3 DEF Deny
  <2>2. status' \in [Handlers -> Nat]
    BY <1>2, <2>1
  <2>3. UNCHANGED <<procVars, reply, audited, granted, unwraps>>
    BY <1>3 DEF Authorize, procVars
  <2> QED
    BY <2>2, <2>3 DEF ProcType, HandlerType, procVars
<1>4. CASE /\ ReqId(h) \in DOMAIN store
           /\ windows' = [windows EXCEPT ![ReqId(h)] = after]
           /\ \/ /\ granted' = [granted EXCEPT ![h] = [life |-> life, start |-> after.start]]
                 /\ UNCHANGED status
              \/ Deny(h, 429) /\ UNCHANGED granted
  <2>1. ReqId(h) \in Ids /\ rpm \in Int /\ w \in Windows
    BY <1>4, StoresAssumption DEF ProcType, ReqPolicy
  <2>2. after \in Windows /\ after.start \in Nat
    BY <1>1, <2>1, AfterAllowType
  <2> HIDE DEF after
  <2>3. windows' \in [Ids -> Windows]
    BY <1>4, <2>2 DEF ProcType
  <2>4. [life |-> life, start |-> after.start] \in Grants
    BY <1>1, <2>2, RecordType
  <2>5. granted' \in [Handlers -> Grants]
    BY <1>4, <2>4 DEF HandlerType
  <2>6. status' \in [Handlers -> Nat]
    BY <1>2, <1>4 DEF HandlerType, Deny
  <2> QED
    BY <2>3, <2>5, <2>6 DEF ProcType, HandlerType, Authorize
<1> QED
  BY <1>3, <1>4 DEF Authorize

\* Every step keeps the types of the process and of the handlers.
LEMMA TypeStep ==
  ASSUME Shape, ProcType, HandlerType, [Next]_vars
  PROVE  ProcType' /\ HandlerType'
<1>1. ASSUME NEW h \in Handlers, NEW n \in Nat, UNCHANGED <<procVars, reply, audited, granted>>,
             UNCHANGED status \/ Deny(h, n) \/ status' = [status EXCEPT ![h] = n],
             unwraps' = unwraps \/ unwraps' = unwraps \cup {h}
      PROVE  ProcType' /\ HandlerType'
  BY <1>1, StatusType DEF Deny
<1>2. ASSUME NEW h \in Handlers, \/ \E q \in Requests : Accept(h, q)
                                 \/ \E host \in RedirectHosts : Redirect(h, host)
      PROVE  ProcType' /\ HandlerType'
  BY <1>2 DEF Accept, Redirect, ProcType, HandlerType, procVars
<1>3. ASSUME NEW h \in Handlers, Decode(h) PROVE ProcType' /\ HandlerType'
  <2>1. UNCHANGED status \/ Deny(h, 400) \/ Deny(h, 413)
    BY <1>3, Zenon DEF Decode
  <2>2. UNCHANGED <<procVars, reply, audited, granted, unwraps>>
    BY <1>3, Zenon DEF Decode
  <2> QED
    BY <1>1, <2>1, <2>2
<1>4. ASSUME NEW h \in Handlers, Gate(h) PROVE ProcType' /\ HandlerType'
  BY <1>1, <1>4 DEF Gate
<1>5. ASSUME NEW h \in Handlers, Unwrap(h) PROVE ProcType' /\ HandlerType'
  BY <1>1, <1>5 DEF Unwrap
<1>6. ASSUME NEW h \in Handlers, Build(h) PROVE ProcType' /\ HandlerType'
  BY <1>1, <1>6 DEF Build
<1>7. ASSUME NEW h \in Handlers, Send(h) \/ UpstreamFails(h) PROVE ProcType' /\ HandlerType'
  BY <1>1, <1>7 DEF Send, UpstreamFails
<1>8. ASSUME NEW h \in Handlers, NEW code \in UpstreamCodes, UpstreamAnswers(h, code)
      PROVE  ProcType' /\ HandlerType'
  BY <1>1, <1>8, PipelineAssumption DEF UpstreamAnswers
<1>9. ASSUME NEW h \in Handlers, Relay(h) \/ Respond(h) PROVE ProcType' /\ HandlerType'
  <2>1. status[h] \in Nat
    BY DEF HandlerType
  <2>2. PICK r \in Replies : reply' = [reply EXCEPT ![h] = r]
    BY <1>9, <2>1, RecordType DEF Relay, Respond
  <2>3. reply' \in [Handlers -> Replies]
    BY <2>2 DEF HandlerType
  <2> QED
    BY <1>9, <2>3 DEF Relay, Respond, ProcType, HandlerType, procVars
<1>10. ASSUME NEW h \in Handlers, Audit(h) PROVE ProcType' /\ HandlerType'
  <2>1. [decision |-> pc[h], status |-> status[h]] \in Records
    BY <1>10, RecordType DEF HandlerType, Audit
  <2>2. audited' \in [Handlers -> Seq(Records)]
    <3>1. CASE audited' = audited
      BY <3>1 DEF HandlerType
    <3>2. CASE audited' = [audited EXCEPT ![h] =
                             Append(@, [decision |-> pc[h], status |-> status[h]])]
      BY <2>1, <3>2 DEF HandlerType
    <3> QED
      BY <1>10, <3>1, <3>2 DEF Audit
  <2>3. status' \in [Handlers -> Nat]
    BY <1>10 DEF HandlerType, Audit
  <2> QED
    BY <1>10, <2>2, <2>3 DEF Audit, ProcType, HandlerType, procVars
<1>11. CASE Tick \/ Signal \/ Exit \/ UNCHANGED vars
  <2>1. now' \in 0..MaxTime
    BY <1>11, PipelineAssumption DEF Tick, Signal, Exit, ProcType, vars
  <2> QED
    BY <1>11, <2>1 DEF Tick, Signal, Exit, ProcType, HandlerType, handlerVars, vars
<1>12. CASE DeadlineExit
  BY <1>12 DEF DeadlineExit, ProcType, HandlerType
<1>13. CASE Restart
  <2>1. life' \in 1..MaxLives
    BY <1>13, PipelineAssumption DEF Restart, ProcType
  <2>2. windows' \in [Ids -> Windows]
    BY <1>13, RecordType DEF Restart
  <2> QED
    BY <1>13, <2>1, <2>2 DEF Restart, ProcType, HandlerType, handlerVars
<1> QED
  BY <1>2, <1>3, <1>4, <1>5, <1>6, <1>7, <1>8, <1>9, <1>10, <1>11, <1>12, <1>13, AuthorizeType
  DEF Next, Handle, Proceed, Do, Process

\* The pipeline keeps its type: the limiter's windows, the grants, the replies and the
\* audit records are what Handle makes them, for any requests and any store files.
THEOREM TypeHolds == Spec => []TypeOK
<1>1. Init => ProcType /\ HandlerType
  <2> SUFFICES ASSUME Init PROVE ProcType /\ HandlerType
    OBVIOUS
  <2>1. windows \in [Ids -> Windows] /\ reply \in [Handlers -> Replies]
        /\ granted \in [Handlers -> Grants]
    BY RecordType DEF Init
  <2> QED
    BY <2>1, PipelineAssumption DEF Init, ProcType, HandlerType
<1>2. Shape /\ ProcType /\ HandlerType /\ [Next]_vars => (ProcType /\ HandlerType)'
  BY TypeStep
<1>3. Shape /\ ProcType /\ HandlerType => TypeOK
  BY DEF Shape, ProcType, HandlerType, TypeOK, Windows, Replies, Records, Grants
<1> QED
  BY <1>1, <1>2, <1>3, ShapeHolds, PTL DEF Spec

-----------------------------------------------------------------------------
\* The rate: handlers that hold a place of a limiter window, because they have
\* passed policy.Authorize and may still send, or have sent.

Charged(h, id) == \E c \in calls : c.hop = 1 /\ c.h = h /\ c.id = id
HasPlace(h, id) == (pc[h] \in Authorized /\ ReqId(h) = id) \/ Charged(h, id)
Places(id, g) == {h \in Handlers : granted[h] = g /\ HasPlace(h, id)}

AtMost(S, n) == IsFiniteSet(S) /\ Cardinality(S) <= n

\* A handler past Authorize was granted by this life of the process, for an id it knows.
Current(h) == pc[h] \in Authorized => granted[h].life = life /\ ReqId(h) \in DOMAIN store

\* A call is its handler's only first hop, belongs to a life that has begun, in this
\* life was made under the policy in the store, and its window was not overdrawn.
Accounted(c) ==
  c.hop = 1 =>
    /\ c.h \in Handlers /\ c.id \in Ids /\ c.seal.policy.rpm \in Int
    /\ granted[c.h].life <= life
    /\ granted[c.h].life = life => c.id \in DOMAIN store /\ c.seal.policy = store[c.id].policy
    /\ c.seal.policy.rpm > 0 => AtMost(Places(c.id, granted[c.h]), c.seal.policy.rpm)
    /\ \A d \in calls : d.hop = 1 /\ d.h = c.h => d = c

\* The places of this life's windows: none was granted by a window that starts later
\* than the present one, the present one counts at least its own, and no window gave
\* more than the rate.
Within(id) ==
  LET rpm == store[id].policy.rpm
      w == windows[id]
  IN rpm > 0 =>
       /\ w.count <= rpm
       /\ \A h \in Handlers : HasPlace(h, id) /\ granted[h].life = life =>
            granted[h].start <= w.start /\ w.count > 0
       /\ \A g \in Grants : g.life = life =>
            /\ AtMost(Places(id, g), rpm)
            /\ g.start = w.start => AtMost(Places(id, g), w.count)

RateInv ==
  /\ \A h \in Handlers : Current(h)
  /\ \A c \in calls : Accounted(c)
  /\ \A id \in DOMAIN store : Within(id)

\* Counting places.
LEMMA AtMostFacts ==
  ASSUME NEW S, NEW n \in Int, AtMost(S, n)
  PROVE  /\ \A T \in SUBSET S : AtMost(T, n)
         /\ \A x : AtMost(S \cup {x}, n + 1)
         /\ \A m \in Int : n <= m => AtMost(S, m)
<1>1. IsFiniteSet(S) /\ Cardinality(S) \in Nat /\ Cardinality(S) <= n
  BY FS_CardinalityType DEF AtMost
<1>2. ASSUME NEW T \in SUBSET S PROVE AtMost(T, n)
  <2>1. IsFiniteSet(T) /\ Cardinality(T) <= Cardinality(S)
    BY <1>1, FS_Subset
  <2>2. Cardinality(T) \in Nat
    BY <2>1, FS_CardinalityType
  <2> QED
    BY <1>1, <2>1, <2>2 DEF AtMost
<1>3. ASSUME NEW x PROVE AtMost(S \cup {x}, n + 1)
  <2>1. IsFiniteSet(S \cup {x})
    BY <1>1, FS_AddElement
  <2>2. Cardinality(S \cup {x}) = Cardinality(S) \/ Cardinality(S \cup {x}) = Cardinality(S) + 1
    BY <1>1, FS_AddElement
  <2> QED
    BY <1>1, <2>1, <2>2 DEF AtMost
<1>4. \A m \in Int : n <= m => AtMost(S, m)
  BY <1>1 DEF AtMost
<1> QED
  BY <1>2, <1>3, <1>4

\* No places at all are few enough.
LEMMA AtMostEmpty ==
  ASSUME NEW n \in Nat PROVE AtMost({}, n)
BY FS_EmptySet DEF AtMost

\* While no handler gains a place, the windows and the places stay in step.
LEMMA PlacesShrink ==
  ASSUME ProcType, HandlerType, UNCHANGED <<life, store, windows, granted>>,
         \A k \in Handlers : \A id : HasPlace(k, id)' => HasPlace(k, id)
  PROVE  /\ \A id, g : \A n \in Int : AtMost(Places(id, g), n) => AtMost(Places(id, g)', n)
         /\ (\A id \in DOMAIN store : Within(id)) => (\A id \in DOMAIN store : Within(id))'
<1>1. \A id, g : Places(id, g)' \in SUBSET Places(id, g)
  BY DEF Places
<1>2. ASSUME NEW id, NEW g, NEW n \in Int, AtMost(Places(id, g), n) PROVE AtMost(Places(id, g)', n)
  BY <1>1, <1>2, AtMostFacts
<1>3. ASSUME NEW id \in DOMAIN store, Within(id) PROVE Within(id)'
  <2>1. store[id].policy.rpm \in Int /\ windows[id].count \in Int
    BY StoresAssumption DEF ProcType, Windows
  <2> SUFFICES ASSUME store[id].policy.rpm > 0
               PROVE  /\ windows[id].count <= store[id].policy.rpm
                      /\ \A h \in Handlers : HasPlace(h, id)' /\ granted[h].life = life =>
                           granted[h].start <= windows[id].start /\ windows[id].count > 0
                      /\ \A g \in Grants : g.life = life =>
                           /\ AtMost(Places(id, g)', store[id].policy.rpm)
                           /\ g.start = windows[id].start => AtMost(Places(id, g)', windows[id].count)
    BY DEF Within
  <2> QED
    BY <1>2, <1>3, <2>1 DEF Within
<1> QED
  BY <1>2, <1>3

\* A step that lets nobody past Authorize, changes no window and sends nothing new.
LEMMA QuietRate ==
  ASSUME ProcType, HandlerType, RateInv, UNCHANGED <<life, store, windows, granted>>,
         \A c : c.hop = 1 => (c \in calls' <=> c \in calls),
         \A k \in Handlers : pc'[k] \in Authorized => pc[k] \in Authorized /\ req'[k] = req[k]
  PROVE  RateInv'
<1>1. \A k \in Handlers : \A id : HasPlace(k, id)' => HasPlace(k, id)
  BY DEF HasPlace, Charged, ReqId
<1>2. (\A id \in DOMAIN store : Within(id))'
  BY <1>1, PlacesShrink DEF RateInv
<1>3. \A h \in Handlers : Current(h)'
  BY DEF RateInv, Current, ReqId
<1>4. ASSUME NEW c \in calls' PROVE Accounted(c)'
  <2> SUFFICES ASSUME c.hop = 1 PROVE Accounted(c)'
    BY DEF Accounted
  <2>1. c \in calls /\ Accounted(c)
    BY DEF RateInv
  <2>2. c.seal.policy.rpm > 0 => AtMost(Places(c.id, granted[c.h])', c.seal.policy.rpm)
    BY <1>1, <2>1, PlacesShrink DEF Accounted
  <2>3. \A d \in calls' : d.hop = 1 /\ d.h = c.h => d = c
    BY <2>1 DEF Accounted
  <2> QED
    BY <2>1, <2>2, <2>3 DEF Accounted
<1> QED
  BY <1>2, <1>3, <1>4 DEF RateInv

\* Upstream.Do: the handler's place becomes a call, under the policy it was granted by.
LEMMA SendRate ==
  ASSUME ProcType, HandlerType, Shape, SpendInv, StoryInv, RateInv, NEW h \in Handlers,
         Send(h), calls' # calls
  PROVE  RateInv'
<1>0. PICK new, i, g :
        /\ new = [h |-> h, id |-> ReqId(h), hop |-> 1, seal |-> secret[h],
                  host |-> ReqHost(h), method |-> req[h].method]
        /\ i = ReqId(h) /\ g = granted[h]
  OBVIOUS
<1>1. /\ pc[h] = "send" /\ pc' = [pc EXCEPT ![h] = "wait"] /\ calls' = calls \cup {new}
      /\ UNCHANGED <<life, store, windows, granted, req>>
  BY <1>0 DEF Send, Goto, procVars
<1>2. new.h = h /\ new.id = i /\ new.hop = 1 /\ new.seal = secret[h]
  BY <1>0
<1>3. pc[h] \in Authorized /\ pc[h] \in Holding
  BY <1>1 DEF Authorized, Holding
<1>4. \A c \in calls : c.h # h
  BY <1>3 DEF StoryInv, Story, Unspent
<1>5. g.life = life /\ i \in DOMAIN store
  BY <1>0, <1>3 DEF RateInv, Current
<1>6. secret[h].policy = store[i].policy
  BY <1>0, <1>3 DEF SpendInv, HandlerInv, ReqPolicy
<1>7. store[i].policy.rpm \in Int /\ i \in Ids /\ life \in Int
  BY <1>5, StoresAssumption, PipelineAssumption DEF ProcType
<1>8. pc'[h] \notin Authorized /\ \A k \in Handlers \ {h} : pc'[k] = pc[k]
  BY <1>1 DEF Shape, Authorized
<1>9. ASSUME NEW k \in Handlers, NEW id, HasPlace(k, id)' PROVE HasPlace(k, id)
  <2>1. CASE pc'[k] \in Authorized /\ ReqId(k)' = id
    BY <1>1, <1>8, <2>1 DEF HasPlace, ReqId
  <2>2. CASE Charged(k, id)'
    BY <1>0, <1>1, <1>2, <1>3, <2>2 DEF HasPlace, Charged
  <2> QED
    BY <1>9, <2>1, <2>2 DEF HasPlace
<1>10. (\A id \in DOMAIN store : Within(id))'
  BY <1>1, <1>9, PlacesShrink DEF RateInv
<1>11. \A k \in Handlers : Current(k)'
  BY <1>1, <1>8 DEF RateInv, Current, ReqId
<1>12. Accounted(new)'
  <2>1. g \in Grants /\ Within(i)
    BY <1>0, <1>5 DEF HandlerType, RateInv
  <2>2. store[i].policy.rpm > 0 => AtMost(Places(i, g), store[i].policy.rpm)
    BY <1>5, <2>1 DEF Within
  <2>3. store[i].policy.rpm > 0 => AtMost(Places(i, g)', store[i].policy.rpm)
    BY <1>1, <1>7, <1>9, <2>2, PlacesShrink
  <2>4. \A d \in calls' : d.hop = 1 /\ d.h = h => d = new
    BY <1>1, <1>4
  <2>5. granted'[h] = g /\ g.life <= life'
    BY <1>0, <1>1, <1>5, <1>7
  <2> QED
    BY <1>1, <1>2, <1>5, <1>6, <1>7, <2>3, <2>4, <2>5 DEF Accounted
<1>13. ASSUME NEW c \in calls PROVE Accounted(c)'
  <2> SUFFICES ASSUME c.hop = 1 PROVE Accounted(c)'
    BY DEF Accounted
  <2>1. Accounted(c) /\ c.h # h
    BY <1>4 DEF RateInv
  <2>2. c.seal.policy.rpm > 0 => AtMost(Places(c.id, granted[c.h])', c.seal.policy.rpm)
    BY <1>1, <1>9, <2>1, PlacesShrink DEF Accounted
  <2>3. \A d \in calls' : d.hop = 1 /\ d.h = c.h => d = c
    BY <1>1, <1>2, <2>1 DEF Accounted
  <2> QED
    BY <1>1, <2>1, <2>2, <2>3 DEF Accounted
<1> QED
  BY <1>1, <1>10, <1>11, <1>12, <1>13 DEF RateInv

\* Limiter.Allow, when it grants: a new window opens later than every place of the
\* old one, and an old one counts the place it gives.
LEMMA AllowCounts ==
  ASSUME NEW w \in Windows, NEW rpm \in Int, NEW t \in Nat, rpm > 0, Allows(w, rpm, t), w.count <= rpm
  PROVE  LET after == AfterAllow(w, rpm, t)
         IN /\ after.count \in Nat /\ after.start \in Nat /\ after.count > 0 /\ after.count <= rpm
            /\ \/ after.start = t /\ after.count = 1 /\ (w.count = 0 \/ w.start < t)
               \/ after.start = w.start /\ after.count = w.count + 1
<1>1. w.start \in Nat /\ w.count \in Nat
  BY DEF Windows
<1>2. CASE WindowOver(w, t)
  <2>1. AfterAllow(w, rpm, t) = [start |-> t, count |-> 1]
    BY <1>2 DEF AfterAllow
  <2>2. w.count = 0 \/ w.start < t
    BY <1>1, <1>2, WindowAssumption DEF WindowOver
  <2> QED
    BY <2>1, <2>2
<1>3. CASE ~WindowOver(w, t)
  <2>1. w.count < rpm
    BY <1>3 DEF Allows
  <2>2. AfterAllow(w, rpm, t) = [w EXCEPT !.count = @ + 1]
    BY <1>1, <1>3, <2>1 DEF AfterAllow
  <2>3. AfterAllow(w, rpm, t).start = w.start /\ AfterAllow(w, rpm, t).count = w.count + 1
    BY <2>2 DEF Windows
  <2> QED
    BY <1>1, <2>1, <2>3
<1> QED
  BY <1>2, <1>3

\* policy.Authorize admits a handler: one more place, of a window with room for it.
LEMMA GrantRate ==
  ASSUME ProcType, HandlerType, Shape, StoryInv, RateInv, NEW h \in Handlers, NEW i, NEW g, NEW w, NEW a,
         pc[h] = "authorize", i = ReqId(h), i \in DOMAIN store, w = windows[i],
         Allows(w, store[i].policy.rpm, now), a = AfterAllow(w, store[i].policy.rpm, now),
         g = [life |-> life, start |-> a.start],
         windows' = [windows EXCEPT ![i] = a], granted' = [granted EXCEPT ![h] = g],
         pc' = [pc EXCEPT ![h] = "gate"], UNCHANGED <<life, store, req, calls>>
  PROVE  RateInv'
<1>1. /\ i \in Ids /\ store[i].policy.rpm \in Int /\ w \in Windows
      /\ life \in Nat /\ now \in Nat
  BY StoresAssumption, PipelineAssumption DEF ProcType
<1>2. a \in Windows /\ a.start \in Nat /\ g.life = life /\ g.start = a.start
  BY <1>1, AfterAllowType
<1>3. pc[h] \notin Authorized /\ \A c \in calls : c.h # h
  BY DEF Authorized, StoryInv, Story, Early, Unspent
<1>4. /\ pc'[h] = "gate" /\ granted'[h] = g /\ ReqId(h)' = i
      /\ \A k \in Handlers \ {h} : pc'[k] = pc[k] /\ granted'[k] = granted[k] /\ ReqId(k)' = ReqId(k)
  BY DEF Shape, HandlerType, ReqId
<1>5. \A id : ~Charged(h, id) /\ ~Charged(h, id)'
  BY <1>3 DEF Charged
<1>6. \A id : HasPlace(h, id)' => id = i
  BY <1>4, <1>5 DEF HasPlace
<1>7. \A k \in Handlers \ {h} : \A id : HasPlace(k, id)' => HasPlace(k, id)
  BY <1>4 DEF HasPlace, Charged
<1>8. \A id, f : id # i \/ f # g => Places(id, f)' \in SUBSET Places(id, f)
  BY <1>4, <1>6, <1>7 DEF Places
<1>9. Places(i, g)' \in SUBSET (Places(i, g) \cup {h})
  BY <1>4, <1>7 DEF Places
<1>10. \A k \in Handlers : Current(k)'
  <2>1. Current(h)'
    BY <1>2, <1>4 DEF Current
  <2>2. \A k \in Handlers \ {h} : Current(k)'
    BY <1>4 DEF Current, RateInv
  <2> QED
    BY <2>1, <2>2
<1>11. ASSUME NEW id \in DOMAIN store, id # i PROVE Within(id)'
  <2>1. Within(id) /\ windows'[id] = windows[id]
    BY <1>11, StoresAssumption DEF RateInv, ProcType
  <2>2. store[id].policy.rpm \in Int /\ windows[id].count \in Int
    BY StoresAssumption DEF ProcType, Windows
  <2>3. ASSUME NEW f, NEW n \in Int, AtMost(Places(id, f), n) PROVE AtMost(Places(id, f)', n)
    BY <1>8, <1>11, <2>3, AtMostFacts
  <2>4. ASSUME NEW k \in Handlers, HasPlace(k, id)'
        PROVE  HasPlace(k, id) /\ granted'[k] = granted[k]
    BY <1>4, <1>6, <1>7, <1>11, <2>4
  <2> SUFFICES ASSUME store[id].policy.rpm > 0
               PROVE  /\ windows[id].count <= store[id].policy.rpm
                      /\ \A k \in Handlers : HasPlace(k, id)' /\ granted'[k].life = life =>
                           granted'[k].start <= windows[id].start /\ windows[id].count > 0
                      /\ \A f \in Grants : f.life = life =>
                           /\ AtMost(Places(id, f)', store[id].policy.rpm)
                           /\ f.start = windows[id].start => AtMost(Places(id, f)', windows[id].count)
    BY <2>1 DEF Within
  <2> QED
    BY <2>1, <2>2, <2>3, <2>4 DEF Within
<1>12. Within(i)'
  <2> DEFINE rpm == store[i].policy.rpm
  <2>1. windows'[i] = a
    BY <1>1 DEF ProcType
  <2> SUFFICES ASSUME rpm > 0
               PROVE  /\ a.count <= rpm
                      /\ \A k \in Handlers : HasPlace(k, i)' /\ granted'[k].life = life =>
                           granted'[k].start <= a.start /\ a.count > 0
                      /\ \A f \in Grants : f.life = life =>
                           /\ AtMost(Places(i, f)', rpm)
                           /\ f.start = a.start => AtMost(Places(i, f)', a.count)
    BY <2>1 DEF Within
  <2>2. /\ w.count <= rpm
        /\ \A k \in Handlers : HasPlace(k, i) /\ granted[k].life = life =>
             granted[k].start <= w.start /\ w.count > 0
        /\ \A f \in Grants : f.life = life =>
             /\ AtMost(Places(i, f), rpm)
             /\ f.start = w.start => AtMost(Places(i, f), w.count)
    BY DEF RateInv, Within
  <2>3. /\ a.count \in Nat /\ a.count > 0 /\ a.count <= rpm
        /\ \/ a.start = now /\ a.count = 1 /\ (w.count = 0 \/ w.start < now)
           \/ a.start = w.start /\ a.count = w.count + 1
    BY <1>1, <2>2, AllowCounts
  <2>4. w.start \in Nat /\ w.count \in Nat
    BY <1>1 DEF Windows
  <2>5. \A k \in Handlers : granted[k].start \in Nat
    BY DEF HandlerType, Grants
  <2>6. ASSUME NEW k \in Handlers, HasPlace(k, i)', granted'[k].life = life
        PROVE  granted'[k].start <= a.start
    <3>1. CASE k = h
      BY <1>2, <1>4, <3>1
    <3>2. CASE k # h
      <4>1. granted[k].start <= w.start /\ w.count > 0
        BY <1>4, <1>7, <2>2, <2>6, <3>2
      <4> QED
        BY <1>1, <1>4, <2>3, <2>4, <2>5, <3>2, <4>1
    <3> QED
      BY <3>1, <3>2
  <2>7. AtMost(Places(i, g), a.count - 1)
    <3>1. CASE a.start = w.start /\ a.count = w.count + 1
      <4>1. g \in Grants
        BY <1>1, <1>2, RecordType
      <4>2. AtMost(Places(i, g), w.count) /\ a.count - 1 = w.count
        BY <1>2, <2>2, <2>4, <3>1, <4>1
      <4> QED
        BY <4>2
    <3>2. CASE a.start = now /\ a.count = 1 /\ (w.count = 0 \/ w.start < now)
      <4>1. Places(i, g) = {}
        <5>1. SUFFICES ASSUME NEW k \in Places(i, g) PROVE FALSE
          OBVIOUS
        <5>2. k \in Handlers /\ granted[k] = g /\ HasPlace(k, i)
          BY DEF Places
        <5>3. now <= w.start /\ w.count > 0
          BY <1>2, <2>2, <3>2, <5>2
        <5> QED
          BY <1>1, <2>4, <3>2, <5>3
      <4> QED
        BY <3>2, <4>1, AtMostEmpty
    <3> QED
      BY <2>3, <3>1, <3>2
  <2>8. AtMost(Places(i, g)', a.count)
    <3>1. a.count - 1 \in Int /\ a.count = (a.count - 1) + 1
      BY <2>3
    <3>2. \A n \in Int : AtMost(Places(i, g), n) => AtMost(Places(i, g) \cup {h}, n + 1)
      BY AtMostFacts
    <3>3. AtMost(Places(i, g) \cup {h}, a.count)
      BY <2>7, <3>1, <3>2
    <3> QED
      BY <1>9, <2>3, <3>3, AtMostFacts
  <2>9. AtMost(Places(i, g)', rpm)
    BY <1>1, <2>3, <2>8, AtMostFacts
  <2>10. ASSUME NEW f \in Grants, f.life = life, f.start = a.start PROVE f = g
    BY <2>10 DEF Grants
  <2>11. ASSUME NEW f \in Grants, f.life = life, f # g PROVE AtMost(Places(i, f)', rpm)
    BY <1>1, <1>8, <2>2, <2>11, AtMostFacts
  <2> QED
    BY <2>3, <2>6, <2>8, <2>9, <2>10, <2>11
<1>13. ASSUME NEW c \in calls PROVE Accounted(c)'
  <2> SUFFICES ASSUME c.hop = 1 PROVE Accounted(c)'
    BY DEF Accounted
  <2>1. Accounted(c) /\ granted'[c.h] = granted[c.h] /\ c.h \in Handlers /\ c.seal.policy.rpm \in Int
    BY <1>3, <1>4 DEF RateInv, Accounted
  <2>2. PICK f : f = granted[c.h]
    OBVIOUS
  <2>3. c.seal.policy.rpm > 0 => AtMost(Places(c.id, f)', c.seal.policy.rpm)
    <3>1. CASE c.id # i \/ f # g
      BY <1>8, <2>1, <2>2, <3>1, AtMostFacts DEF Accounted
    <3>2. CASE c.id = i /\ f = g
      <4>1. c.seal.policy = store[i].policy
        BY <1>2, <2>1, <2>2, <3>2 DEF Accounted
      <4>2. g \in Grants /\ g.life = life'
        BY <1>1, <1>2, RecordType
      <4> QED
        BY <1>12, <3>2, <4>1, <4>2 DEF Within
    <3> QED
      BY <3>1, <3>2
  <2> QED
    BY <2>1, <2>2, <2>3 DEF Accounted
<1>14. (\A id \in DOMAIN store : Within(id))'
  BY <1>11, <1>12
<1> QED
  BY <1>10, <1>13, <1>14 DEF RateInv

\* A new process has an empty limiter, and no handler of the old one is left.
LEMMA RestartRate ==
  ASSUME ProcType, HandlerType, SpendInv, RateInv, Restart
  PROVE  RateInv'
<1>1. /\ life \in Int /\ life' = life + 1 /\ store' \in Stores
      /\ windows' = [id \in Ids |-> NoWindow] /\ UNCHANGED <<pc, req, calls, granted>>
  BY DEF Restart, ProcType, handlerVars
<1>2. \A k \in Handlers : pc[k] \notin Authorized
  BY DEF SpendInv, Restart, Finished, Returned, Authorized
<1>3. \A k \in Handlers : granted[k].life \in Int
  BY DEF HandlerType, Grants
<1>4. ASSUME NEW k \in Handlers, NEW id, HasPlace(k, id)' PROVE HasPlace(k, id) /\ granted[k].life # life'
  <2>1. PICK c \in calls : c.hop = 1 /\ c.h = k /\ c.id = id
    BY <1>1, <1>2, <1>4 DEF HasPlace, Charged
  <2>2. granted[k].life <= life
    BY <2>1 DEF RateInv, Accounted
  <2> QED
    BY <1>1, <1>3, <2>1, <2>2 DEF HasPlace, Charged
<1>5. \A id, g : Places(id, g)' \in SUBSET Places(id, g)
  BY <1>1, <1>4 DEF Places
<1>6. \A id, g : g.life = life' => Places(id, g)' = {}
  BY <1>1, <1>4 DEF Places
<1>7. \A k \in Handlers : Current(k)'
  BY <1>1, <1>2 DEF Current
<1>8. ASSUME NEW c \in calls PROVE Accounted(c)'
  <2> SUFFICES ASSUME c.hop = 1 PROVE Accounted(c)'
    BY DEF Accounted
  <2>1. Accounted(c) /\ c.h \in Handlers /\ c.seal.policy.rpm \in Int /\ granted[c.h].life <= life
    BY DEF RateInv, Accounted
  <2>2. granted[c.h].life <= life' /\ granted[c.h].life # life'
    BY <1>1, <1>3, <2>1
  <2>3. c.seal.policy.rpm > 0 => AtMost(Places(c.id, granted[c.h])', c.seal.policy.rpm)
    BY <1>1, <1>5, <2>1, AtMostFacts DEF Accounted
  <2> QED
    BY <1>1, <2>1, <2>2, <2>3 DEF Accounted
<1>9. ASSUME NEW id \in DOMAIN store' PROVE Within(id)'
  <2>1. id \in Ids /\ store'[id].policy.rpm \in Int
    BY <1>1, StoresAssumption
  <2>2. windows'[id].count = 0
    BY <1>1, <2>1 DEF NoWindow
  <2>3. \A g : g.life = life' => \A n \in Nat : AtMost(Places(id, g)', n)
    BY <1>6, AtMostEmpty
  <2> SUFFICES ASSUME store'[id].policy.rpm > 0
               PROVE  /\ windows'[id].count <= store'[id].policy.rpm
                      /\ \A k \in Handlers : ~(HasPlace(k, id)' /\ granted'[k].life = life')
                      /\ \A g \in Grants : g.life = life' =>
                           /\ AtMost(Places(id, g)', store'[id].policy.rpm)
                           /\ AtMost(Places(id, g)', windows'[id].count)
    BY DEF Within
  <2> QED
    BY <1>1, <1>4, <2>1, <2>2, <2>3
<1> QED
  BY <1>1, <1>7, <1>8, <1>9 DEF RateInv

\* What Limiter.Allow leaves when it refuses is what it found.
LEMMA RefusedKeeps ==
  ASSUME NEW w \in Windows, NEW rpm \in Int, NEW t, ~Allows(w, rpm, t)
  PROVE  AfterAllow(w, rpm, t) = w
<1>1. w.count \in Nat /\ ~(w.count < rpm)
  BY DEF Windows, Allows
<1> QED
  BY <1>1 DEF AfterAllow, Allows

\* Authorize admits a handler into a window with room, or changes no window.
LEMMA AuthorizeRate ==
  ASSUME ProcType, HandlerType, Shape, StoryInv, RateInv, NEW h \in Handlers, Authorize(h)
  PROVE  RateInv'
<1>1. PICK i, w, a, g : /\ i = ReqId(h) /\ w = windows[i]
                        /\ a = AfterAllow(w, store[i].policy.rpm, now)
                        /\ g = [life |-> life, start |-> a.start]
  OBVIOUS
<1>2. pc[h] = "authorize" /\ UNCHANGED <<life, store, now, req, calls>>
  BY DEF Authorize
<1>3. CASE /\ i \in DOMAIN store /\ Allows(w, store[i].policy.rpm, now)
           /\ windows' = [windows EXCEPT ![i] = a] /\ granted' = [granted EXCEPT ![h] = g]
           /\ pc' = [pc EXCEPT ![h] = "gate"]
  BY <1>1, <1>2, <1>3, GrantRate
<1>4. ASSUME UNCHANGED windows, UNCHANGED granted, pc' = [pc EXCEPT ![h] = "deny"] PROVE RateInv'
  <2>1. \A k \in Handlers : pc'[k] \in Authorized => pc[k] \in Authorized
    BY <1>4 DEF Shape, Authorized
  <2> QED
    BY <1>2, <1>4, <2>1, QuietRate
<1>5. CASE /\ i \in DOMAIN store /\ ~Allows(w, store[i].policy.rpm, now)
           /\ windows' = [windows EXCEPT ![i] = a] /\ UNCHANGED granted
           /\ pc' = [pc EXCEPT ![h] = "deny"]
  <2>1. i \in Ids /\ w \in Windows /\ store[i].policy.rpm \in Int
    BY <1>1, <1>5, StoresAssumption DEF ProcType
  <2>2. a = w
    BY <1>1, <1>5, <2>1, RefusedKeeps
  <2>3. windows' = windows
    BY <1>1, <1>5, <2>1, <2>2 DEF ProcType
  <2> QED
    BY <1>4, <1>5, <2>3
<1> QED
  BY <1>1, <1>3, <1>4, <1>5 DEF Authorize, Deny, Goto, ReqPolicy

\* RateInv is inductive.
LEMMA RateStep ==
  ASSUME ProcType, HandlerType, Shape, SpendInv, StoryInv, RateInv, [Next]_vars
  PROVE  RateInv'
<1>1. ASSUME NEW h \in Handlers, UNCHANGED <<life, store, windows, granted, calls, req>>,
             NEW stage, pc' = [pc EXCEPT ![h] = stage],
             stage \in Authorized => pc[h] \in Authorized
      PROVE  RateInv'
  <2>1. \A k \in Handlers : pc'[k] \in Authorized => pc[k] \in Authorized
    BY <1>1 DEF Shape
  <2> QED
    BY <1>1, <2>1, QuietRate
<1>2. ASSUME NEW h \in Handlers, \E q \in Requests : Accept(h, q) PROVE RateInv'
  <2>1. \A k \in Handlers : pc'[k] \in Authorized => pc[k] \in Authorized /\ req'[k] = req[k]
    BY <1>2 DEF Accept, Goto, Shape, Authorized
  <2>2. UNCHANGED <<life, store, windows, granted, calls>>
    BY <1>2 DEF Accept, procVars
  <2> QED
    BY <2>1, <2>2, QuietRate
<1>3. ASSUME NEW h \in Handlers, Decode(h) \/ UpstreamFails(h) \/ Relay(h) \/ Respond(h) PROVE RateInv'
  <2>0. \A stage \in {"deny", "authorize", "allowed", "denied"} : stage \notin Authorized
    BY DEF Authorized
  <2>1. PICK stage \in {"deny", "authorize", "allowed", "denied"} : pc' = [pc EXCEPT ![h] = stage]
    BY <1>3, Zenon DEF Decode, UpstreamFails, Relay, Respond, Goto, Deny
  <2>2. UNCHANGED <<life, store, windows, granted, calls, req>>
    BY <1>3, Zenon DEF Decode, UpstreamFails, Relay, Respond, procVars
  <2> QED
    BY <1>1, <2>0, <2>1, <2>2
<1>4. ASSUME NEW h \in Handlers, Gate(h) \/ Unwrap(h) \/ Build(h) PROVE RateInv'
  <2>1. pc[h] \in Authorized
    BY <1>4 DEF Gate, Unwrap, Build, Authorized
  <2>2. PICK stage : pc' = [pc EXCEPT ![h] = stage]
    BY <1>4 DEF Gate, Unwrap, Build, Goto, Deny
  <2>3. UNCHANGED <<life, store, windows, granted, calls, req>>
    BY <1>4, Zenon DEF Gate, Unwrap, Build, procVars
  <2> QED
    BY <1>1, <2>1, <2>2, <2>3
<1>5. ASSUME NEW h \in Handlers, NEW code \in UpstreamCodes, UpstreamAnswers(h, code) PROVE RateInv'
  <2>1. pc' = [pc EXCEPT ![h] = "relay"] /\ "relay" \notin Authorized
    BY <1>5 DEF UpstreamAnswers, Goto, Authorized
  <2>2. UNCHANGED <<life, store, windows, granted, calls, req>>
    BY <1>5 DEF UpstreamAnswers, procVars
  <2> QED
    BY <1>1, <2>1, <2>2
<1>6. ASSUME NEW h \in Handlers, Send(h) PROVE RateInv'
  <2>1. CASE calls' = calls
    <3>1. pc' = [pc EXCEPT ![h] = "deny"] \/ pc' = [pc EXCEPT ![h] = "wait"]
      BY <1>6 DEF Send, Goto, Deny
    <3>2. "deny" \notin Authorized /\ "wait" \notin Authorized
      BY DEF Authorized
    <3>3. UNCHANGED <<life, store, windows, granted, calls, req>>
      BY <1>6, <2>1 DEF Send, procVars
    <3> QED
      BY <1>1, <3>1, <3>2, <3>3
  <2> QED
    BY <1>6, <2>1, SendRate
<1>7. ASSUME NEW h \in Handlers, NEW host \in RedirectHosts, Redirect(h, host) PROVE RateInv'
  <2>0. PICK c : c = [h |-> h, id |-> ReqId(h), hop |-> Hops(h) + 1, seal |-> secret[h],
                      host |-> host, method |-> req[h].method]
    OBVIOUS
  <2>1. calls' = calls \cup {c} /\ c.hop = Hops(h) + 1
    BY <1>7, <2>0 DEF Redirect
  <2>2. c.hop # 1
    BY <1>7, <2>1, LaterHop DEF Redirect
  <2>3. UNCHANGED <<life, store, windows, granted, pc, req>>
    BY <1>7 DEF Redirect, procVars
  <2> QED
    BY <2>1, <2>2, <2>3, QuietRate
<1>8. ASSUME NEW h \in Handlers, Audit(h) PROVE RateInv'
  <2>1. \A k \in Handlers : pc'[k] \in Authorized => pc[k] \in Authorized /\ req'[k] = req[k]
    BY <1>8 DEF Audit, Goto, Shape, Authorized
  <2>2. UNCHANGED <<life, store, windows, granted, calls>>
    BY <1>8 DEF Audit, procVars
  <2> QED
    BY <2>1, <2>2, QuietRate
<1>9. CASE Tick \/ Signal \/ Exit \/ UNCHANGED vars
  <2>1. UNCHANGED <<life, store, windows, granted, calls, pc, req>>
    BY <1>9 DEF Tick, Signal, Exit, vars, handlerVars
  <2> QED
    BY <2>1, QuietRate
<1>10. CASE DeadlineExit
  <2>1. \A k \in Handlers : pc'[k] \notin Authorized
    BY <1>10 DEF DeadlineExit, Finished, Returned, Authorized
  <2>2. UNCHANGED <<life, store, windows, granted, calls>>
    BY <1>10 DEF DeadlineExit
  <2> QED
    BY <2>1, <2>2, QuietRate
<1> QED
  BY <1>2, <1>3, <1>4, <1>5, <1>6, <1>7, <1>8, <1>9, <1>10, AuthorizeRate, RestartRate
  DEF Next, Handle, Proceed, Do, Process

\* The first hops that a window admitted are made by handlers with places of it.
LEMMA RateInvGives == RateInv => RateSpent
<1> SUFFICES ASSUME RateInv, NEW c \in calls, c.hop = 1, c.seal.policy.rpm > 0
             PROVE  Cardinality({d \in calls : d.hop = 1 /\ d.id = c.id /\ granted[d.h] = granted[c.h]})
                      <= c.seal.policy.rpm
  BY DEF RateSpent
<1> DEFINE S == {d \in calls : d.hop = 1 /\ d.id = c.id /\ granted[d.h] = granted[c.h]}
           T == Places(c.id, granted[c.h])
           f == [d \in S |-> d.h]
<1>1. AtMost(T, c.seal.policy.rpm) /\ c.seal.policy.rpm \in Int
  BY DEF RateInv, Accounted
<1>2. \A d \in S : d.h \in T /\ \A e \in S : e.h = d.h => e = d
  BY DEF RateInv, Accounted, Places, HasPlace, Charged
<1> HIDE DEF S, T
<1>3. f \in Injection(S, T)
  BY <1>2 DEF Injection, IsInjective
<1> HIDE DEF f
<1>4. IsFiniteSet(S) /\ Cardinality(S) <= Cardinality(T)
  BY <1>1, <1>3, FS_Injection DEF AtMost
<1>5. Cardinality(S) \in Nat /\ Cardinality(T) \in Nat /\ Cardinality(T) <= c.seal.policy.rpm
  BY <1>1, <1>4, FS_CardinalityType DEF AtMost
<1>6. Cardinality(S) <= c.seal.policy.rpm
  BY <1>1, <1>4, <1>5
<1> QED
  BY <1>6 DEF S

\* However many handlers run at once, however the clock and the restarts fall and
\* whatever the store file becomes: the requests sent upstream that one limiter
\* window admitted never exceed the rate sealed with the credential (policy.go:
\* Limiter.Allow; pipeline.go: Authorize before Upstream.Do).
THEOREM RateSpentHolds == Spec => []RateSpent
<1>1. Init => RateInv
  <2> SUFFICES ASSUME Init PROVE RateInv
    OBVIOUS
  <2>1. calls = {} /\ \A h \in Handlers : pc[h] \notin Authorized
    BY DEF Init, Authorized
  <2>2. \A id, g : Places(id, g) = {}
    BY <2>1 DEF Places, HasPlace, Charged
  <2>3. ASSUME NEW id \in DOMAIN store PROVE Within(id)
    <3>1. id \in Ids /\ store[id].policy.rpm \in Int
      BY StoresAssumption DEF Init
    <3>2. windows[id].count = 0
      BY <3>1 DEF Init, NoWindow
    <3>3. \A g : \A n \in Nat : AtMost(Places(id, g), n)
      BY <2>2, AtMostEmpty
    <3>4. \A h \in Handlers : ~HasPlace(h, id)
      BY <2>1 DEF HasPlace, Charged
    <3> QED
      BY <3>1, <3>2, <3>3, <3>4 DEF Within
  <2> QED
    BY <2>1, <2>3 DEF RateInv, Current
<1>2. TypeOK => ProcType /\ HandlerType
  BY DEF TypeOK, ProcType, HandlerType, Windows, Replies, Records, Grants
<1>3. ProcType /\ HandlerType /\ Shape /\ SpendInv /\ StoryInv /\ RateInv /\ [Next]_vars => RateInv'
  BY RateStep
<1> QED
  BY <1>1, <1>2, <1>3, TypeHolds, ShapeHolds, SpendInvHolds, StoryInvHolds, RateInvGives, PTL DEF Spec
=============================================================================
