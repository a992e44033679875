-------------------------- MODULE TokenCacheProofs --------------------------
(***************************************************************************)
(* Proofs about TokenCache, for any callers, timeouts, skews and lifetimes *)
(* that TokenAssumption allows.                                            *)
(***************************************************************************)
EXTENDS TokenCache, TLAPS

\* TypeOK in two halves: what the arguments below read, and the truth values.
Shape ==
  /\ now \in 0..MaxTime
  /\ mu \in Callers \cup {NoCaller}
  /\ cached \in [tok : Tokens, expiry : Nat]
  /\ pc \in [Callers -> Stages]
  /\ tok \in [Callers -> Tokens]
  /\ deadline \in [Callers -> Nat]

Flags ==
  /\ impersonates \in BOOLEAN /\ pinned \in BOOLEAN
  /\ live \in [Callers -> BOOLEAN]
  /\ used \in [reached : BOOLEAN, ok : BOOLEAN, stated : BOOLEAN, live : BOOLEAN]

\* Sums of the clock with a timeout or a lifetime are times.
LEMMA Times ==
  ASSUME Shape
  PROVE  /\ now \in Nat /\ now + CallTime \in Nat
         /\ \A ttl \in Int : now + Lifetime(ttl) \in Nat
         /\ \A ttl \in Ttls : [exp |-> now + ttl, ttl |-> ttl] \in Tokens
<1>1. now \in Nat /\ CallTime \in Nat /\ DefaultTtl \in Nat /\ Ttls \subseteq Nat
  BY TokenAssumption DEF Shape
<1> QED
  BY <1>1 DEF Lifetime, Tokens

\* Shape is inductive.
LEMMA ShapeStep == Shape /\ [Next]_vars => Shape'
<1> SUFFICES ASSUME Shape, [Next]_vars PROVE Shape'
  OBVIOUS
<1> USE DEF Shape, Send, Return
<1>0. now \in Nat /\ now + CallTime \in Nat /\ NoToken \in Tokens
  BY Times DEF NoToken, Tokens
<1>s. /\ "idle" \in Stages /\ "lock" \in Stages /\ "attest" \in Stages /\ "sts" \in Stages
      /\ "sts reply" \in Stages /\ "iam" \in Stages /\ "iam reply" \in Stages /\ "kms" \in Stages
  BY DEF Stages, Network, Exchange
<1>1. ASSUME NEW c \in Callers, DecryptDEK(c) PROVE Shape'
  BY <1>1, <1>s DEF DecryptDEK
<1>2. ASSUME NEW c \in Callers, Lock(c) PROVE Shape'
  BY <1>0, <1>2, <1>s DEF Lock
<1>3. ASSUME NEW c \in Callers, Attested(c) PROVE Shape'
  BY <1>0, <1>3, <1>s DEF Attested
<1>4. ASSUME NEW c \in Callers, NEW ttl \in Int, Keep(c, ttl), UNCHANGED <<now, tok>>
      PROVE  Shape'
  <2>1. now + Lifetime(ttl) \in Nat
    BY Times
  <2> QED
    BY <1>0, <1>4, <1>s, <2>1 DEF Keep
<1>5. ASSUME NEW c \in Callers, StsReply(c) PROVE Shape'
  <2>1. tok[c].ttl \in Int
    BY DEF Tokens
  <2>2. CASE Send(c, "iam") /\ UNCHANGED <<now, mu, cached, tok>>
    BY <1>0, <1>s, <2>2
  <2> QED
    BY <1>4, <1>5, <2>1, <2>2 DEF StsReply
<1>6. ASSUME NEW c \in Callers, IamReply(c) PROVE Shape'
  <2>1. (IF tok[c].ttl = 0 THEN DefaultTtl ELSE tok[c].exp - now) \in Int
    BY TokenAssumption DEF Tokens
  <2> QED
    BY <1>4, <1>6, <2>1 DEF IamReply
<1>7. ASSUME NEW c \in Callers, Fails(c) \/ KmsDecides(c) PROVE Shape'
  <2>1. Return(c) /\ UNCHANGED <<now, cached>> /\ mu' \in {mu, NoCaller}
    BY <1>7 DEF Fails, KmsDecides
  <2> QED
    BY <1>0, <1>s, <2>1
<1>8. ASSUME NEW c \in Callers, NEW ttl \in Ttls, StsMints(c, ttl) \/ IamMints(c, ttl)
      PROVE  Shape'
  <2>1. [exp |-> now + ttl, ttl |-> ttl] \in Tokens
    BY Times
  <2> QED
    BY <1>8, <1>s, <2>1 DEF StsMints, IamMints
<1>9. CASE Tick
  BY <1>9, TokenAssumption DEF Tick
<1>10. CASE Repin \/ UNCHANGED vars
  BY <1>10 DEF Repin, vars
<1> QED
  BY <1>1, <1>2, <1>3, <1>5, <1>6, <1>7, <1>8, <1>9, <1>10 DEF Next, Step

\* The client's cache, its mutex and the calls keep their types (gcp.go: accessToken).
THEOREM ShapeHolds == Spec => []Shape
<1>1. Init => Shape
  BY TokenAssumption DEF Init, Shape, Tokens, NoToken, Stages
<1> QED
  BY <1>1, ShapeStep, PTL DEF Spec

\* The truth values stay truth values.
LEMMA FlagsStep == Flags /\ [Next]_vars => Flags'
<1> SUFFICES ASSUME Flags, [Next]_vars PROVE Flags'
  OBVIOUS
<1> USE DEF Flags
<1>1. ASSUME NEW c \in Callers, DecryptDEK(c) PROVE Flags'
  BY <1>1 DEF DecryptDEK
<1>2. ASSUME NEW c \in Callers, Fails(c) PROVE Flags'
  BY <1>2 DEF Fails, Return
<1>3. ASSUME NEW c \in Callers, KmsDecides(c) PROVE Flags'
  BY <1>3 DEF KmsDecides, Return
<1>4. CASE Repin
  BY <1>4 DEF Repin
<1>5. ASSUME UNCHANGED <<impersonates, pinned, live, used>> PROVE Flags'
  BY <1>5
<1> QED
  BY <1>1, <1>2, <1>3, <1>4, <1>5
  DEF Next, Step, Lock, Attested, StsReply, IamReply, StsMints, IamMints, Tick, vars

\* Clock, mutex, cache and callers keep their types (gcp.go: Client).
THEOREM TokenType == Spec => []TypeOK
<1>1. Init => Flags
  BY DEF Init, Flags, Unused
<1>2. Spec => []Flags
  BY <1>1, FlagsStep, PTL DEF Spec
<1>3. Shape /\ Flags => TypeOK
  BY DEF Shape, Flags, TypeOK
<1> QED
  BY <1>2, <1>3, ShapeHolds, PTL

-----------------------------------------------------------------------------
\* A token that cannot be used does not become usable by waiting.
LEMMA TickKeepsUnusable ==
  ASSUME Shape, Tick, ~Usable(cached)
  PROVE  ~Usable(cached)'
<1>1. now \in Nat /\ cached.expiry \in Nat /\ Skew \in Nat /\ now' = now + 1 /\ cached' = cached
  BY TokenAssumption DEF Shape, Tick
<1>2. now < cached.expiry - Skew \/ ~(now' < cached.expiry - Skew)
  BY <1>1
<1> QED
  BY <1>1, <1>2 DEF Usable

\* ExchangeInv is inductive.
LEMMA ExchangeStep == Shape /\ ExchangeInv /\ [Next]_vars => ExchangeInv'
<1> SUFFICES ASSUME Shape, ExchangeInv, [Next]_vars PROVE ExchangeInv'
  OBVIOUS
<1> USE TokenAssumption DEF Shape, ExchangeInv, Exchange
<1>1. ASSUME NEW c \in Callers, DecryptDEK(c) PROVE ExchangeInv'
  BY <1>1 DEF DecryptDEK, Usable
<1>2. ASSUME NEW c \in Callers, Lock(c) PROVE ExchangeInv'
  BY <1>2 DEF Lock, Send, Usable
<1>3. ASSUME NEW c \in Callers, Attested(c) PROVE ExchangeInv'
  BY <1>3 DEF Attested, Send, Usable
<1>4. ASSUME NEW c \in Callers, StsReply(c) PROVE ExchangeInv'
  BY <1>4 DEF StsReply, Keep, Send, Usable
<1>5. ASSUME NEW c \in Callers, IamReply(c) PROVE ExchangeInv'
  BY <1>5 DEF IamReply, Keep, Send, Usable
<1>6. ASSUME NEW c \in Callers, Fails(c) PROVE ExchangeInv'
  BY <1>6 DEF Fails, Return, Usable
<1>7. ASSUME NEW c \in Callers, KmsDecides(c) PROVE ExchangeInv'
  <2>1. pc' = [pc EXCEPT ![c] = "idle"] /\ UNCHANGED <<now, mu, cached>>
    BY <1>7 DEF KmsDecides, Return, Usable
  <2> QED
    BY <2>1 DEF Usable
<1>8. ASSUME NEW c \in Callers, NEW ttl \in Ttls, StsMints(c, ttl) \/ IamMints(c, ttl)
      PROVE  ExchangeInv'
  BY <1>8 DEF StsMints, IamMints, Usable
<1>9. CASE Tick
  <2>1. ~Usable(cached) => ~Usable(cached)'
    BY <1>9, TickKeepsUnusable
  <2> QED
    BY <1>9, <2>1 DEF Tick
<1>10. CASE Repin \/ UNCHANGED vars
  BY <1>10 DEF Repin, vars, Usable
<1> QED
  BY <1>1, <1>2, <1>3, <1>4, <1>5, <1>6, <1>7, <1>8, <1>9, <1>10 DEF Next, Step

\* The exchange runs under the mutex and the cache it will overwrite stays
\* unusable, however many callers wait (gcp.go: accessToken).
THEOREM ExchangeInvHolds == Spec => []ExchangeInv
<1>1. Init => ExchangeInv
  BY DEF Init, ExchangeInv, Exchange
<1> QED
  BY <1>1, ExchangeStep, ShapeHolds, PTL DEF Spec

\* A usable token is never replaced: callers that find the cache empty together
\* make one exchange (gcp.go: the mutex of accessToken, held across it).
THEOREM OneExchangeHolds == Spec => OneExchange
<1>1. ExchangeInv /\ [Next]_vars => [cached' # cached => ~Usable(cached)]_vars
  <2> SUFFICES ASSUME ExchangeInv, Next, cached' # cached PROVE ~Usable(cached)
    OBVIOUS
  <2>1. PICK c \in Callers : StsReply(c) \/ IamReply(c)
    BY DEF Next, Step, DecryptDEK, Lock, Attested, StsMints, IamMints, Fails, KmsDecides,
           Tick, Repin
  <2> QED
    BY <2>1 DEF StsReply, IamReply, ExchangeInv, Exchange
<1> QED
  BY <1>1, ExchangeInvHolds, PTL DEF Spec, OneExchange
-----------------------------------------------------------------------------
\* A step of one caller owes FreshInv its own caller's part, the cache and the
\* last use; time stands still.
LEMMA CallerKeepsFresh ==
  ASSUME FreshInv, NEW c \in Callers, now' = now,
         \A d \in Callers \ {c} :
           pc'[d] = pc[d] /\ tok'[d] = tok[d] /\ deadline'[d] = deadline[d],
         CallFresh(c)', TokenFresh',
         cached'.tok.ttl # 0 => cached'.expiry <= cached'.tok.exp + CallTime
  PROVE  FreshInv'
<1>1. ASSUME NEW d \in Callers, d # c PROVE CallFresh(d)'
  BY <1>1 DEF FreshInv, CallFresh
<1> QED
  BY <1>1 DEF FreshInv

\* The same for a step that leaves the cache and the last use alone.
LEMMA CallerOnly ==
  ASSUME FreshInv, NEW c \in Callers, UNCHANGED <<now, cached, used>>,
         \A d \in Callers \ {c} :
           pc'[d] = pc[d] /\ tok'[d] = tok[d] /\ deadline'[d] = deadline[d],
         CallFresh(c)'
  PROVE  FreshInv'
<1>1. TokenFresh' /\ (cached'.tok.ttl # 0 => cached'.expiry <= cached'.tok.exp + CallTime)
  BY DEF FreshInv, TokenFresh
<1> QED
  BY <1>1, CallerKeepsFresh

\* What the comparisons below compare are numbers.
LEMMA Numbers ==
  ASSUME Shape
  PROVE  /\ now \in Nat /\ CallTime \in Nat /\ Skew \in Nat /\ 2 * CallTime <= Skew
         /\ DOMAIN pc = Callers /\ DOMAIN tok = Callers /\ DOMAIN deadline = Callers
         /\ \A c \in Callers : /\ tok[c] \in Tokens /\ tok[c].ttl \in Nat /\ tok[c].exp \in Nat
                               /\ deadline[c] \in Nat
         /\ cached.tok \in Tokens /\ cached.tok.exp \in Nat /\ cached.expiry \in Nat
BY TokenAssumption DEF Shape, Tokens

\* A reply read within its timeout leaves a token alive for another call.
LEMMA ReplyArith ==
  ASSUME NEW n \in Nat, NEW t \in Nat, NEW d \in Nat, NEW ttl \in Nat, NEW e \in Nat,
         n <= d, d + ttl <= e + t
  PROVE  n + ttl <= e + t /\ (ttl > 2 * t => n + t < e)
OBVIOUS

\* A deadline lies ahead of the clock.
LEMMA DeadlineArith ==
  ASSUME NEW n \in Nat, NEW t \in Nat
  PROVE  n <= n + t /\ n + t <= n + t
OBVIOUS

\* A call that goes out is within its deadline.
LEMMA SendOpens ==
  ASSUME Shape, NEW c \in Callers, NEW stage, Send(c, stage), now' = now,
         stage \notin {"sts reply", "iam reply"},
         stage = "kms" /\ tok'[c].ttl # 0 => now + CallTime < tok'[c].exp
  PROVE  CallFresh(c)'
<1>1. pc'[c] = stage /\ deadline'[c] = now + CallTime
  BY Numbers, Zenon DEF Send
<1>2. now' <= deadline'[c] /\ deadline'[c] <= now' + CallTime
  BY <1>1, Numbers, DeadlineArith, Zenon
<1> QED
  BY <1>1, <1>2 DEF CallFresh

\* The arithmetic of a reply: it is read within one timeout of the minting, so a
\* stated lifetime still has more than one timeout to go.
LEMMA ReplyLeavesTime ==
  ASSUME Shape, NEW c \in Callers, CallFresh(c), pc[c] \in {"sts reply", "iam reply"}
  PROVE  /\ now + tok[c].ttl <= tok[c].exp + CallTime
         /\ tok[c].ttl # 0 => now + CallTime < tok[c].exp
<1>1. /\ now \in Nat /\ CallTime \in Nat /\ tok[c].ttl \in Nat /\ tok[c].exp \in Nat
      /\ deadline[c] \in Nat
  BY Numbers, Zenon
<1>2. pc[c] \in Network
  BY DEF Network, Exchange
<1>3. /\ now <= deadline[c] /\ deadline[c] + tok[c].ttl <= tok[c].exp + CallTime
      /\ tok[c].ttl \in Ttls
  BY <1>2 DEF CallFresh
<1>4. tok[c].ttl = 0 \/ tok[c].ttl > 2 * CallTime
  BY <1>3, TokenAssumption
<1> QED
  BY <1>1, <1>3, <1>4, ReplyArith, Zenon

\* FreshInv is inductive.
LEMMA FreshStep == Shape /\ FreshInv /\ [Next]_vars => FreshInv'
<1> SUFFICES ASSUME Shape, FreshInv, [Next]_vars PROVE FreshInv'
  OBVIOUS
<1>0. /\ now \in Nat /\ CallTime \in Nat /\ Skew \in Nat /\ 2 * CallTime <= Skew
      /\ \A c \in Callers : tok[c] \in Tokens /\ deadline[c] \in Nat /\ CallFresh(c)
      /\ DOMAIN pc = Callers /\ DOMAIN tok = Callers /\ DOMAIN deadline = Callers
      /\ cached.tok \in Tokens /\ cached.expiry \in Nat
  BY Numbers DEF FreshInv
<1>1. ASSUME NEW c \in Callers, DecryptDEK(c) PROVE FreshInv'
  <2>1. CallFresh(c)'
    BY <1>0, <1>1 DEF DecryptDEK, CallFresh, Network, Exchange
  <2> QED
    BY <1>0, <1>1, <2>1, CallerOnly DEF DecryptDEK
<1>2. ASSUME NEW c \in Callers, Lock(c) PROVE FreshInv'
  <2>1. CASE Usable(cached)
    <3>1. tok'[c] = cached.tok /\ Send(c, "kms") /\ UNCHANGED <<now, cached, used>>
      BY <1>0, <1>2, <2>1 DEF Lock
    <3>2. cached.tok.ttl # 0 => now + CallTime < cached.tok.exp
      <4>1. now < cached.expiry - Skew
        BY <2>1 DEF Usable
      <4>2. cached.tok.exp \in Nat
        BY <1>0 DEF Tokens
      <4>3. cached.tok.ttl # 0 => cached.expiry <= cached.tok.exp + CallTime
        BY DEF FreshInv
      <4> QED
        BY <1>0, <4>1, <4>2, <4>3
    <3>3. CallFresh(c)'
      BY <3>1, <3>2, SendOpens
    <3> QED
      BY <1>0, <1>2, <2>1, <3>1, <3>3, CallerOnly DEF Lock, Send
  <2>2. CASE ~Usable(cached)
    <3>1. CallFresh(c)'
      BY <1>2, <2>2, SendOpens DEF Lock
    <3> QED
      BY <1>0, <1>2, <2>2, <3>1, CallerOnly DEF Lock, Send
  <2> QED
    BY <2>1, <2>2
<1>3. ASSUME NEW c \in Callers, Attested(c) PROVE FreshInv'
  <2>1. CallFresh(c)'
    BY <1>3, SendOpens DEF Attested
  <2> QED
    BY <1>0, <1>3, <2>1, CallerOnly DEF Attested, Send
<1>4. ASSUME NEW c \in Callers, NEW ttl \in Ttls, StsMints(c, ttl) \/ IamMints(c, ttl)
      PROVE  FreshInv'
  <2>0. tok'[c] = [exp |-> now + ttl, ttl |-> ttl]
    BY <1>0, <1>4 DEF StsMints, IamMints
  <2>1. /\ pc[c] \in {"sts", "iam"} /\ pc'[c] \in {"sts reply", "iam reply"}
        /\ UNCHANGED <<now, cached, used, deadline>>
        /\ \A d \in Callers \ {c} : pc'[d] = pc[d] /\ tok'[d] = tok[d]
    BY <1>0, <1>4 DEF StsMints, IamMints
  <2>2. now <= deadline[c] /\ deadline[c] <= now + CallTime
    BY <1>0, <2>1 DEF CallFresh, Network, Exchange
  <2>3. ttl \in Nat
    BY TokenAssumption
  <2>4. deadline[c] + ttl <= (now + ttl) + CallTime
    BY <1>0, <2>2, <2>3
  <2>5. tok'[c].exp = now + ttl /\ tok'[c].ttl = ttl
    BY <2>0
  <2>6. CallFresh(c)'
    BY <2>1, <2>2, <2>4, <2>5 DEF CallFresh
  <2> QED
    BY <2>1, <2>6, CallerOnly
<1>5. ASSUME NEW c \in Callers, NEW ttl \in Int, Keep(c, ttl), UNCHANGED <<now, tok, used>>,
             tok[c].ttl # 0 => /\ now + CallTime < tok[c].exp
                               /\ now + Lifetime(ttl) <= tok[c].exp + CallTime
      PROVE  FreshInv'
  <2>1. CallFresh(c)'
    BY <1>5, SendOpens DEF Keep
  <2>2. cached'.tok.ttl # 0 => cached'.expiry <= cached'.tok.exp + CallTime
    BY <1>5 DEF Keep
  <2>3. TokenFresh'
    BY <1>5 DEF FreshInv, TokenFresh
  <2> QED
    BY <1>0, <1>5, <2>1, <2>2, <2>3, CallerKeepsFresh DEF Keep, Send
<1>6. ASSUME NEW c \in Callers, StsReply(c) PROVE FreshInv'
  <2>1. CASE Send(c, "iam") /\ UNCHANGED <<mu, cached>>
    <3>1. CallFresh(c)'
      BY <1>6, <2>1, SendOpens DEF StsReply
    <3> QED
      BY <1>0, <1>6, <2>1, <3>1, CallerOnly DEF StsReply, Send
  <2>2. CASE Keep(c, tok[c].ttl)
    <3>1. tok[c].ttl \in Nat
      BY <1>0 DEF Tokens
    <3>2. /\ now + tok[c].ttl <= tok[c].exp + CallTime
          /\ tok[c].ttl # 0 => now + CallTime < tok[c].exp
      BY <1>0, <1>6, ReplyLeavesTime DEF StsReply
    <3>3. tok[c].ttl # 0 => Lifetime(tok[c].ttl) = tok[c].ttl
      BY <3>1 DEF Lifetime
    <3>4. tok[c].ttl # 0 => /\ now + CallTime < tok[c].exp
                            /\ now + Lifetime(tok[c].ttl) <= tok[c].exp + CallTime
      BY <3>2, <3>3, Zenon
    <3>5. tok[c].ttl \in Int
      BY <3>1
    <3> QED
      BY <1>5, <1>6, <2>2, <3>4, <3>5, Zenon DEF StsReply
  <2> QED
    BY <1>6, <2>1, <2>2 DEF StsReply
<1>7. ASSUME NEW c \in Callers, IamReply(c) PROVE FreshInv'
  <2> DEFINE rest == IF tok[c].ttl = 0 THEN DefaultTtl ELSE tok[c].exp - now
  <2>1. tok[c].exp \in Nat /\ rest \in Int
    BY <1>0, TokenAssumption DEF Tokens
  <2>2. tok[c].ttl # 0 => now + CallTime < tok[c].exp
    BY <1>0, <1>7, ReplyLeavesTime DEF IamReply
  <2>3. tok[c].ttl # 0 => now + Lifetime(rest) = tok[c].exp
    BY <1>0, <2>1, <2>2 DEF Lifetime
  <2>4. Keep(c, rest) /\ UNCHANGED <<now, tok, used>>
    BY <1>7 DEF IamReply
  <2>5. tok[c].ttl # 0 => now + Lifetime(rest) <= tok[c].exp + CallTime
    BY <1>0, <2>1, <2>3
  <2> HIDE DEF rest
  <2> QED
    BY <1>5, <2>1, <2>2, <2>4, <2>5
<1>8. ASSUME NEW c \in Callers, Fails(c) PROVE FreshInv'
  <2>1. CallFresh(c)'
    BY <1>0, <1>8 DEF Fails, Return, CallFresh, Network, Exchange
  <2> QED
    BY <1>0, <1>8, <2>1, CallerOnly DEF Fails, Return
<1>9. ASSUME NEW c \in Callers, KmsDecides(c) PROVE FreshInv'
  <2>1. /\ pc[c] = "kms" /\ UNCHANGED <<now, cached>> /\ Return(c)
        /\ used' = [reached |-> TRUE, ok |-> tok[c].ttl = 0 \/ now < tok[c].exp,
                    stated |-> tok[c].ttl # 0, live |-> live[c]]
    BY <1>9 DEF KmsDecides
  <2>2. tok[c].ttl # 0 => now < tok[c].exp
    <3>1. now <= deadline[c] /\ (tok[c].ttl # 0 => deadline[c] < tok[c].exp)
      BY <1>0, <2>1 DEF CallFresh, Network
    <3>2. tok[c].exp \in Nat
      BY <1>0 DEF Tokens
    <3> QED
      BY <1>0, <3>1, <3>2
  <2>3. TokenFresh'
    BY <2>1, <2>2, Zenon DEF TokenFresh
  <2>4. CallFresh(c)'
    BY <1>0, <2>1 DEF Return, CallFresh, Network, Exchange
  <2>5. cached'.tok.ttl # 0 => cached'.expiry <= cached'.tok.exp + CallTime
    BY <2>1 DEF FreshInv
  <2> QED
    BY <1>0, <2>1, <2>3, <2>4, <2>5, CallerKeepsFresh DEF Return
<1>10. CASE Tick
  <2>1. now' = now + 1 /\ UNCHANGED <<cached, pc, tok, deadline, used>>
    BY <1>10 DEF Tick
  <2>2. ASSUME NEW c \in Callers PROVE CallFresh(c)'
    <3>1. pc[c] \in Network => now + 1 <= deadline[c] /\ deadline[c] <= (now + 1) + CallTime
      <4> SUFFICES ASSUME pc[c] \in Network
                   PROVE  now + 1 <= deadline[c] /\ deadline[c] <= (now + 1) + CallTime
        OBVIOUS
      <4>1. now < deadline[c] /\ deadline[c] <= now + CallTime
        BY <1>0, <1>10 DEF Tick, CallFresh
      <4> QED
        BY <1>0, <4>1
    <3>2. CallFresh(c)
      BY <1>0
    <3> QED
      BY <2>1, <3>1, <3>2 DEF CallFresh
  <2> QED
    BY <2>1, <2>2 DEF FreshInv, TokenFresh
<1>11. CASE Repin \/ UNCHANGED vars
  BY <1>11 DEF Repin, vars, FreshInv, CallFresh, TokenFresh
<1> QED
  BY <1>1, <1>2, <1>3, <1>4, <1>6, <1>7, <1>8, <1>9, <1>10, <1>11 DEF Next, Step

\* A token whose lifetime was stated is still valid when the call that carries it
\* reaches KMS, for every timeout and every skew of at least two of them (gcp.go:
\* tokenRefreshSkew, accessToken, DecryptDEK).
THEOREM TokenFreshHolds == Spec => []TokenFresh
<1>1. Init => FreshInv
  BY DEF Init, FreshInv, CallFresh, TokenFresh, Unused, NoToken, Network, Exchange
<1>2. Spec => []FreshInv
  BY <1>1, FreshStep, ShapeHolds, PTL DEF Spec
<1>3. FreshInv => TokenFresh
  BY DEF FreshInv
<1> QED
  BY <1>2, <1>3, PTL
=============================================================================
