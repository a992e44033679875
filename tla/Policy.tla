------------------------------- MODULE Policy -------------------------------
(***************************************************************************)
(* The decisions of proxy/internal/policy: which host and method a stored  *)
(* policy lets a credential be used for, and the fixed-window arithmetic   *)
(* of the rate limiter.  Everything here is a pure operator; the state     *)
(* that goes with it is in Limiter (alone) and in Pipeline (in context).   *)
(*                                                                         *)
(* A host name is the sequence of its dot-separated labels and a pattern   *)
(* is such a sequence with a flag for a leading "*.".  Case folding is the *)
(* constant function Lower on labels and method names.                     *)
(***************************************************************************)
EXTENDS Integers, Sequences

CONSTANTS Lower,     \* strings.ToLower: a function on labels and methods
          Window     \* time.Minute, in ticks of the model's clock

ASSUME LowerAssumption ==
  \A l \in DOMAIN Lower : Lower[l] \in DOMAIN Lower /\ Lower[Lower[l]] = Lower[l]

ASSUME WindowAssumption == Window \in Nat \ {0}

-----------------------------------------------------------------------------
\* The host and method checks.

LowerHost(host) == [i \in DOMAIN host |-> Lower[host[i]]]

EndsWith(host, labels) ==
  /\ Len(labels) <= Len(host)
  /\ \A i \in 1..Len(labels) : host[Len(host) - Len(labels) + i] = labels[i]

\* "*.x" stands for the suffix ".x" with at least one character before it: the
\* host whose only further label is empty (".x") has none.
MatchHost(pattern, host) ==
  LET p == LowerHost(pattern.labels)
      h == LowerHost(host)
  IN IF pattern.wild
     THEN EndsWith(h, p) /\ Len(h) > Len(p) /\ h # <<"">> \o p
     ELSE p = h

hostAllowed(patterns, host) == \E p \in patterns : MatchHost(p, host)

containsFold(methods, m) == \E x \in methods : Lower[x] = Lower[m]

\* An empty AllowMethods list allows every method.
methodAllowed(methods, m) == methods = {} \/ containsFold(methods, m)

-----------------------------------------------------------------------------
\* The limiter's window of one id.  A nil *window is the one with count 0: a
\* window that exists has counted the request that opened it.

NoWindow == [start |-> 0, count |-> 0]

\* Mutants: a window that ends one tick early, and one tick late.
EarlyWindowOver(w, t) == w.count = 0 \/ t - w.start >= Window - 1
LateWindowOver(w, t) == w.count = 0 \/ t - w.start > Window

WindowOver(w, t) == w.count = 0 \/ t - w.start >= Window

\* Mutant: one request too many fits the window.
LooseAllows(w, rpm, t) == rpm <= 0 \/ WindowOver(w, t) \/ w.count <= rpm

\* Whether Limiter.Allow answers true at time t, and the window it leaves.
Allows(w, rpm, t) == rpm <= 0 \/ WindowOver(w, t) \/ w.count < rpm

\* Mutant: a full window counts the refused request as well.
CountRefused(w, rpm, t) ==
  IF rpm <= 0 THEN w
  ELSE IF WindowOver(w, t) THEN [start |-> t, count |-> 1]
  ELSE [w EXCEPT !.count = @ + 1]

\* Mutant: the new window starts where the old one should have ended.
BackdatedWindow(w, rpm, t) ==
  IF rpm <= 0 THEN w
  ELSE IF WindowOver(w, t) THEN [start |-> t - Window, count |-> 1]
  ELSE IF w.count >= rpm THEN w
  ELSE [w EXCEPT !.count = @ + 1]

AfterAllow(w, rpm, t) ==
  IF rpm <= 0 THEN w
  ELSE IF WindowOver(w, t) THEN [start |-> t, count |-> 1]
  ELSE IF w.count >= rpm THEN w
  ELSE [w EXCEPT !.count = @ + 1]
=============================================================================
