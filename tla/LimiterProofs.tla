--------------------------- MODULE LimiterProofs ----------------------------
(***************************************************************************)
(* Proofs about Limiter, for every set of ids, every assignment of rates   *)
(* and every window length.                                                *)
(***************************************************************************)
EXTENDS Limiter, TLAPS

\* Whatever branch Limiter.Allow takes, it leaves a window behind (policy.go).
LEMMA AfterAllowType ==
  ASSUME NEW w \in [start : Nat, count : Nat], NEW rpm \in Int, NEW t \in Nat
  PROVE  AfterAllow(w, rpm, t) \in [start : Nat, count : Nat]
<1>1. w.start \in Nat /\ w.count \in Nat
  OBVIOUS
<1>2. [start |-> t, count |-> 1] \in [start : Nat, count : Nat]
  OBVIOUS
<1>3. [w EXCEPT !.count = @ + 1] \in [start : Nat, count : Nat]
  BY <1>1
<1> QED
  BY <1>2, <1>3, Zenon DEF AfterAllow

\* The limiter's state keeps its type: the clock, a window and a grant history
\* per id, the last answer (policy.go: Limiter, window).
THEOREM LimiterType == Spec => []TypeOK
<1>1. Init => TypeOK
  BY MaxTimeAssumption DEF Init, TypeOK, NoWindow, Answers
<1>2. TypeOK /\ [Next]_vars => TypeOK'
  <2> SUFFICES ASSUME TypeOK, [Next]_vars PROVE TypeOK'
    OBVIOUS
  <2> USE MaxTimeAssumption DEF TypeOK
  <2>1. CASE Tick
    BY <2>1 DEF Tick, Answers
  <2>2. ASSUME NEW id \in Ids, Allow(id) PROVE TypeOK'
    <3>0. windows[id] \in [start : Nat, count : Nat] /\ now \in Nat /\ Rpm[id] \in Int
      BY RpmAssumption
    <3>1. AfterAllow(windows[id], Rpm[id], now) \in [start : Nat, count : Nat]
      BY <3>0, AfterAllowType
    <3>2. windows' \in [Ids -> [start : Nat, count : Nat]]
      BY <2>2, <3>1 DEF Allow
    <3>3. grants' \in [Ids -> Seq(Nat)]
      BY <2>2 DEF Allow
    <3>4. Allows(windows[id], Rpm[id], now) \in BOOLEAN
      BY RpmAssumption DEF Allows, WindowOver
    <3>5. answer' \in Answers
      BY <2>2, <3>4 DEF Allow, Answers
    <3> QED
      BY <2>2, <3>2, <3>3, <3>5 DEF Allow
  <2>3. CASE UNCHANGED vars
    BY <2>3 DEF vars
  <2> QED
    BY <2>1, <2>2, <2>3 DEF Next
<1> QED
  BY <1>1, <1>2, PTL DEF Spec

-----------------------------------------------------------------------------
\* The request that opens a window is recorded as its first (policy.go: the
\* branch of Limiter.Allow that creates a window).
LEMMA OpenWindow ==
  ASSUME NEW g \in Seq(Nat), NEW s \in Nat, NEW c \in Nat, NEW r \in Nat, NEW t \in Nat,
         r > 0, History(g, s, c, r, t), c = 0 \/ t - s >= Window
  PROVE  History(Append(g, t), t, 1, r, t)
<1> DEFINE n == Len(g)
           h == Append(g, t)
<1>1. n \in Nat /\ Window \in Nat /\ h \in Seq(Nat)
  BY WindowAssumption
<1>2. Len(h) = n + 1 /\ h[n + 1] = t /\ \A i \in 1..n : h[i] = g[i] /\ g[i] \in Nat
  OBVIOUS
<1>3. /\ \A i \in 1..n : g[i] <= t
      /\ \A i, j \in 1..n : i <= j => g[i] <= g[j]
  BY DEF History
<1>4. /\ \A i \in 1..Len(h) : h[i] <= t
      /\ \A i, j \in 1..Len(h) : i <= j => h[i] <= h[j]
  <2>1. ASSUME NEW i \in 1..Len(h) PROVE i \in 1..n \/ i = n + 1
    BY <1>1, <1>2
  <2>2. ASSUME NEW i \in 1..Len(h) PROVE h[i] <= t
    BY <1>2, <1>3, <2>1
  <2>3. ASSUME NEW i \in 1..Len(h), NEW j \in 1..Len(h), i <= j PROVE h[i] <= h[j]
    <3>1. CASE j = n + 1
      BY <1>2, <2>2, <3>1
    <3>2. CASE j \in 1..n
      <4>1. i \in 1..n
        BY <1>1, <2>3, <3>2, <2>1
      <4> QED
        BY <1>2, <1>3, <2>3, <3>2, <4>1
    <3> QED
      BY <2>1, <3>1, <3>2
  <2> QED
    BY <2>2, <2>3
<1>5. ASSUME NEW i \in 1..Len(h), i + r <= n + 1
      PROVE  h[i] + Window <= t
  <2>1. i \in 1..n
    BY <1>1, <1>2, <1>5
  <2>2. c > 0
    BY <2>1 DEF History
  <2>3. c <= r /\ c <= n /\ g[n - c + 1] = s
    BY <2>2 DEF History
  <2>4. n - c + 1 \in 1..n /\ i <= n - c + 1
    BY <1>1, <1>5, <2>1, <2>2, <2>3
  <2>5. g[i] <= s
    BY <1>3, <2>1, <2>3, <2>4
  <2>6. h[i] = g[i] /\ g[i] \in Nat
    BY <1>2, <2>1
  <2> QED
    BY <1>1, <2>2, <2>5, <2>6
<1> QED
  BY <1>1, <1>2, <1>4, <1>5 DEF History

\* A request that fits the window joins it (policy.go: w.count++).
LEMMA FillWindow ==
  ASSUME NEW g \in Seq(Nat), NEW s \in Nat, NEW c \in Nat, NEW r \in Nat, NEW t \in Nat,
         r > 0, History(g, s, c, r, t), 0 < c, c < r
  PROVE  History(Append(g, t), s, c + 1, r, t)
<1> DEFINE n == Len(g)
           h == Append(g, t)
<1>1. n \in Nat /\ Window \in Nat /\ h \in Seq(Nat)
  BY WindowAssumption
<1>2. Len(h) = n + 1 /\ h[n + 1] = t /\ \A i \in 1..n : h[i] = g[i] /\ g[i] \in Nat
  OBVIOUS
<1>3. /\ \A i \in 1..n : g[i] <= t
      /\ \A i, j \in 1..n : i <= j => g[i] <= g[j]
      /\ c <= n /\ g[n - c + 1] = s
      /\ \A i \in 1..n : i + r <= n - c + 1 => g[i] + Window <= s
  BY DEF History
<1>4. /\ \A i \in 1..Len(h) : h[i] <= t
      /\ \A i, j \in 1..Len(h) : i <= j => h[i] <= h[j]
  <2>1. ASSUME NEW i \in 1..Len(h) PROVE i \in 1..n \/ i = n + 1
    BY <1>1, <1>2
  <2>2. ASSUME NEW i \in 1..Len(h) PROVE h[i] <= t
    BY <1>2, <1>3, <2>1
  <2>3. ASSUME NEW i \in 1..Len(h), NEW j \in 1..Len(h), i <= j PROVE h[i] <= h[j]
    <3>1. CASE j = n + 1
      BY <1>2, <2>2, <3>1
    <3>2. CASE j \in 1..n
      <4>1. i \in 1..n
        BY <1>1, <2>3, <3>2, <2>1
      <4> QED
        BY <1>2, <1>3, <2>3, <3>2, <4>1
    <3> QED
      BY <2>1, <3>1, <3>2
  <2> QED
    BY <2>2, <2>3
<1>5. n - c + 1 \in 1..n /\ Len(h) - (c + 1) + 1 = n - c + 1
  BY <1>1, <1>2, <1>3
<1>6. ASSUME NEW i \in 1..Len(h), i + r <= n - c + 1
      PROVE  h[i] + Window <= s
  <2>1. i \in 1..n
    BY <1>1, <1>2, <1>6
  <2> QED
    BY <1>2, <1>3, <1>6, <2>1
<1>7. h[n - c + 1] = s
  BY <1>2, <1>3, <1>5
<1>8. c + 1 <= r /\ c + 1 <= n + 1 /\ c + 1 > 0
  BY <1>1, <1>3
<1>9. h[Len(h) - (c + 1) + 1] = s
  BY <1>5, <1>7
<1>10. \A i \in 1..Len(h) : i + r <= Len(h) - (c + 1) + 1 => h[i] + Window <= s
  BY <1>5, <1>6
<1> QED
  BY <1>2, <1>4, <1>8, <1>9, <1>10 DEF History

\* The passing of time does not disturb a history.
LEMMA LaterHistory ==
  ASSUME NEW g \in Seq(Nat), NEW s, NEW c, NEW r, NEW t \in Nat, NEW u \in Nat,
         t <= u, History(g, s, c, r, t)
  PROVE  History(g, s, c, r, u)
<1>1. \A i \in 1..Len(g) : g[i] \in Nat /\ g[i] <= t
  BY DEF History
<1>2. \A i \in 1..Len(g) : g[i] <= u
  BY <1>1
<1> QED
  BY <1>2 DEF History

\* One more grant keeps the spread: the new entry is not older than its window,
\* and the entry 2*rpm - 1 places before it is a window older than that.
LEMMA SpreadStep ==
  ASSUME NEW g \in Seq(Nat), NEW s \in Nat, NEW c \in Nat, NEW r \in Nat, NEW t \in Nat,
         r > 0, Spread(g, r), c > 0, History(Append(g, t), s, c, r, t)
  PROVE  Spread(Append(g, t), r)
<1> DEFINE n == Len(g)
           h == Append(g, t)
<1>1. n \in Nat /\ Window \in Nat /\ h \in Seq(Nat)
  BY WindowAssumption
<1>2. Len(h) = n + 1 /\ h[n + 1] = t /\ \A i \in 1..n : h[i] = g[i] /\ g[i] \in Nat
  OBVIOUS
<1>3. /\ c <= r /\ c <= n + 1 /\ h[n + 1 - c + 1] = s
      /\ \A i \in 1..(n + 1) : h[i] <= t
      /\ \A i \in 1..(n + 1) : i + r <= n + 1 - c + 1 => h[i] + Window <= s
  BY <1>2 DEF History
<1>4. \A i \in 1..n : i + 2 * r - 1 <= n => g[i + 2 * r - 1] - g[i] >= Window
  BY DEF Spread
<1> HIDE DEF h, n
<1>5. ASSUME NEW i \in 1..(n + 1), i + 2 * r - 1 <= n + 1
      PROVE  h[i + 2 * r - 1] - h[i] >= Window
  <2>1. CASE i + 2 * r - 1 <= n
    <3>1. i \in 1..n /\ i + 2 * r - 1 \in 1..n
      BY <1>1, <2>1
    <3> QED
      BY <1>2, <1>4, <2>1, <3>1
  <2>2. CASE i + 2 * r - 1 = n + 1
    <3>1. n + 1 - c + 1 \in 1..(n + 1)
      BY <1>1, <1>3
    <3>2. s <= t
      BY <1>3, <3>1
    <3>3. i + r <= n + 1 - c + 1
      BY <1>1, <1>3, <2>2
    <3>4. h[i] \in Nat
      BY <1>1, <1>2
    <3>5. h[i] + Window <= s
      BY <1>3, <3>3
    <3>6. h[i + 2 * r - 1] = t
      BY <1>2, <2>2
    <3> QED
      BY <1>1, <3>2, <3>4, <3>5, <3>6
  <2> QED
    BY <1>1, <1>5, <2>1, <2>2
<1> QED
  BY <1>1, <1>2, <1>5 DEF Spread, h, n

-----------------------------------------------------------------------------
\* What one call does to the window and the history of the id it is about.
LEMMA AllowCases ==
  ASSUME TypeOK, NEW id \in Ids, Allow(id), Metered(id)
  PROVE  LET g == grants[id]
             s == windows[id].start
             c == windows[id].count
         IN \/ /\ c = 0 \/ now - s >= Window
               /\ grants'[id] = Append(g, now)
               /\ windows'[id].start = now /\ windows'[id].count = 1
            \/ /\ 0 < c /\ c < Rpm[id]
               /\ grants'[id] = Append(g, now)
               /\ windows'[id].start = s /\ windows'[id].count = c + 1
            \/ /\ grants'[id] = g
               /\ windows'[id] = windows[id]
<1> DEFINE w == windows[id]
           r == Rpm[id]
<1>1. w \in [start : Nat, count : Nat] /\ now \in Nat /\ r \in Nat /\ r > 0
  BY RpmAssumption, MaxTimeAssumption DEF TypeOK, Metered
<1>2. windows'[id] = AfterAllow(w, r, now)
  BY DEF Allow, TypeOK
<1>3. grants'[id] = IF Allows(w, r, now) THEN Append(grants[id], now) ELSE grants[id]
  BY DEF Allow, TypeOK
<1> HIDE DEF w, r
<1>4. CASE WindowOver(w, now)
  <2>1. AfterAllow(w, r, now) = [start |-> now, count |-> 1] /\ Allows(w, r, now)
    BY <1>1, <1>4 DEF AfterAllow, Allows
  <2>2. w.count = 0 \/ now - w.start >= Window
    BY <1>4 DEF WindowOver
  <2> QED
    BY <1>2, <1>3, <2>1, <2>2 DEF w
<1>5. CASE ~WindowOver(w, now) /\ w.count < r
  <2>1. AfterAllow(w, r, now) = [w EXCEPT !.count = @ + 1] /\ Allows(w, r, now)
    BY <1>1, <1>5 DEF AfterAllow, Allows
  <2>2. AfterAllow(w, r, now).start = w.start /\ AfterAllow(w, r, now).count = w.count + 1
    BY <1>1, <2>1
  <2>3. 0 < w.count
    BY <1>1, <1>5 DEF WindowOver
  <2> QED
    BY <1>2, <1>3, <1>5, <2>1, <2>2, <2>3 DEF w, r
<1>6. CASE ~WindowOver(w, now) /\ ~(w.count < r)
  <2>1. AfterAllow(w, r, now) = w /\ ~Allows(w, r, now)
    BY <1>1, <1>6 DEF AfterAllow, Allows
  <2> QED
    BY <1>2, <1>3, <2>1 DEF w
<1> QED
  BY <1>4, <1>5, <1>6

IInv == TypeOK /\ WindowInv /\ SlidingBound

\* IInv is inductive.
LEMMA IInvStep == IInv /\ TypeOK' /\ [Next]_vars => WindowInv' /\ SlidingBound'
<1> SUFFICES ASSUME IInv, TypeOK', [Next]_vars, NEW id \in Ids
             PROVE  /\ Metered(id) =>
                         /\ History(grants'[id], windows'[id].start, windows'[id].count,
                                    Rpm[id], now')
                         /\ Spread(grants'[id], Rpm[id])
                    /\ ~Metered(id) => windows'[id].count = 0
  BY DEF WindowInv, SlidingBound, Metered
<1> DEFINE g == grants[id]
           s == windows[id].start
           c == windows[id].count
           r == Rpm[id]
<1>1. /\ now \in Nat /\ now' \in Nat /\ g \in Seq(Nat) /\ s \in Nat /\ c \in Nat
      /\ r \in Int
  BY MaxTimeAssumption, RpmAssumption DEF IInv, TypeOK
<1>2. Metered(id) => r \in Nat /\ r > 0 /\ History(g, s, c, r, now) /\ Spread(g, r)
  BY <1>1 DEF IInv, WindowInv, SlidingBound, Metered
<1>3. ~Metered(id) => c = 0
  BY DEF IInv, WindowInv
<1>4. ASSUME now <= now', grants'[id] = g, windows'[id] = windows[id]
      PROVE  /\ Metered(id) =>
                  /\ History(grants'[id], windows'[id].start, windows'[id].count, r, now')
                  /\ Spread(grants'[id], r)
             /\ ~Metered(id) => windows'[id].count = 0
  BY <1>1, <1>2, <1>3, <1>4, LaterHistory
<1>5. CASE Tick \/ UNCHANGED vars
  BY <1>1, <1>4, <1>5 DEF Tick, vars
<1>6. ASSUME NEW k \in Ids, Allow(k), k # id
      PROVE  now <= now' /\ grants'[id] = g /\ windows'[id] = windows[id]
  BY <1>1, <1>6 DEF Allow, IInv, TypeOK
<1>7. CASE Allow(id) /\ ~Metered(id)
  <2>1. windows'[id] = windows[id]
    BY <1>1, <1>7 DEF Allow, AfterAllow, Metered, IInv, TypeOK
  <2> QED
    BY <1>3, <1>7, <2>1
<1>8. CASE Allow(id) /\ Metered(id)
  <2>0. now' = now /\ TypeOK
    BY <1>8 DEF Allow, IInv
  <2>1. CASE /\ c = 0 \/ now - s >= Window
             /\ grants'[id] = Append(g, now)
             /\ windows'[id].start = now /\ windows'[id].count = 1
    <3>1. History(Append(g, now), now, 1, r, now)
      BY <1>1, <1>2, <1>8, <2>1, OpenWindow
    <3>2. Spread(Append(g, now), r)
      BY <1>1, <1>2, <1>8, <3>1, SpreadStep
    <3> QED
      BY <1>8, <2>0, <2>1, <3>1, <3>2
  <2>2. CASE /\ 0 < c /\ c < r
             /\ grants'[id] = Append(g, now)
             /\ windows'[id].start = s /\ windows'[id].count = c + 1
    <3>1. History(Append(g, now), s, c + 1, r, now)
      BY <1>1, <1>2, <1>8, <2>2, FillWindow
    <3>2. Spread(Append(g, now), r)
      <4>1. c + 1 \in Nat /\ c + 1 > 0
        BY <1>1
      <4> QED
        BY <1>1, <1>2, <1>8, <3>1, <4>1, SpreadStep
    <3> QED
      BY <1>8, <2>0, <2>2, <3>1, <3>2
  <2>3. CASE grants'[id] = g /\ windows'[id] = windows[id]
    BY <1>1, <1>4, <2>0, <2>3
  <2> QED
    BY <1>8, <2>0, <2>1, <2>2, <2>3, AllowCases
<1> QED
  BY <1>4, <1>5, <1>6, <1>7, <1>8 DEF Next

\* The window invariant that the run checks holds in every behaviour, for all
\* ids, rates and window lengths (policy.go: Limiter.Allow).
THEOREM WindowInvariance == Spec => [](WindowInv /\ SlidingBound)
<1>1. Init => WindowInv /\ SlidingBound
  BY DEF Init, WindowInv, History, SlidingBound, Spread, NoWindow
<1>2. TypeOK /\ (WindowInv /\ SlidingBound) /\ TypeOK' /\ [Next]_vars
        => (WindowInv /\ SlidingBound)'
  BY IInvStep DEF IInv
<1> QED
  BY <1>1, <1>2, LimiterType, PTL DEF Spec

\* Over any stretch of time shorter than the window an id is granted at most
\* 2*rpm - 1 requests: 2*rpm consecutive grants span a full window.
THEOREM SlidingBoundHolds == Spec => []SlidingBound
  BY WindowInvariance, PTL

-----------------------------------------------------------------------------
\* The grants of a full window are the last rpm ones of the id.
LEMMA FullWindow ==
  ASSUME NEW g \in Seq(Nat), NEW s \in Nat, NEW c \in Nat, NEW r \in Nat, NEW t \in Nat,
         r > 0, c >= r, History(g, s, c, r, t)
  PROVE  r <= Len(g) /\ g[Len(g) - r + 1] = s
<1>1. c > 0
  OBVIOUS
<1>2. c <= r /\ c <= Len(g) /\ g[Len(g) - c + 1] = s
  BY <1>1 DEF History
<1>3. c = r
  BY <1>2
<1> QED
  BY <1>2, <1>3

\* A call that is refused finds its window full and open, and the window's grants
\* are the last rpm ones of the id (policy.go: w.count >= rpm in Limiter.Allow).
LEMMA RefusedCall ==
  ASSUME TypeOK, WindowInv, NEW id \in Ids, Allow(id), ~answer'.ok
  PROVE  RefusalEarned'
<1> DEFINE g == grants[id]
           w == windows[id]
           r == Rpm[id]
<1>1. w \in [start : Nat, count : Nat] /\ now \in Nat /\ r \in Int /\ g \in Seq(Nat)
  BY RpmAssumption, MaxTimeAssumption DEF TypeOK
<1>2. answer' = [called |-> TRUE, id |-> id, ok |-> Allows(w, r, now)] /\ now' = now
  BY DEF Allow
<1>3. ~Allows(w, r, now) /\ answer'.id = id
  BY <1>2
<1>4. r > 0 /\ w.count # 0 /\ w.count >= r /\ now - w.start < Window
  BY <1>1, <1>3, WindowAssumption DEF Allows, WindowOver
<1>5. grants' = grants
  BY <1>3 DEF Allow
<1>6. History(g, w.start, w.count, r, now)
  BY <1>4 DEF WindowInv, Metered
<1>7. r <= Len(g) /\ g[Len(g) - r + 1] = w.start
  <2>1. r \in Nat /\ w.start \in Nat /\ w.count \in Nat
    BY <1>1, <1>4
  <2> HIDE DEF g, w, r
  <2> QED
    BY <1>1, <1>4, <1>6, <2>1, FullWindow
<1> QED
  BY <1>2, <1>3, <1>4, <1>5, <1>7 DEF RefusalEarned

\* No caller that keeps below its rate is refused, for all ids, rates and window
\* lengths: a refusal has rpm grants of the last minute behind it (policy.go:
\* Limiter.Allow).
THEOREM RefusalEarnedHolds == Spec => []RefusalEarned
<1>1. Init => RefusalEarned
  BY DEF Init, NoAnswer, RefusalEarned
<1>2. TypeOK /\ (WindowInv /\ SlidingBound) /\ RefusalEarned /\ [Next]_vars => RefusalEarned'
  <2> SUFFICES ASSUME TypeOK, WindowInv, RefusalEarned, [Next]_vars PROVE RefusalEarned'
    OBVIOUS
  <2>1. CASE Tick
    BY <2>1 DEF Tick, NoAnswer, RefusalEarned
  <2>2. ASSUME NEW id \in Ids, Allow(id) PROVE RefusalEarned'
    <3>1. CASE answer'.ok
      BY <3>1 DEF RefusalEarned
    <3>2. CASE ~answer'.ok
      BY <2>2, <3>2, RefusedCall
    <3> QED
      BY <3>1, <3>2
  <2>3. CASE UNCHANGED vars
    BY <2>3 DEF vars, RefusalEarned
  <2> QED
    BY <2>1, <2>2, <2>3 DEF Next
<1> QED
  BY <1>1, <1>2, LimiterType, WindowInvariance, PTL DEF Spec
=============================================================================
