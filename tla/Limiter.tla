------------------------------ MODULE Limiter -------------------------------
(***************************************************************************)
(* policy.Limiter: one fixed window per secret id, opened by the first     *)
(* request after the previous window ended.  Allow runs under the          *)
(* limiter's mutex and reads the clock inside it, so a call is one step,   *)
(* whichever handler makes it.                                             *)
(*                                                                         *)
(* grants and answer are history: the times at which Allow said yes, and   *)
(* the last answer given.                                                  *)
(***************************************************************************)
EXTENDS Policy

CONSTANTS Ids,       \* secret ids
          Rpm,       \* policy.Rate.RPM of each id; <= 0 means unlimited
          MaxTime    \* bound on the clock

ASSUME RpmAssumption == Rpm \in [Ids -> Int]
ASSUME MaxTimeAssumption == MaxTime \in Nat

VARIABLES now,       \* the monotonic clock read by l.now()
          windows,   \* l.windows
          grants,    \* times at which a metered id was allowed
          answer     \* the last call: its id, its result

vars == <<now, windows, grants, answer>>

Metered(id) == Rpm[id] > 0

NoAnswer == [called |-> FALSE]
Answers == {NoAnswer} \cup [called : {TRUE}, id : Ids, ok : BOOLEAN]

Init ==
  /\ now = 0
  /\ windows = [id \in Ids |-> NoWindow]
  /\ grants = [id \in Ids |-> <<>>]
  /\ answer = NoAnswer

Allow(id) ==
  LET ok == Allows(windows[id], Rpm[id], now)
  IN /\ windows' = [windows EXCEPT ![id] = AfterAllow(@, Rpm[id], now)]
     /\ grants' = IF ok /\ Metered(id)
                  THEN [grants EXCEPT ![id] = Append(@, now)]
                  ELSE grants
     /\ answer' = [called |-> TRUE, id |-> id, ok |-> ok]
     /\ UNCHANGED now

Tick ==
  /\ now < MaxTime
  /\ now' = now + 1
  /\ answer' = NoAnswer
  /\ UNCHANGED <<windows, grants>>

Next == Tick \/ \E id \in Ids : Allow(id)

Spec == Init /\ [][Next]_vars

-----------------------------------------------------------------------------
TypeOK ==
  /\ now \in 0..MaxTime
  /\ windows \in [Ids -> [start : Nat, count : Nat]]
  /\ grants \in [Ids -> Seq(Nat)]
  /\ answer \in Answers

\* What a fixed window gives over ANY stretch of time: 2*rpm consecutive grants
\* of an id span at least one full window, so no interval shorter than a minute
\* ever holds more than 2*rpm - 1 of them (policy.go: Limiter.Allow).
Spread(g, rpm) ==
  \A i \in 1..Len(g) :
    i + 2 * rpm - 1 <= Len(g) => g[i + 2 * rpm - 1] - g[i] >= Window

SlidingBound == \A id \in Ids : Metered(id) => Spread(grants[id], Rpm[id])

\* A refusal is earned: when Allow says no, rpm grants of that id lie in the
\* last minute, so a caller that stays below its rate is never refused
\* (policy.go: the two conditions of Limiter.Allow).
RefusalEarned ==
  (answer.called /\ ~answer.ok) =>
    LET g == grants[answer.id]
        n == Len(g)
        r == Rpm[answer.id]
    IN r > 0 /\ n >= r /\ now - g[n - r + 1] < Window

-----------------------------------------------------------------------------
\* The inductive invariant behind SlidingBound.  For a history g and the window
\* (start, count) of an id at time t: g is sorted and not in the future, its last
\* count entries are those of the window, the first of them opened it, and every
\* entry rpm or more places before that one is at least a window older than it.

History(g, start, count, rpm, t) ==
  /\ \A i \in 1..Len(g) : g[i] <= t
  /\ \A i, j \in 1..Len(g) : i <= j => g[i] <= g[j]
  /\ count = 0 => Len(g) = 0
  /\ count > 0 =>
       /\ count <= rpm
       /\ count <= Len(g)
       /\ g[Len(g) - count + 1] = start
       /\ \A i \in 1..Len(g) :
            i + rpm <= Len(g) - count + 1 => g[i] + Window <= start

WindowInv ==
  \A id \in Ids :
    IF Metered(id)
    THEN History(grants[id], windows[id].start, windows[id].count, Rpm[id], now)
    ELSE windows[id].count = 0
=============================================================================
