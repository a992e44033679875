---------------------------- MODULE AgentConfig -----------------------------
(***************************************************************************)
(* The decisions the agent takes from its configuration                    *)
(* (agent/internal/config, agent/internal/refs and buildUpstream): which   *)
(* hosts are intercepted, where a reference is looked for, what is one,    *)
(* and what is left of a request once the place it was found in is empty.  *)
(* Everything here is a pure operator.                                     *)
(*                                                                         *)
(* A host is the sequence of its labels.  A request has header fields and  *)
(* query parameters; the value of one is a reference, a real credential, a *)
(* SigV4 signature, or absent, with the prefix ("Bearer ") it stands       *)
(* behind.                                                                 *)
(***************************************************************************)
EXTENDS Sequences

CONSTANTS
  Lower,      \* strings.ToLower: a function on labels
  Canonical,  \* http.CanonicalHeaderKey: a function on header names
  Intercept,  \* cfg.Intercept: a set of host patterns
  Detect,     \* cfg.Detect: a set of [pat, rule]
  Refs,       \* the keys of cfg.Refs
  HopByHop    \* the header names of hopByHop

ASSUME CanonicalAssumption ==
  \A h \in DOMAIN Canonical :
    Canonical[h] \in DOMAIN Canonical /\ Canonical[Canonical[h]] = Canonical[h]

P == INSTANCE Policy WITH Window <- 1

\* The same function, line for line, as the broker's policy.MatchHost.
MatchHost(pattern, host) == P!MatchHost(pattern, host)

IsIntercepted(host) == \E p \in Intercept : MatchHost(p, host)

\* A rule as DetectFor returns it: an empty mode is "header", and a header rule
\* without a name reads Authorization.
Normalised(rule) ==
  LET mode == IF rule.mode = "" THEN "header" ELSE rule.mode
      name == IF mode = "header" /\ rule.name = "" THEN "Authorization" ELSE rule.name
  IN [rule EXCEPT !.mode = mode, !.name = name]

\* Values of header fields, parameters and a rule's configured reference.
Absent == [form |-> "absent", pre |-> "", id |-> "", hint |-> FALSE]

DefaultRule ==
  [mode |-> "header", name |-> "Authorization", strip |-> "Bearer ", sentinel |-> "",
   ref |-> Absent]

\* The rules DetectFor may return: Go walks a map in random order and the first
\* pattern that matches wins.
DetectFor(host) ==
  LET matching == {Normalised(d.rule) : d \in {d \in Detect : MatchHost(d.pat, host)}}
  IN IF matching = {} THEN {DefaultRule} ELSE matching

-----------------------------------------------------------------------------
\* Looking and stripping.

Field(fields, name) == IF name \in DOMAIN fields THEN fields[name] ELSE Absent

NoRef == ""

\* ParseRef: "cfdt:" and an id, with the hint dropped, or NoRef.
ParseRef(v) == IF v.form = "ref" /\ v.pre = "" THEN v.id ELSE NoRef

TrimPrefix(v, prefix) == IF v.pre = prefix THEN [v EXCEPT !.pre = ""] ELSE v

\* refs.Detect: the id of the reference rule finds in q, or NoRef.  For a signed request
\* the configuration names it, and nothing checks before now that it is a reference.
DetectRef(rule, q) ==
  CASE rule.mode = "query" -> ParseRef(Field(q.query, rule.name))
    [] rule.mode = "aws-sdk-dummy" ->
         LET v == Field(q.header, "Authorization")
         IN IF v.form = "sigv4" /\ v.id = rule.sentinel THEN ParseRef(rule.ref) ELSE NoRef
    [] OTHER -> ParseRef(TrimPrefix(Field(q.header, Canonical[rule.name]), rule.strip))

Known(ref) == Refs = {} \/ ref \in Refs

Without(fields, names) == [f \in DOMAIN fields \ names |-> fields[f]]

\* Mutant: the header is deleted under the name the rule spells it with.
StripAsSpelled(rule, q) ==
  [header |-> Without(q.header, HopByHop \cup
                (IF rule.mode = "query" THEN {}
                 ELSE IF rule.mode = "aws-sdk-dummy" THEN {"Authorization"} ELSE {rule.name})),
   query |-> Without(q.query, IF rule.mode = "query" THEN {rule.name} \ {""} ELSE {})]

\* buildUpstream: what is left of q once the place the rule reads is emptied and
\* the hop-by-hop fields are dropped.
buildUpstream(rule, q) ==
  [header |-> Without(q.header, HopByHop \cup
                (IF rule.mode = "query" THEN {}
                 ELSE IF rule.mode = "aws-sdk-dummy" THEN {"Authorization"}
                 ELSE {Canonical[rule.name]})),
   query |-> Without(q.query, IF rule.mode = "query" THEN {rule.name} \ {""} ELSE {})]
=============================================================================
