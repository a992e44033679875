------------------------------ MODULE MCAgent -------------------------------
(***************************************************************************)
(* AgentProxy with an intercepted host that two detection rules match, one *)
(* without a rule of its own, and one that is not intercepted.             *)
(***************************************************************************)
EXTENDS AgentProxy, TLC

MCLower == [l \in {"api", "s3", "x", "acme", "dev"} |-> l] @@ ("API" :> "api")
MCCanonical == [n \in {"Authorization", "X-Key", "Connection", ""} |-> n]
               @@ ("x-key" :> "X-Key")

Exact(h) == [wild |-> FALSE, labels |-> h]
Under(h) == [wild |-> TRUE, labels |-> h]

MCIntercept == {Exact(<<"api", "acme">>), Under(<<"dev">>)}

Value(form, pre, id) == [form |-> form, pre |-> pre, id |-> id, hint |-> FALSE]

Rule(mode, name, sentinel, ref) ==
  [mode |-> mode, name |-> name, strip |-> "", sentinel |-> sentinel, ref |-> ref]

\* The two patterns that match s3.dev overlap, one rule spells its header in lower
\* case, and one names something that is not a reference.
MCDetect ==
  {[pat |-> Under(<<"dev">>),
    rule |-> Rule("aws-sdk-dummy", "", "AKIADUMMY", Value("ref", "", "a"))],
   [pat |-> Exact(<<"s3", "dev">>), rule |-> Rule("", "x-key", "", Absent)],
   [pat |-> Exact(<<"x", "dev">>), rule |-> Rule("query", "key", "", Absent)],
   [pat |-> Exact(<<"api", "acme">>),
    rule |-> Rule("aws-sdk-dummy", "", "AKIADUMMY", Value("raw", "", "a"))],
   [pat |-> Exact(<<"api", "acme">>), rule |-> DefaultRule]}

MCRefs == {"a"}
MCHopByHop == {"Connection"}
MCHosts == {<<"API", "acme">>, <<"s3", "dev">>, <<"x", "dev">>, <<"acme">>}

MCBroker == [endpoint |-> TRUE, clientCert |-> "loads"]

Request(header, query, body, close) ==
  [header |-> header, query |-> query, body |-> body, close |-> close]
Bearer(v) == [n \in {"Authorization", "Connection"} |->
                IF n = "Authorization" THEN v ELSE Value("raw", "", "close")]

MCRequests ==
  { Request(Bearer(Value("ref", "Bearer ", "a")), <<>>, "ok", FALSE),
    Request(Bearer(Value("ref", "Bearer ", "b")), <<>>, "ok", FALSE),
    Request(Bearer(Value("raw", "Bearer ", "a")), "key" :> Value("ref", "", "a"), "ok", TRUE),
    Request(Bearer(Value("raw", "Bearer ", "a")), <<>>, "too large", FALSE),
    Request(Bearer(Value("raw", "Bearer ", "a")), <<>>, "broken", FALSE),
    \* found by either of the two rules for s3.dev
    Request([n \in {"Authorization", "X-Key"} |->
               IF n = "X-Key" THEN Value("ref", "", "a") ELSE Value("sigv4", "", "AKIADUMMY")],
            <<>>, "ok", FALSE) }

Answer(kind, framing, gzip, cut) ==
  [kind |-> kind, framing |-> framing, gzip |-> gzip, cut |-> cut, close |-> FALSE]

MCAnswers ==
  { Answer("ok", "length", FALSE, FALSE), Answer("ok", "length", FALSE, TRUE),
    Answer("ok", "chunked", FALSE, TRUE), Answer("ok", "chunked", TRUE, TRUE),
    Answer("ok", "length", TRUE, FALSE), Answer("ok", "length", TRUE, TRUE),
    [Answer("ok", "length", FALSE, FALSE) EXCEPT !.close = TRUE],
    Answer("refused", "length", FALSE, FALSE), Answer("gateway", "length", FALSE, FALSE) }
=============================================================================
