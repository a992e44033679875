----------------------------- MODULE MCLocalCA ------------------------------
(***************************************************************************)
(* LocalCA with two agents that may be started with different intercept    *)
(* lists, with and without files for the CA.                               *)
(***************************************************************************)
EXTENDS LocalCA, TLC

MCLower == [l \in {"api", "s3", "acme", "dev"} |-> l] @@ ("API" :> "api")

Exact(labels) == [wild |-> FALSE, labels |-> labels]
Under(labels) == [wild |-> TRUE, labels |-> labels]

Both == {Exact(<<"API", "acme">>), Under(<<"dev">>)}
One == {Exact(<<"API", "acme">>)}

Config(list, files, export) ==
  [list |-> list, files |-> files, listen |-> "loopback IP", export |-> export]
MCConfigs == {Config(Both, TRUE, TRUE), Config(One, TRUE, FALSE), Config(One, FALSE, TRUE),
              [Config(Both, TRUE, TRUE) EXCEPT !.listen = "other IP"]}

MCHosts == {<<"api", "acme">>, <<"s3", "dev">>}

Symm == Permutations(Agents)
=============================================================================
