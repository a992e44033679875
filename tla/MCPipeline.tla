----------------------------- MODULE MCPipeline -----------------------------
(***************************************************************************)
(* Pipeline with two concurrent handlers, two secret ids and three store   *)
(* files: as enrolled, tampered with, and with credential kinds that are   *)
(* not built.                                                              *)
(***************************************************************************)
EXTENDS Pipeline, TLC

MCLower == [l \in {"api", "eu", "acme", "dev", "", "GET", "POST", "GE T"} |-> l]
           @@ ("API" :> "api") @@ ("post" :> "POST")

Exact(host) == [wild |-> FALSE, labels |-> host]
Under(host) == [wild |-> TRUE, labels |-> host]

MCIds == {"a", "b"}
MCEgress == {Exact(<<"api", "acme">>), Under(<<"eu", "dev">>)}
MCUnwrapper == [alg |-> "KMS+AES-256-GCM", kek |-> "kek1", remote |-> TRUE]

Pol(kind, inject, hosts, methods, rpm) ==
  [kind |-> kind, inject |-> inject, hosts |-> hosts, methods |-> methods, rpm |-> rpm]

PolA == Pol("static", "header", {Exact(<<"api", "acme">>)}, {"POST"}, 1)
WiderA == [PolA EXCEPT !.hosts = @ \cup {Under(<<"dev">>)}, !.rpm = 2]
PolB == Pol("static", "unknown", {Under(<<"dev">>)}, {}, 0)

Enrolled(id, p) ==
  [env |-> Sealed(id, MCUnwrapper.alg, "k", MCUnwrapper.kek, p), policy |-> p]

\* As enrolled.
Honest == [id \in MCIds |-> IF id = "a" THEN Enrolled("a", PolA) ELSE Enrolled("b", PolB)]
\* The policy beside a's envelope was widened; a's record was copied under b.
Edited == [id \in MCIds |-> IF id = "a" THEN [Enrolled("a", PolA) EXCEPT !.policy = WiderA]
                                        ELSE Enrolled("a", PolA)]
\* Kinds without an implementation, and without a module.
Unbuilt == [id \in MCIds |-> IF id = "a" THEN Enrolled("a", [PolA EXCEPT !.kind = "sigv4"])
                                         ELSE Enrolled("b", [PolB EXCEPT !.kind = "hmac"])]
MCStores == {Honest, Edited, Unbuilt}

Request(id, method, form, host, body) ==
  [json |-> TRUE, ref |-> [id |-> id, prefix |-> TRUE], method |-> method,
   url |-> [form |-> form, host |-> host], body |-> body]

Good == Request("a", "POST", "https", <<"api", "acme">>, "ok")

MCRequests ==
  { Good,
    \* the same destination, spelled differently; the ref without its prefix
    [Request("a", "post", "https", <<"API", "acme", "">>, "ok") EXCEPT !.ref.prefix = FALSE],
    \* denied by the policy a was sealed with, allowed by the widened one
    Request("a", "POST", "https", <<"api", "eu", "dev">>, "ok"),
    \* allowed by b's policy: inside and outside the egress list
    Request("b", "GET", "https", <<"api", "eu", "dev">>, "ok"),
    Request("b", "GET", "https", <<"api", "dev">>, "ok"),
    \* a method that only http.NewRequest refuses
    Request("b", "GE T", "https", <<"api", "eu", "dev">>, "ok"),
    Request("c", "GET", "https", <<"api", "acme">>, "ok"),
    Request("a", "POST", "http", <<"api", "acme">>, "ok"),
    Request("a", "POST", "https", <<"api", "acme">>, "too large") }

MCValidMethods == {"GET", "POST", "post"}
MCRedirectHosts == {<<"eu", "dev">>}
=============================================================================
