------------------------------ MODULE LocalCA -------------------------------
(***************************************************************************)
(* The agent's local certificate authority (agent/internal/ca) and the     *)
(* part of the agent's start that builds it (agent/main.go).               *)
(*                                                                         *)
(* The certificate and the key are two files, each truncated and then      *)
(* written.  An agent binds its port only once it has a CA, so nothing     *)
(* keeps two agents from working on the files at once, and an agent may    *)
(* die at any point.  A CA that was exported is trusted by the tools from  *)
(* then on.  A host is the sequence of its labels, as in Policy.           *)
(***************************************************************************)
EXTENDS Naturals, Sequences

CONSTANTS
  Lower,     \* case folding on labels
  Agents,    \* agent processes on one machine
  Configs,   \* flags and configuration: [list, files, listen, export]
  Hosts,     \* hosts a tool asks for
  Missing,   \* a file that is not there, or cannot be read
  Torn,      \* an empty file, or a part of one
  LeafLife,  \* 90 days, in ticks of the clock
  CALife,    \* one year
  MaxTime,   \* bound on the clock
  MaxStarts  \* bound on the starts of agents, and so on the CAs generated

ASSUME LocalCAAssumption ==
  /\ LeafLife \in Nat /\ CALife \in Nat /\ MaxTime \in Nat /\ MaxStarts \in Nat
  /\ LeafLife <= CALife
  /\ Missing # Torn /\ {Missing, Torn} \cap Nat = {}

\* A host that a tool asks for has at least one label, and Lower folds them all.
ASSUME HostsAssumption == \A host \in Hosts : host \in Seq(DOMAIN Lower) /\ host # <<>>

P == INSTANCE Policy WITH Window <- 1

VARIABLES
  file,        \* the two files: Missing, Torn, or the number of a CA
  pc,          \* stage of each agent
  conf,        \* its configuration
  held,        \* the CA it has read or generated: [cert, key]
  leaves,      \* its leaf cache: for a name, when the leaf was minted
  since,       \* when it began to serve
  cas,         \* the CAs generated so far: [domains, list, born]
  trusted,     \* CAs installed in the tools' trust store
  kept,        \* history: the trusted CAs that were read from the files or saved there
  starts,      \* the number of starts
  now,         \* the clock
  disturbed    \* history: two agents were building their CA at once, a file that
               \* was there could not be read, or a file was removed by hand

vars == <<file, pc, conf, held, leaves, since, cas, trusted, kept, starts, now, disturbed>>

Nothing == [cert |-> 0, key |-> 0]
NoConfig == [list |-> {}, files |-> FALSE, listen |-> "localhost", export |-> FALSE]
Opening == [cert |-> "open cert", key |-> "open key"]
Filling == [cert |-> "fill cert", key |-> "fill key"]
Building == {"read cert", "read key", "create", "open cert", "fill cert", "open key", "fill key"}

Init ==
  /\ file = [f \in {"cert", "key"} |-> Missing]
  /\ pc = [a \in Agents |-> "off"]
  /\ conf = [a \in Agents |-> NoConfig]
  /\ held = [a \in Agents |-> Nothing]
  /\ leaves = [a \in Agents |-> <<>>]
  /\ since = [a \in Agents |-> 0]
  /\ cas = <<>>
  /\ trusted = {} /\ kept = {}
  /\ starts = 0 /\ now = 0
  /\ disturbed = FALSE

-----------------------------------------------------------------------------
\* Names.

IsIntercepted(list, host) == P!hostAllowed(list, host)

\* Mutant: only the patterns without "*." become constraints.
PermittedExact(list) == {p.labels : p \in {p \in list : ~p.wild}}

\* Nothing checks that a pattern names a domain: it may be empty, or only "*.".
NamesDomain(p) == p.labels \notin {<<>>, <<"">>}

\* PermittedCADomains: the patterns without their "*.", the empty ones left out.
PermittedCADomains(list) == {p.labels : p \in {p \in list : NamesDomain(p)}}

\* A name constraint covers a domain and everything below it.
Covers(domain, name) == P!EndsWith(P!LowerHost(name), P!LowerHost(domain))

\* What a verifier makes of a CA's constraints.  CreateCertificate leaves the
\* extension out when there are no domains.
Permits(domains, name) == domains = {} \/ \E d \in domains : Covers(d, name)

-----------------------------------------------------------------------------
\* An agent starts (main, buildCA, LoadOrCreate).

\* The host of the listen address: a loopback IP, "localhost", another IP, or a name
\* (also an empty one), which is not looked up.
IsLoopback(listen) == listen \in {"localhost", "loopback IP"}

Goto(a, stage) == pc' = [pc EXCEPT ![a] = stage]

\* The agent is gone, with its CA and its leaves; the files stay as they are.
Gone(a) ==
  /\ Goto(a, "off")
  /\ conf' = [conf EXCEPT ![a] = NoConfig]
  /\ held' = [held EXCEPT ![a] = Nothing]
  /\ leaves' = [leaves EXCEPT ![a] = <<>>]
  /\ since' = [since EXCEPT ![a] = 0]

\* Only a loopback address is accepted; a CA is on file if both paths are set.
Start(a, cfg) ==
  /\ pc[a] = "off" /\ starts < MaxStarts
  /\ IsLoopback(cfg.listen)
  /\ starts' = starts + 1
  /\ Goto(a, IF cfg.files THEN "read cert" ELSE "create")
  /\ conf' = [conf EXCEPT ![a] = cfg]
  /\ disturbed' = \/ disturbed
                  \/ cfg.files /\ \E b \in Agents : conf[b].files /\ pc[b] \in Building
  /\ UNCHANGED <<file, held, leaves, since, cas, trusted, kept, now>>

Reads(f, got) == got = file[f] \/ got = Missing
Misread(f, got) == disturbed' = (disturbed \/ got # file[f])

\* os.ReadFile of the certificate; any error counts as a missing file.
ReadCert(a, got) ==
  /\ pc[a] = "read cert" /\ Reads("cert", got)
  /\ held' = [held EXCEPT ![a].cert = got]
  /\ Goto(a, "read key")
  /\ Misread("cert", got)
  /\ UNCHANGED <<file, conf, leaves, since, cas, trusted, kept, starts, now>>

\* Mutant: what the files hold is not parsed.
ReadKeyUnparsed(a, got) ==
  /\ pc[a] = "read key" /\ Reads("key", got)
  /\ LET read == [held[a] EXCEPT !.key = got]
     IN IF Missing \in {read.cert, read.key}
        THEN held' = [held EXCEPT ![a] = Nothing] /\ Goto(a, "create")
        ELSE held' = [held EXCEPT ![a] = read] /\ Goto(a, "built")
  /\ Misread("key", got)
  /\ UNCHANGED <<file, conf, leaves, since, cas, trusted, kept, starts, now>>

\* Mutant: a CA made for another intercept list is replaced.
ReadKeyRenewing(a, got) ==
  /\ pc[a] = "read key" /\ Reads("key", got)
  /\ LET read == [held[a] EXCEPT !.key = got]
         good == {Missing, Torn} \cap {read.cert, read.key} = {}
     IN IF good /\ cas[read.cert].list = conf[a].list
        THEN held' = [held EXCEPT ![a] = read] /\ Goto(a, "built")
        ELSE held' = [held EXCEPT ![a] = Nothing] /\ Goto(a, "create")
  /\ Misread("key", got)
  /\ UNCHANGED <<file, conf, leaves, since, cas, trusted, kept, starts, now>>

\* os.ReadFile of the key.  Two readable files are loaded, which fails if one of
\* them is torn and does not look whether they belong together.
ReadKey(a, got) ==
  /\ pc[a] = "read key" /\ Reads("key", got)
  /\ LET read == [held[a] EXCEPT !.key = got]
     IN \/ /\ Missing \in {read.cert, read.key}
           /\ held' = [held EXCEPT ![a] = Nothing]
           /\ Goto(a, "create")
           /\ UNCHANGED <<conf, leaves, since>>
        \/ /\ Missing \notin {read.cert, read.key}
           /\ Torn \in {read.cert, read.key}
           /\ Gone(a)
        \/ /\ {Missing, Torn} \cap {read.cert, read.key} = {}
           /\ held' = [held EXCEPT ![a] = read]
           /\ Goto(a, "built")
           /\ UNCHANGED <<conf, leaves, since>>
  /\ Misread("key", got)
  /\ UNCHANGED <<file, cas, trusted, kept, starts, now>>

\* Mutant: the constraints are left out.
CreateUnbound(a) ==
  /\ pc[a] = "create"
  /\ cas' = Append(cas, [domains |-> {}, list |-> conf[a].list, born |-> now])
  /\ held' = [held EXCEPT ![a] = [cert |-> Len(cas) + 1, key |-> Len(cas) + 1]]
  /\ Goto(a, IF conf[a].files THEN "open cert" ELSE "built")
  /\ UNCHANGED <<file, conf, leaves, since, trusted, kept, starts, now, disturbed>>

\* Mutant: a certificate that is on file is kept, and only the key is made anew.
CreateMending(a) ==
  /\ pc[a] = "create"
  /\ cas' = Append(cas, [domains |-> PermittedCADomains(conf[a].list), list |-> conf[a].list,
                         born |-> now])
  /\ LET whole == conf[a].files /\ file["cert"] \notin {Missing, Torn}
     IN /\ held' = [held EXCEPT ![a] = [cert |-> IF whole THEN file["cert"] ELSE Len(cas) + 1,
                                        key |-> Len(cas) + 1]]
        /\ Goto(a, IF whole THEN "open key" ELSE IF conf[a].files THEN "open cert" ELSE "built")
  /\ UNCHANGED <<file, conf, leaves, since, trusted, kept, starts, now, disturbed>>

\* New: a key pair, and a certificate for the domains of this configuration.
Create(a) ==
  /\ pc[a] = "create"
  /\ cas' = Append(cas, [domains |-> PermittedCADomains(conf[a].list), list |-> conf[a].list,
                         born |-> now])
  /\ held' = [held EXCEPT ![a] = [cert |-> Len(cas) + 1, key |-> Len(cas) + 1]]
  /\ Goto(a, IF conf[a].files THEN "open cert" ELSE "built")
  /\ UNCHANGED <<file, conf, leaves, since, trusted, kept, starts, now, disturbed>>

\* persist: the certificate, then the key.  Opening a file truncates it ...
Open(a, f) ==
  /\ pc[a] = Opening[f]
  /\ \/ /\ file' = [file EXCEPT ![f] = Torn]
        /\ Goto(a, Filling[f])
        /\ UNCHANGED <<conf, held, leaves, since>>
     \/ Gone(a) /\ UNCHANGED file
  /\ UNCHANGED <<cas, trusted, kept, starts, now, disturbed>>

\* ... and writing fills it, or fails.  PEM ends with its last line, whatever
\* another writer has left behind it.
Fill(a, f) ==
  /\ pc[a] = Filling[f]
  /\ \/ /\ file' = [file EXCEPT ![f] = held[a][f]]
        /\ Goto(a, IF f = "cert" THEN "open key" ELSE "built")
        /\ UNCHANGED <<conf, held, leaves, since>>
     \/ Gone(a) /\ file' = [file EXCEPT ![f] = Torn]
  /\ UNCHANGED <<cas, trusted, kept, starts, now, disturbed>>

\* With -ca-export the certificate is written out, and the user installs it; if that
\* fails the agent exits.
Export(a) ==
  /\ pc[a] = "built"
  /\ \/ /\ conf[a].export
        /\ trusted' = trusted \cup {held[a].cert}
        /\ kept' = IF conf[a].files THEN kept \cup {held[a].cert} ELSE kept
        /\ Goto(a, "bind")
        /\ UNCHANGED <<conf, held, leaves, since>>
     \/ /\ ~conf[a].export
        /\ Goto(a, "bind")
        /\ UNCHANGED <<conf, held, leaves, since, trusted, kept>>
     \/ conf[a].export /\ Gone(a) /\ UNCHANGED <<trusted, kept>>
  /\ UNCHANGED <<file, cas, starts, now, disturbed>>

\* ListenAndServe, or its error: the address is in use.
Bind(a) ==
  /\ pc[a] = "bind"
  /\ \/ Goto(a, "up") /\ since' = [since EXCEPT ![a] = now] /\ UNCHANGED <<conf, held, leaves>>
     \/ Gone(a)
  /\ UNCHANGED <<file, cas, trusted, kept, starts, now, disturbed>>

-----------------------------------------------------------------------------
\* An agent runs.

\* A tool that connected to an intercepted host asks for a name (GetCertificate,
\* LeafFor): a cached leaf is used as it is; one is minted if certificate and key
\* belong together, which CreateCertificate checks.
LeafFor(a, host, sni) ==
  LET name == IF sni = <<>> THEN host ELSE sni
  IN /\ pc[a] = "up" /\ IsIntercepted(conf[a].list, host)
     /\ name \notin DOMAIN leaves[a] /\ held[a].cert = held[a].key
     /\ leaves' = [leaves EXCEPT ![a] =
                     [n \in DOMAIN @ \cup {name} |-> IF n = name THEN now ELSE @[n]]]
     /\ UNCHANGED <<file, pc, conf, held, since, cas, trusted, kept, starts, now, disturbed>>

\* A signal or a crash.
Exit(a) ==
  /\ pc[a] # "off"
  /\ Gone(a)
  /\ UNCHANGED <<file, cas, trusted, kept, starts, now, disturbed>>

\* Months pass; a start takes less than that.
Settled == \A a \in Agents : pc[a] \in {"off", "up"}

Tick ==
  /\ now < MaxTime /\ Settled
  /\ now' = now + 1
  /\ UNCHANGED <<file, pc, conf, held, leaves, since, cas, trusted, kept, starts, disturbed>>

\* The user removes a file, to get rid of a torn one or of the old CA.
Remove(f) ==
  /\ file[f] # Missing /\ Settled
  /\ file' = [file EXCEPT ![f] = Missing]
  /\ disturbed' = TRUE
  /\ UNCHANGED <<pc, conf, held, leaves, since, cas, trusted, kept, starts, now>>

Next ==
  \/ \E a \in Agents :
       \/ \E cfg \in Configs : Start(a, cfg)
       \/ \E got \in {Missing, Torn} \cup 1..Len(cas) : ReadCert(a, got) \/ ReadKey(a, got)
       \/ Create(a)
       \/ \E f \in {"cert", "key"} : Open(a, f) \/ Fill(a, f)
       \/ Export(a) \/ Bind(a) \/ Exit(a)
       \/ \E host \in Hosts, sni \in Hosts \cup {<<>>} : LeafFor(a, host, sni)
  \/ \E f \in {"cert", "key"} : Remove(f)
  \/ Tick

Spec == Init /\ [][Next]_vars

-----------------------------------------------------------------------------
Ready(a) == pc[a] \in {"built", "bind", "up"}

CAs == 1..Len(cas)
Contents == {Missing, Torn} \cup CAs
Held == [cert : Contents \cup {0}, key : Contents \cup {0}]
KeyPairs == [cert : CAs, key : CAs]
Lists == {cfg.list : cfg \in Configs \cup {NoConfig}}
Authorities ==
  [domains : {PermittedCADomains(list) : list \in Lists}, list : Lists, born : 0..MaxTime]
Stages == Building \cup {"off", "built", "bind", "up"}

TypeOK ==
  /\ file \in [{"cert", "key"} -> Contents]
  /\ pc \in [Agents -> Stages]
  /\ conf \in [Agents -> Configs \cup {NoConfig}]
  /\ held \in [Agents -> Held]
  /\ \A a \in Agents : /\ Ready(a) => held[a] \in KeyPairs
                       /\ DOMAIN leaves[a] \subseteq Hosts
                       /\ \A n \in DOMAIN leaves[a] : leaves[a][n] \in since[a]..now
  /\ since \in [Agents -> 0..now]
  /\ cas \in Seq(Authorities)
  /\ kept \subseteq trusted /\ trusted \subseteq CAs
  /\ starts \in 0..MaxStarts /\ now \in 0..MaxTime
  /\ disturbed \in BOOLEAN

\* A restarted agent keeps a trust-store install valid (ca_test.go: round trip),
\* also after crashes between and within the two writes of persist, and under
\* another intercept list: once a CA on file was exported, every agent that uses
\* the files has that CA, if agents start one at a time and can read what is there.
TrustKept ==
  ~disturbed => \A a \in Agents : Ready(a) /\ conf[a].files => kept \subseteq {held[a].cert}

\* An agent that starts can sign: the certificate and the key it holds belong
\* together, although load does not compare them, whatever part of persist an
\* earlier agent died in (ca.go: LoadOrCreate writes both files or refuses).
KeyMatches ==
  ~disturbed => \A a \in Agents : Ready(a) => held[a].cert = held[a].key

\* What a tool makes of a leaf it is handed now.
Verifies(a, name) ==
  LET ca == held[a].cert
  IN /\ ca \in trusted /\ ca = held[a].key
     /\ now <= cas[ca].born + CALife
     /\ now <= leaves[a][name] + LeafLife
     /\ Permits(cas[ca].domains, name)

\* A tool accepts the leaf of every host a pattern with a domain intercepts, however
\* the pattern is written, as long as the CA is trusted, was made for the list
\* in force and is not older than a year, and the agent has not run for longer
\* than a leaf lives: leaves are never taken out of the cache (LeafFor,
\* PermittedCADomains; local-agent.md section 4).
LeafVerifies ==
  \A a \in Agents : pc[a] = "up" =>
    LET ca == held[a].cert
    IN \A name \in DOMAIN leaves[a] :
         /\ IsIntercepted({p \in conf[a].list : NamesDomain(p)}, name)
         /\ ca \in trusted /\ cas[ca].list = conf[a].list
         /\ now <= cas[ca].born + CALife /\ now <= since[a] + LeafLife
         => Verifies(a, name)

\* The local CA is constrained to the intercept list (I-A6): whatever name a tool
\* asks for inside an intercepted connection, a leaf is accepted for it only in or
\* under a domain the running agent intercepts, unless the CA on file was made for
\* another list (LoadOrCreate: "The permitted domains are only applied on creation")
\* or no pattern of the list names a domain.
Constrained ==
  \A a \in Agents : pc[a] = "up" =>
    LET named == {p \in conf[a].list : NamesDomain(p)}
    IN \A name \in DOMAIN leaves[a] :
         Verifies(a, name) /\ cas[held[a].cert].list = conf[a].list /\ named # {} =>
           \E p \in named : Covers(p.labels, name)

-----------------------------------------------------------------------------
\* The inductive invariants behind the properties.

Writing == {"open cert", "fill cert", "open key", "fill key"}

\* What each stage of an agent has, whatever others do.
Stage(a) ==
  /\ pc[a] \in Building \ {"create"} => conf[a].files
  /\ pc[a] = "read key" => held[a].cert \in Contents
  /\ pc[a] \in Writing => held[a] \in KeyPairs
  /\ pc[a] # "up" => leaves[a] = <<>>
  /\ DOMAIN leaves[a] # {} => held[a].cert = held[a].key

\* A CA is made for the domains of its list.
MadeForList == \A i \in CAs : cas[i].domains = PermittedCADomains(cas[i].list)

\* Unless agents got into each other's way, one at a time works on the files.
OnFile(a) == conf[a].files /\ pc[a] \in Building
OneBuilds == \A a, b \in Agents : OnFile(a) /\ OnFile(b) => a = b

\* The certificate is written first and a pair on file is never touched again ...
Pair ==
  /\ file["key"] # Missing => file["cert"] \in CAs
  /\ file["key"] \in CAs => file["cert"] = file["key"]

\* ... because each stage finds the files as the one before it left them.
Finds(a) ==
  /\ pc[a] = "read key" => held[a].cert = file["cert"]
  /\ pc[a] = "create" /\ conf[a].files => file["key"] = Missing
  /\ pc[a] \in {"open cert", "fill cert", "open key"} => file["key"] = Missing
  /\ pc[a] = "fill key" => file["key"] = Torn
  /\ pc[a] \in {"open key", "fill key"} => file["cert"] = held[a].cert
  /\ pc[a] \in Writing \/ Ready(a) => held[a].cert = held[a].key
  /\ Ready(a) /\ conf[a].files => file["cert"] = held[a].cert /\ file["key"] = held[a].key

FileInv ==
  ~disturbed => /\ OneBuilds /\ Pair
                /\ \A a \in Agents : Finds(a)
                /\ kept # {} => file["key"] \in CAs /\ kept \subseteq {file["cert"]}
=============================================================================
