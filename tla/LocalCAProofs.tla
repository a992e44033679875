---------------------------- MODULE LocalCAProofs ---------------------------
(***************************************************************************)
(* Proofs about LocalCA, for any number of agents, configurations and      *)
(* starts: however the agents that share the two files are started, die    *)
(* and come back.                                                          *)
(***************************************************************************)
EXTENDS LocalCA, TLAPS

\* The types, in the parts that a step changes together.  The flag disturbed has a
\* lemma of its own.
AgentType(a) ==
  /\ Ready(a) => held[a] \in KeyPairs
  /\ DOMAIN leaves[a] \subseteq Hosts
  /\ \A n \in DOMAIN leaves[a] : leaves[a][n] \in since[a]..now
  /\ Stage(a)

Shape ==
  /\ file \in [{"cert", "key"} -> Contents]
  /\ pc \in [Agents -> Stages]
  /\ conf \in [Agents -> Configs \cup {NoConfig}]
  /\ held \in [Agents -> Held]
  /\ since \in [Agents -> 0..now] /\ DOMAIN leaves = Agents
  /\ cas \in Seq(Authorities)
  /\ kept \subseteq trusted /\ trusted \subseteq CAs
  /\ starts \in 0..MaxStarts /\ now \in 0..MaxTime

TypeInv == Shape /\ \A a \in Agents : AgentType(a)

\* Only the step's own agent moves.
Others(a) ==
  \A b \in Agents \ {a} :
    /\ pc'[b] = pc[b] /\ conf'[b] = conf[b] /\ held'[b] = held[b]
    /\ leaves'[b] = leaves[b] /\ since'[b] = since[b]

\* The CAs made so far stay, and with them what is made of them.
LEMMA Grows ==
  ASSUME CAs \subseteq CAs'
  PROVE  Contents \subseteq Contents' /\ Held \subseteq Held' /\ KeyPairs \subseteq KeyPairs'
BY DEF Contents, Held, KeyPairs

\* The stages of an agent, by name.
LEMMA StageNames ==
  /\ {"off", "built", "bind", "up", "read cert", "read key", "create"} \subseteq Stages
  /\ {"open cert", "fill cert", "open key", "fill key"} \subseteq Stages
BY DEF Stages, Building

\* The stages of writing one of the two files.
LEMMA FileStages ==
  ASSUME NEW f \in {"cert", "key"}
  PROVE  Opening[f] \in {"open cert", "open key"} /\ Filling[f] \in {"fill cert", "fill key"}
<1>1. CASE f = "cert"
  BY <1>1 DEF Opening, Filling
<1>2. CASE f = "key"
  BY <1>2 DEF Opening, Filling
<1> QED
  BY <1>1, <1>2

\* A leaf cache starts empty.
LEMMA NoLeaves == DOMAIN <<>> = {}
OBVIOUS

\* Arithmetic and sequences, on their own.
LEMMA OneMore == ASSUME NEW n \in Nat, NEW k \in 0..n, k < n PROVE k + 1 \in 0..n
OBVIOUS

\* What appending to a sequence does.
LEMMA Appended ==
  ASSUME NEW S, NEW seq \in Seq(S), NEW x \in S
  PROVE  /\ Append(seq, x) \in Seq(S) /\ Len(Append(seq, x)) = Len(seq) + 1
         /\ 1..Len(seq) \subseteq 1..(Len(seq) + 1) /\ Len(seq) + 1 \in 1..(Len(seq) + 1)
         /\ 1..(Len(seq) + 1) \subseteq Nat
         /\ Append(seq, x)[Len(seq) + 1] = x
         /\ \A i \in 1..Len(seq) : Append(seq, x)[i] = seq[i]
OBVIOUS

\* The stages that build a CA and those that write its files, by name.
LEMMA StageKinds ==
  /\ {"read cert", "read key"} \subseteq Building \ Writing
  /\ {"open cert", "fill cert", "open key", "fill key"} = Writing
  /\ {"off", "built", "bind", "up"} \cap Building = {}
  /\ Writing \subseteq Building \ {"create"} /\ "create" \in Building
BY DEF Building, Writing

\* What an agent without leaves owes the types.
LEMMA NewAgent ==
  ASSUME NEW a, NEW s \in Stages, pc'[a] = s, leaves'[a] = <<>>,
         s \in {"built", "bind", "up"} \cup Writing => held'[a] \in KeyPairs',
         s = "read key" => held'[a].cert \in Contents',
         s \in Building \ {"create"} => conf'[a].files
  PROVE  AgentType(a)'
<1>1. DOMAIN leaves'[a] = {}
  BY NoLeaves, Zenon
<1>2. Ready(a)' => held'[a] \in KeyPairs'
  BY DEF Ready
<1>3. Stage(a)'
  BY <1>1 DEF Stage
<1> QED
  BY <1>1, <1>2, <1>3 DEF AgentType

\* An agent that a step does not touch keeps its types.
LEMMA UntouchedAgent ==
  ASSUME NEW b \in Agents, AgentType(b), CAs \subseteq CAs', now' = now,
         pc'[b] = pc[b], conf'[b] = conf[b], held'[b] = held[b],
         leaves'[b] = leaves[b], since'[b] = since[b]
  PROVE  AgentType(b)'
<1>1. KeyPairs \subseteq KeyPairs' /\ Contents \subseteq Contents'
  BY Grows
<1>2. (Ready(b)' <=> Ready(b)) /\ (Ready(b)' => held'[b] \in KeyPairs')
  BY <1>1 DEF AgentType, Ready
<1>3. Stage(b)'
  BY <1>1 DEF AgentType, Stage
<1> QED
  BY <1>2, <1>3 DEF AgentType

\* What a step of one agent owes the types.
LEMMA AgentStep ==
  ASSUME TypeInv, NEW a \in Agents, Others(a), AgentType(a)', CAs \subseteq CAs', now' = now,
         Shape'
  PROVE  TypeInv'
<1>1. ASSUME NEW b \in Agents, b # a PROVE AgentType(b)'
  BY <1>1, UntouchedAgent DEF TypeInv, Others
<1> QED
  BY <1>1 DEF TypeInv

\* An agent that is gone has nothing left.
LEMMA GoneTypes ==
  ASSUME TypeInv, NEW a \in Agents, Gone(a)
  PROVE  /\ Others(a) /\ AgentType(a)' /\ pc' \in [Agents -> Stages]
         /\ conf' \in [Agents -> Configs \cup {NoConfig}] /\ held' \in [Agents -> Held]
         /\ since' \in [Agents -> 0..now] /\ DOMAIN leaves' = Agents
<1>0. Shape
  BY DEF TypeInv
<1>1. Nothing \in Held
  BY DEF Nothing, Held
<1>2. now \in Nat
  BY <1>0, LocalCAAssumption DEF Shape
<1>3. pc' \in [Agents -> Stages] /\ conf' \in [Agents -> Configs \cup {NoConfig}]
  BY <1>0, StageNames DEF Gone, Goto, Shape
<1>4. held' \in [Agents -> Held] /\ since' \in [Agents -> 0..now] /\ DOMAIN leaves' = Agents
  BY <1>0, <1>1, <1>2 DEF Gone, Shape
<1>5. Others(a)
  BY <1>0 DEF Gone, Goto, Shape, Others
<1>6. pc'[a] = "off" /\ leaves'[a] = <<>>
  BY <1>0 DEF Gone, Goto, Shape
<1>7. AgentType(a)'
  BY <1>6 DEF AgentType, Ready, Stage, Building, Writing
<1> QED
  BY <1>3, <1>4, <1>5, <1>7

\* While no CA is made, what files and agents may hold stays the same.
LEMMA SameCAs ==
  ASSUME cas' = cas
  PROVE  CAs' = CAs /\ Contents' = Contents /\ Held' = Held /\ KeyPairs' = KeyPairs
BY DEF CAs, Contents, Held, KeyPairs

\* An agent that goes, with whatever it leaves of the files, keeps the types.
LEMMA GoneStep ==
  ASSUME TypeInv, NEW a \in Agents, Gone(a), UNCHANGED <<cas, trusted, kept, starts, now>>,
         file' \in [{"cert", "key"} -> Contents]
  PROVE  TypeInv'
<1>1. Shape'
  BY GoneTypes, SameCAs DEF TypeInv, Shape
<1> QED
  BY <1>1, GoneTypes, AgentStep, SameCAs

\* TypeInv is inductive.
LEMMA TypeStep == TypeInv /\ [Next]_vars => TypeInv'
<1> SUFFICES ASSUME TypeInv, [Next]_vars PROVE TypeInv'
  OBVIOUS
<1>0. Shape /\ \A a \in Agents : AgentType(a)
  BY DEF TypeInv
<1> USE DEF Goto
<1>1. ASSUME NEW a \in Agents, NEW cfg \in Configs, Start(a, cfg) PROVE TypeInv'
  <2>1. UNCHANGED <<file, held, leaves, since, cas, trusted, kept, now>> /\ pc[a] = "off"
    BY <1>1 DEF Start
  <2>2. PICK s \in {"read cert", "create"} :
          pc' = [pc EXCEPT ![a] = s] /\ (s = "read cert" => cfg.files)
    BY <1>1 DEF Start
  <2>3. conf' = [conf EXCEPT ![a] = cfg] /\ starts' \in 0..MaxStarts
    <3>1. starts \in 0..MaxStarts /\ starts < MaxStarts /\ starts' = starts + 1
      BY <1>0, <1>1 DEF Start, Shape
    <3>2. starts' \in 0..MaxStarts
      BY <3>1, OneMore, LocalCAAssumption
    <3> QED
      BY <1>1, <3>2 DEF Start
  <2>4. Shape'
    BY <1>0, <2>1, <2>2, <2>3, StageNames, SameCAs DEF Shape
  <2>5. Others(a)
    BY <1>0, <2>1, <2>2, <2>3 DEF Shape, Others
  <2>6. pc'[a] = s /\ conf'[a] = cfg /\ leaves'[a] = <<>>
    BY <1>0, <2>1, <2>2, <2>3 DEF Shape, AgentType, Stage
  <2>7. AgentType(a)'
    BY <2>2, <2>6, StageNames, StageKinds, NewAgent
  <2> QED
    BY <2>1, <2>4, <2>5, <2>7, AgentStep, SameCAs
<1>2. ASSUME NEW a \in Agents, NEW got \in Contents, ReadCert(a, got) PROVE TypeInv'
  <2>1. UNCHANGED <<file, conf, leaves, since, cas, trusted, kept, starts, now>>
    BY <1>2 DEF ReadCert
  <2>2. /\ pc[a] = "read cert" /\ pc' = [pc EXCEPT ![a] = "read key"]
        /\ held' = [held EXCEPT ![a] = [held[a] EXCEPT !.cert = got]]
    BY <1>2 DEF ReadCert
  <2>3. held[a] \in Held
    BY <1>0 DEF Shape
  <2>4. [held[a] EXCEPT !.cert = got] \in Held
    BY <2>3 DEF Held
  <2>5. Shape'
    BY <1>0, <2>1, <2>2, <2>4, StageNames, SameCAs DEF Shape
  <2>6. Others(a)
    BY <1>0, <2>1, <2>2 DEF Shape, Others
  <2>7. pc'[a] = "read key" /\ conf'[a].files /\ leaves'[a] = <<>>
    BY <1>0, <2>1, <2>2 DEF Shape, AgentType, Stage, Building
  <2>8. AgentType(a)'
    <3>1. held'[a] = [held[a] EXCEPT !.cert = got]
      BY <1>0, <2>2 DEF Shape
    <3>2. held'[a].cert = got
      BY <2>3, <3>1 DEF Held
    <3>3. held'[a].cert \in Contents'
      BY <1>2, <2>1, <3>2, SameCAs
    <3> QED
      BY <2>7, <3>3, StageNames, StageKinds, NewAgent
  <2> QED
    BY <2>1, <2>5, <2>6, <2>8, AgentStep, SameCAs
<1>3. ASSUME NEW a \in Agents, NEW got \in Contents, ReadKey(a, got) PROVE TypeInv'
  <2> DEFINE read == [held[a] EXCEPT !.key = got]
  <2>1. UNCHANGED <<file, cas, trusted, kept, starts, now>> /\ pc[a] = "read key"
    BY <1>3 DEF ReadKey
  <2>2. read \in Held
    <3>1. held[a] \in Held
      BY <1>0 DEF Shape
    <3> QED
      BY <3>1 DEF Held
  <2>3. CASE Gone(a)
    BY <1>0, <2>1, <2>3, GoneStep DEF Shape
  <2>4. CASE /\ held' = [held EXCEPT ![a] = Nothing] /\ pc' = [pc EXCEPT ![a] = "create"]
             /\ UNCHANGED <<conf, leaves, since>>
    <3>1. Nothing \in Held
      BY DEF Nothing, Held
    <3>2. Shape'
      BY <1>0, <2>1, <2>4, <3>1, StageNames, SameCAs DEF Shape
    <3>3. Others(a)
      BY <1>0, <2>4 DEF Shape, Others
    <3>4. pc'[a] = "create" /\ leaves'[a] = <<>>
      BY <1>0, <2>1, <2>4 DEF Shape, AgentType, Stage
    <3>5. AgentType(a)'
      BY <3>4 DEF AgentType, Ready, Stage, Building, Writing
    <3> QED
      BY <2>1, <3>2, <3>3, <3>5, AgentStep, SameCAs
  <2>5. CASE /\ {Missing, Torn} \cap {read.cert, read.key} = {}
             /\ held' = [held EXCEPT ![a] = read] /\ pc' = [pc EXCEPT ![a] = "built"]
             /\ UNCHANGED <<conf, leaves, since>>
    <3>1. read \in KeyPairs
      <4>1. held[a].cert \in Contents \cup {0} /\ read.cert = held[a].cert /\ read.key = got
        BY <1>0 DEF Shape, Held
      <4>2. held[a].cert \in Contents
        BY <1>0, <2>1 DEF AgentType, Stage
      <4>3. read.cert \in CAs /\ read.key \in CAs
        BY <1>3, <2>5, <4>1, <4>2 DEF Contents
      <4> QED
        BY <2>2, <4>3 DEF KeyPairs, Held
    <3>2. Shape'
      BY <1>0, <2>1, <2>2, <2>5, StageNames, SameCAs DEF Shape
    <3>3. Others(a)
      BY <1>0, <2>5 DEF Shape, Others
    <3>4. pc'[a] = "built" /\ leaves'[a] = <<>> /\ held'[a] = read
      BY <1>0, <2>1, <2>5 DEF Shape, AgentType, Stage
    <3>5. AgentType(a)'
      BY <2>1, <3>1, <3>4, SameCAs, StageNames, StageKinds, NewAgent
    <3> QED
      BY <2>1, <3>2, <3>3, <3>5, AgentStep, SameCAs
  <2> QED
    BY <1>3, <2>3, <2>4, <2>5 DEF ReadKey
<1>4. ASSUME NEW a \in Agents, Create(a) PROVE TypeInv'
  <2> DEFINE ca == [domains |-> PermittedCADomains(conf[a].list), list |-> conf[a].list,
                    born |-> now]
             pair == [cert |-> Len(cas) + 1, key |-> Len(cas) + 1]
  <2>1. /\ UNCHANGED <<file, conf, leaves, since, trusted, kept, starts, now>>
        /\ pc[a] = "create" /\ cas' = Append(cas, ca) /\ held' = [held EXCEPT ![a] = pair]
    BY <1>4 DEF Create
  <2>2. PICK s \in {"open cert", "built"} :
          pc' = [pc EXCEPT ![a] = s] /\ (s = "open cert" => conf[a].files)
    BY <1>4 DEF Create
  <2>3. ca \in Authorities
    BY <1>0 DEF Shape, Authorities, Lists
  <2>4. /\ cas' \in Seq(Authorities) /\ Len(cas') = Len(cas) + 1
        /\ CAs \subseteq CAs' /\ Len(cas) + 1 \in CAs'
    <3>1. cas \in Seq(Authorities)
      BY <1>0 DEF Shape
    <3> HIDE DEF ca
    <3>2. /\ cas' \in Seq(Authorities) /\ Len(cas') = Len(cas) + 1
          /\ 1..Len(cas) \subseteq 1..(Len(cas) + 1) /\ Len(cas) + 1 \in 1..(Len(cas) + 1)
      <4>1. cas' = Append(cas, ca)
        BY <2>1
      <4> QED
        BY <2>3, <3>1, <4>1, Appended, Zenon
    <3> QED
      BY <3>2 DEF CAs
  <2>5. pair \in KeyPairs' /\ pair \in Held'
    BY <2>4 DEF KeyPairs, Held, Contents
  <2> HIDE DEF pair, ca
  <2>6. Contents \subseteq Contents' /\ Held \subseteq Held'
    BY <2>4, Grows
  <2>7. Shape'
    <3>1. held' \in [Agents -> Held']
      BY <1>0, <2>1, <2>5, <2>6 DEF Shape
    <3>2. file' \in [{"cert", "key"} -> Contents'] /\ pc' \in [Agents -> Stages]
      BY <1>0, <2>1, <2>2, <2>6, StageNames DEF Shape
    <3> QED
      BY <1>0, <2>1, <2>4, <3>1, <3>2 DEF Shape
  <2>8. Others(a)
    BY <1>0, <2>1, <2>2 DEF Shape, Others
  <2>9. pc'[a] = s /\ conf'[a] = conf[a] /\ leaves'[a] = <<>> /\ held'[a] = pair
    BY <1>0, <2>1, <2>2 DEF Shape, AgentType, Stage
  <2>10. AgentType(a)'
    BY <2>2, <2>5, <2>9, StageNames, StageKinds, NewAgent
  <2> QED
    BY <2>1, <2>4, <2>7, <2>8, <2>10, AgentStep
<1>5. ASSUME NEW a \in Agents, NEW f \in {"cert", "key"}, Open(a, f) \/ Fill(a, f) PROVE TypeInv'
  <2>1. UNCHANGED <<cas, trusted, kept, starts, now>> /\ pc[a] \in Writing
    <3>1. Opening[f] \in Writing /\ Filling[f] \in Writing
      BY FileStages DEF Writing
    <3> QED
      BY <1>5, <3>1 DEF Open, Fill
  <2>2. held[a] \in KeyPairs /\ conf[a].files /\ leaves[a] = <<>>
    BY <1>0, <2>1 DEF AgentType, Stage, Building, Writing
  <2>3. held[a][f] \in Contents
    BY <2>2 DEF KeyPairs, Contents
  <2>4. file' \in [{"cert", "key"} -> Contents]
    BY <1>0, <1>5, <2>3 DEF Open, Fill, Shape, Contents
  <2>5. CASE Gone(a)
    BY <2>1, <2>4, <2>5, GoneStep
  <2>6. CASE ~Gone(a)
    <3>0. UNCHANGED <<conf, held, leaves, since>>
      BY <1>5, <2>6 DEF Open, Fill
    <3>1. PICK s \in {"fill cert", "fill key", "open key", "built"} : pc' = [pc EXCEPT ![a] = s]
      <4>1. Filling[f] \in {"fill cert", "fill key"}
        BY FileStages
      <4> QED
        BY <1>5, <2>6, <4>1 DEF Open, Fill
    <3>2. Shape'
      BY <1>0, <2>1, <2>4, <3>0, <3>1, StageNames, SameCAs DEF Shape
    <3>3. Others(a)
      BY <1>0, <3>0, <3>1 DEF Shape, Others
    <3>4. pc'[a] = s
      BY <1>0, <3>1 DEF Shape
    <3>5. AgentType(a)'
      BY <2>1, <2>2, <3>0, <3>1, <3>4, SameCAs, StageNames, NewAgent
    <3> QED
      BY <2>1, <3>2, <3>3, <3>5, AgentStep, SameCAs
  <2> QED
    BY <2>5, <2>6
<1>6. ASSUME NEW a \in Agents, Export(a) PROVE TypeInv'
  <2>1. UNCHANGED <<file, cas, starts, now>> /\ pc[a] = "built"
    BY <1>6 DEF Export
  <2>2. held[a] \in KeyPairs /\ leaves[a] = <<>>
    BY <1>0, <2>1 DEF AgentType, Ready, Stage
  <2>3. held[a].cert \in CAs
    BY <2>2 DEF KeyPairs
  <2>4. CASE Gone(a) /\ UNCHANGED <<trusted, kept>>
    BY <1>0, <2>1, <2>4, GoneStep DEF Shape
  <2>5. CASE pc' = [pc EXCEPT ![a] = "bind"] /\ UNCHANGED <<conf, held, leaves, since>>
    <3>1. kept' \subseteq trusted' /\ trusted' \subseteq CAs
      BY <1>0, <1>6, <2>3 DEF Export, Shape
    <3>2. Shape'
      BY <1>0, <2>1, <2>5, <3>1, StageNames, SameCAs DEF Shape
    <3>3. Others(a)
      BY <1>0, <2>5 DEF Shape, Others
    <3>4. pc'[a] = "bind"
      BY <1>0, <2>5 DEF Shape
    <3>5. AgentType(a)'
      BY <2>1, <2>2, <2>5, <3>4, SameCAs, StageNames, StageKinds, NewAgent
    <3> QED
      BY <2>1, <3>2, <3>3, <3>5, AgentStep, SameCAs
  <2> QED
    BY <1>6, <2>4, <2>5 DEF Export
<1>7. ASSUME NEW a \in Agents, Bind(a) PROVE TypeInv'
  <2>1. UNCHANGED <<file, cas, trusted, kept, starts, now>> /\ pc[a] = "bind"
    BY <1>7 DEF Bind
  <2>2. held[a] \in KeyPairs /\ leaves[a] = <<>>
    BY <1>0, <2>1 DEF AgentType, Ready, Stage
  <2>3. CASE Gone(a)
    BY <1>0, <2>1, <2>3, GoneStep DEF Shape
  <2>4. CASE /\ pc' = [pc EXCEPT ![a] = "up"] /\ since' = [since EXCEPT ![a] = now]
             /\ UNCHANGED <<conf, held, leaves>>
    <3>1. now \in 0..now
      BY <1>0, LocalCAAssumption DEF Shape
    <3>2. Shape'
      BY <1>0, <2>1, <2>4, <3>1, StageNames, SameCAs DEF Shape
    <3>3. Others(a)
      BY <1>0, <2>4 DEF Shape, Others
    <3>4. pc'[a] = "up"
      BY <1>0, <2>4 DEF Shape
    <3>5. AgentType(a)'
      BY <2>1, <2>2, <2>4, <3>4, SameCAs, StageNames, StageKinds, NewAgent
    <3> QED
      BY <2>1, <3>2, <3>3, <3>5, AgentStep, SameCAs
  <2> QED
    BY <1>7, <2>3, <2>4 DEF Bind
<1>8. ASSUME NEW a \in Agents, Exit(a) PROVE TypeInv'
  BY <1>0, <1>8, GoneStep DEF Exit, Shape
<1>9. ASSUME NEW a \in Agents, NEW host \in Hosts, NEW sni \in Hosts \cup {<<>>},
             LeafFor(a, host, sni)
      PROVE  TypeInv'
  <2> DEFINE name == IF sni = <<>> THEN host ELSE sni
             new == [n \in DOMAIN leaves[a] \cup {name} |-> IF n = name THEN now ELSE leaves[a][n]]
  <2>1. /\ UNCHANGED <<file, pc, conf, held, since, cas, trusted, kept, starts, now>>
        /\ pc[a] = "up" /\ held[a].cert = held[a].key /\ leaves' = [leaves EXCEPT ![a] = new]
    BY <1>9 DEF LeafFor
  <2>2. name \in Hosts
    OBVIOUS
  <2>3. since[a] \in 0..now /\ now \in since[a]..now
    BY <1>0, LocalCAAssumption DEF Shape
  <2>4. /\ held[a] \in KeyPairs /\ DOMAIN leaves[a] \subseteq Hosts
        /\ \A n \in DOMAIN leaves[a] : leaves[a][n] \in since[a]..now
    BY <1>0, <2>1 DEF AgentType, Ready
  <2>5. DOMAIN new \subseteq Hosts /\ \A n \in DOMAIN new : new[n] \in since[a]..now
    BY <2>2, <2>3, <2>4
  <2> HIDE DEF new, name
  <2>6. leaves'[a] = new /\ DOMAIN leaves' = Agents
    BY <1>0, <2>1 DEF Shape
  <2>7. Shape'
    BY <1>0, <2>1, <2>6, SameCAs DEF Shape
  <2>8. Others(a)
    BY <1>0, <2>1 DEF Shape, Others
  <2>9. AgentType(a)'
    BY <2>1, <2>4, <2>5, <2>6, SameCAs DEF AgentType, Ready, Stage, Building, Writing
  <2> QED
    BY <2>1, <2>7, <2>8, <2>9, AgentStep, SameCAs
<1>10. ASSUME NEW f \in {"cert", "key"}, Remove(f) PROVE TypeInv'
  <2>1. /\ file' = [file EXCEPT ![f] = Missing]
        /\ UNCHANGED <<pc, conf, held, leaves, since, cas, trusted, kept, starts, now>>
    BY <1>10 DEF Remove
  <2>2. Shape'
    BY <1>0, <2>1, SameCAs DEF Shape, Contents
  <2>3. \A a \in Agents : AgentType(a)'
    BY <1>0, <2>1, UntouchedAgent, SameCAs
  <2> QED
    BY <2>2, <2>3 DEF TypeInv
<1>11. CASE Tick
  <2>1. /\ now' \in 0..MaxTime /\ now \in Nat /\ now' = now + 1
        /\ UNCHANGED <<file, pc, conf, held, leaves, since, cas, trusted, kept, starts>>
    BY <1>0, <1>11, LocalCAAssumption DEF Tick, Shape
  <2>2. Shape'
    BY <1>0, <2>1, SameCAs DEF Shape
  <2>3. ASSUME NEW a \in Agents PROVE AgentType(a)'
    <3>1. AgentType(a) /\ since[a] \in 0..now
      BY <1>0 DEF Shape
    <3>2. \A n \in DOMAIN leaves[a] : leaves[a][n] \in since[a]..now'
      BY <2>1, <3>1 DEF AgentType
    <3> QED
      BY <2>1, <3>1, <3>2, SameCAs DEF AgentType, Ready, Stage
  <2> QED
    BY <2>2, <2>3 DEF TypeInv
<1>12. CASE UNCHANGED vars
  <2>1. \A a \in Agents : AgentType(a)'
    BY <1>0, <1>12, UntouchedAgent, SameCAs DEF vars
  <2>2. Shape'
    BY <1>0, <1>12, SameCAs DEF vars, Shape
  <2> QED
    BY <2>1, <2>2 DEF TypeInv
<1>13. {Missing, Torn} \cup 1..Len(cas) = Contents
  BY DEF Contents, CAs
<1> QED
  BY <1>1, <1>2, <1>3, <1>4, <1>5, <1>6, <1>7, <1>8, <1>9, <1>10, <1>11, <1>12, <1>13 DEF Next

\* The CA files, the agents and the trust store keep their types through overlapping starts,
\* crashes and unreadable files (ca.go: LoadOrCreate, persist).
THEOREM TypeInvHolds == Spec => []TypeInv
<1>1. Init => TypeInv
  <2> SUFFICES ASSUME Init PROVE TypeInv
    OBVIOUS
  <2>1. Nothing \in Held /\ Missing \in Contents
    BY DEF Nothing, Held, Contents
  <2>2. <<>> \in Seq(Authorities) /\ 0 \in 0..MaxTime /\ 0 \in 0..MaxStarts /\ 0 \in 0..0
    BY LocalCAAssumption
  <2>3. Shape
    BY <2>1, <2>2, StageNames DEF Init, Shape
  <2>4. ASSUME NEW a \in Agents PROVE AgentType(a)
    <3>1. pc[a] = "off" /\ leaves[a] = <<>>
      BY DEF Init
    <3>2. DOMAIN leaves[a] = {}
      BY <3>1, NoLeaves, Zenon
    <3> QED
      BY <3>1, <3>2, StageKinds DEF AgentType, Ready, Stage
  <2> QED
    BY <2>3, <2>4 DEF TypeInv
<1> QED
  BY <1>1, TypeStep, PTL DEF Spec

\* The flag is only ever raised.
Raised ==
  \/ disturbed' = disturbed \/ disturbed' = TRUE
  \/ \E X \in BOOLEAN : disturbed' = (disturbed \/ X)

Flag == disturbed \in BOOLEAN

\* The flag is only ever raised.
LEMMA FlagStep == [Next]_vars => (disturbed => disturbed') /\ (Flag => Flag')
<1> SUFFICES ASSUME [Next]_vars PROVE Raised
  BY Zenon DEF Raised, Flag
<1>1. ASSUME NEW a \in Agents, NEW cfg \in Configs, Start(a, cfg) PROVE Raised
  BY <1>1, Zenon DEF Start, Raised
<1>2. ASSUME NEW a \in Agents, NEW got, ReadCert(a, got) \/ ReadKey(a, got) PROVE Raised
  BY <1>2, Zenon DEF ReadCert, ReadKey, Misread, Raised
<1>3. ASSUME UNCHANGED disturbed PROVE Raised
  BY <1>3, Zenon DEF Raised
<1>4. ASSUME NEW a \in Agents, Create(a) \/ Export(a) \/ Bind(a) \/ Exit(a) PROVE UNCHANGED disturbed
  BY <1>4 DEF Create, Export, Bind, Exit
<1>5. ASSUME NEW a \in Agents, NEW f \in {"cert", "key"}, Open(a, f) \/ Fill(a, f)
      PROVE  UNCHANGED disturbed
  BY <1>5 DEF Open, Fill
<1>6. ASSUME NEW a \in Agents, NEW host \in Hosts, NEW sni \in Hosts \cup {<<>>},
             LeafFor(a, host, sni)
      PROVE  UNCHANGED disturbed
  BY <1>6 DEF LeafFor
<1>7. ASSUME NEW f \in {"cert", "key"}, Remove(f) PROVE Raised
  BY <1>7, Zenon DEF Remove, Raised
<1>8. CASE Tick \/ UNCHANGED vars
  BY <1>3, <1>8 DEF Tick, vars
<1> QED
  BY <1>1, <1>2, <1>3, <1>4, <1>5, <1>6, <1>7, <1>8 DEF Next

\* The types, for any number of agents and starts (agent/main.go; ca.go).
THEOREM TypeHolds == Spec => []TypeOK
<1>1. Init => Flag
  BY DEF Init, Flag
<1>2. TypeInv /\ Flag => TypeOK
  BY DEF Flag, TypeInv, Shape, AgentType, TypeOK
<1> QED
  <2>1. Flag /\ [Next]_vars => Flag'
    BY FlagStep
  <2> QED
    BY <1>1, <1>2, <2>1, TypeInvHolds, PTL DEF Spec

-----------------------------------------------------------------------------
\* Leaves and constraints.

\* A host that a pattern matches is in or under the pattern's domain.
LEMMA MatchCovers ==
  ASSUME NEW p, NEW name \in Hosts, P!MatchHost(p, name)
  PROVE  Covers(p.labels, name)
<1>1. CASE p.wild
  BY <1>1 DEF P!MatchHost, Covers
<1>2. CASE ~p.wild
  <2>1. P!LowerHost(p.labels) = P!LowerHost(name)
    BY <1>2 DEF P!MatchHost
  <2>2. name \in Seq(DOMAIN Lower)
    BY HostsAssumption
  <2>3. P!LowerHost(name) \in Seq({Lower[l] : l \in DOMAIN Lower})
    BY <2>2 DEF P!LowerHost
  <2>4. P!EndsWith(P!LowerHost(name), P!LowerHost(name))
    BY <2>3 DEF P!EndsWith
  <2> QED
    BY <2>1, <2>4 DEF Covers
<1> QED
  BY <1>1, <1>2

\* MadeForList is inductive.
LEMMA MadeStep == TypeInv /\ MadeForList /\ [Next]_vars => MadeForList'
<1> SUFFICES ASSUME TypeInv, MadeForList, [Next]_vars PROVE MadeForList'
  OBVIOUS
<1>1. ASSUME cas' = cas PROVE MadeForList'
  BY <1>1 DEF MadeForList, CAs
<1>2. ASSUME NEW a \in Agents, Create(a) PROVE MadeForList'
  <2> DEFINE ca == [domains |-> PermittedCADomains(conf[a].list), list |-> conf[a].list,
                    born |-> now]
  <2>1. cas' = Append(cas, ca)
    BY <1>2 DEF Create
  <2>2. ca.domains = PermittedCADomains(ca.list)
    OBVIOUS
  <2>3. ca \in Authorities /\ cas \in Seq(Authorities)
    BY DEF TypeInv, Shape, Authorities, Lists
  <2> HIDE DEF ca
  <2>4. /\ Len(cas') = Len(cas) + 1 /\ cas'[Len(cas) + 1] = ca
        /\ \A i \in 1..Len(cas) : cas'[i] = cas[i]
    <3>1. /\ Len(Append(cas, ca)) = Len(cas) + 1 /\ Append(cas, ca)[Len(cas) + 1] = ca
          /\ \A i \in 1..Len(cas) : Append(cas, ca)[i] = cas[i]
      BY <2>3, Appended
    <3> QED
      BY <2>1, <3>1, Zenon
  <2>5. \A i \in 1..(Len(cas) + 1) : i \in 1..Len(cas) \/ i = Len(cas) + 1
    BY <2>3
  <2> QED
    BY <2>2, <2>4, <2>5 DEF MadeForList, CAs
<1>3. ASSUME NEW a \in Agents, NEW got, NEW cfg,
             ReadCert(a, got) \/ ReadKey(a, got) \/ Start(a, cfg) \/ Export(a) \/ Bind(a) \/ Exit(a)
      PROVE  cas' = cas
  BY <1>3 DEF ReadCert, ReadKey, Start, Export, Bind, Exit
<1>4. ASSUME NEW a \in Agents, NEW f, Open(a, f) \/ Fill(a, f) PROVE cas' = cas
  BY <1>4 DEF Open, Fill
<1>5. ASSUME NEW a \in Agents, NEW host, NEW sni, LeafFor(a, host, sni) PROVE cas' = cas
  BY <1>5 DEF LeafFor
<1>6. ASSUME NEW f, Remove(f) \/ Tick \/ UNCHANGED vars PROVE cas' = cas
  BY <1>6 DEF Remove, Tick, vars
<1> QED
  BY <1>1, <1>2, <1>3, <1>4, <1>5, <1>6, Zenon DEF Next

\* Every CA is constrained to the intercept list of the agent that made it (ca.go: New).
THEOREM MadeForListHolds == Spec => []MadeForList
<1>1. Init => MadeForList
  BY DEF Init, MadeForList, CAs
<1> QED
  BY <1>1, MadeStep, TypeInvHolds, PTL DEF Spec

\* Adding a lifetime keeps the order of two times.
LEMMA Later ==
  ASSUME NEW s \in Nat, NEW n \in Nat, NEW l \in s..n, NEW life \in Nat, n <= s + life
  PROVE  n <= l + life
OBVIOUS

\* A tool accepts the leaf of every host a pattern with a domain intercepts, while
\* the CA and the agent are young enough (ca.go: LeafFor; config.go).
THEOREM LeafVerifiesHolds == Spec => []LeafVerifies
<1>1. TypeInv /\ MadeForList => LeafVerifies
  <2> SUFFICES ASSUME TypeInv, MadeForList, NEW a \in Agents, pc[a] = "up",
                      NEW name \in DOMAIN leaves[a],
                      IsIntercepted({p \in conf[a].list : NamesDomain(p)}, name),
                      held[a].cert \in trusted,
                      cas[held[a].cert].list = conf[a].list,
                      now <= cas[held[a].cert].born + CALife,
                      now <= since[a] + LeafLife
               PROVE  Verifies(a, name)
    BY DEF LeafVerifies
  <2>1. AgentType(a) /\ Shape
    BY DEF TypeInv
  <2>2. held[a].cert = held[a].key /\ held[a].cert \in CAs
    BY <2>1 DEF AgentType, Stage, Ready, KeyPairs
  <2>3. name \in Hosts /\ leaves[a][name] \in since[a]..now /\ since[a] \in 0..now /\ now \in Nat
    BY <2>1, LocalCAAssumption DEF AgentType, Shape
  <2>4. now <= leaves[a][name] + LeafLife
    <3>1. since[a] \in Nat
      BY <2>3
    <3> QED
      BY <2>3, <3>1, Later, LocalCAAssumption
  <2>5. PICK p \in conf[a].list : NamesDomain(p) /\ P!MatchHost(p, name)
    BY DEF IsIntercepted, P!hostAllowed
  <2>6. p.labels \in cas[held[a].cert].domains
    BY <2>2, <2>5 DEF MadeForList, PermittedCADomains
  <2>7. Permits(cas[held[a].cert].domains, name)
    BY <2>3, <2>5, <2>6, MatchCovers DEF Permits
  <2> QED
    BY <2>2, <2>4, <2>7 DEF Verifies
<1> QED
  BY <1>1, TypeInvHolds, MadeForListHolds, PTL

\* A leaf is accepted only for a name in or under a domain of the intercept list,
\* whatever a tool asks for (config.go: PermittedCADomains; ca.go: New).
THEOREM ConstrainedHolds == Spec => []Constrained
<1>1. TypeInv /\ MadeForList => Constrained
  <2> SUFFICES ASSUME TypeInv, MadeForList, NEW a \in Agents, pc[a] = "up",
                      NEW name \in DOMAIN leaves[a], Verifies(a, name),
                      cas[held[a].cert].list = conf[a].list,
                      {p \in conf[a].list : NamesDomain(p)} # {}
               PROVE  \E p \in {p \in conf[a].list : NamesDomain(p)} : Covers(p.labels, name)
    BY DEF Constrained
  <2>1. held[a].cert \in CAs
    BY DEF TypeInv, AgentType, Ready, KeyPairs
  <2>2. cas[held[a].cert].domains = PermittedCADomains(conf[a].list)
    BY <2>1 DEF MadeForList
  <2>3. PermittedCADomains(conf[a].list) # {}
    BY DEF PermittedCADomains
  <2>4. PICK d \in PermittedCADomains(conf[a].list) : Covers(d, name)
    BY <2>2, <2>3 DEF Verifies, Permits
  <2> QED
    BY <2>4 DEF PermittedCADomains
<1> QED
  BY <1>1, TypeInvHolds, MadeForListHolds, PTL

-----------------------------------------------------------------------------
\* The files.

\* Nobody else builds, and as long as no key is on file nobody serves from the files.
LEMMA Builder ==
  ASSUME FileInv, ~disturbed, NEW a \in Agents, OnFile(a)
  PROVE  \A b \in Agents \ {a} : ~OnFile(b)
BY DEF FileInv, OneBuilds

\* What a step of one agent that leaves the files alone owes FileInv.
LEMMA FilesKept ==
  ASSUME TypeInv, FileInv, ~disturbed, NEW a \in Agents, Others(a), file' = file,
         CAs \subseteq CAs', CAs' \subseteq Nat, OnFile(a)' => OnFile(a), Finds(a)',
         kept' # {} => file["key"] \in CAs /\ kept' \subseteq {file["cert"]}
  PROVE  FileInv'
<1>1. OneBuilds /\ Pair /\ \A b \in Agents : Finds(b)
  BY DEF FileInv
<1>2. ASSUME NEW b \in Agents, b # a PROVE (OnFile(b)' <=> OnFile(b)) /\ Finds(b)'
  <2>1. pc'[b] = pc[b] /\ conf'[b] = conf[b] /\ held'[b] = held[b]
    BY <1>2 DEF Others
  <2> QED
    BY <1>1, <1>2, <2>1 DEF OnFile, Finds, Ready
<1>3. OneBuilds'
  BY <1>1, <1>2 DEF OneBuilds
<1>4. file["key"] \in Contents
  BY DEF TypeInv, Shape
<1>5. file["key"] \in CAs' => file["key"] \in CAs
  BY <1>4, LocalCAAssumption DEF Contents
<1>6. Pair'
  BY <1>1, <1>5 DEF Pair
<1> QED
  BY <1>2, <1>3, <1>6 DEF FileInv

\* What one that writes a file owes it, if no key is on file yet.
LEMMA FilesWritten ==
  ASSUME TypeInv, FileInv, ~disturbed, NEW a \in Agents, OnFile(a), Others(a),
         file["key"] \notin CAs, cas' = cas, kept' = kept, Pair', Finds(a)'
  PROVE  FileInv'
<1>1. kept = {} /\ \A b \in Agents : Finds(b)
  BY DEF FileInv
<1>2. ASSUME NEW b \in Agents, b # a PROVE ~OnFile(b)' /\ Finds(b)'
  <2>1. pc'[b] = pc[b] /\ conf'[b] = conf[b] /\ held'[b] = held[b]
    BY <1>2 DEF Others
  <2>2. ~OnFile(b)
    BY <1>2, Builder
  <2>3. pc[b] \in Building \ {"create"} => conf[b].files
    BY DEF TypeInv, AgentType, Stage
  <2>4. pc[b] \notin Building \ {"create"} /\ ~(pc[b] = "create" /\ conf[b].files)
    BY <2>2, <2>3 DEF OnFile, Building
  <2>5. Ready(b) => held[b].key \in CAs /\ held[b].cert = held[b].key
    BY <1>1 DEF TypeInv, AgentType, KeyPairs, Finds
  <2>6. ~(Ready(b) /\ conf[b].files)
    BY <1>1, <2>5 DEF Finds
  <2>7. ~OnFile(b)'
    BY <2>1, <2>2 DEF OnFile
  <2>8. pc[b] # "read key" /\ pc[b] \notin Writing
    BY <2>4, StageKinds DEF Building
  <2>9. (Ready(b)' <=> Ready(b))
    BY <2>1 DEF Ready
  <2> QED
    BY <2>1, <2>4, <2>5, <2>6, <2>7, <2>8, <2>9, StageKinds DEF Finds
<1>3. OneBuilds'
  BY <1>2 DEF OneBuilds
<1> QED
  BY <1>1, <1>2, <1>3 DEF FileInv

\* An agent that is gone looks for nothing in the files.
LEMMA GoneFinds ==
  ASSUME TypeInv, NEW a \in Agents, Gone(a)
  PROVE  Finds(a)' /\ ~OnFile(a)'
<1>1. pc'[a] = "off"
  BY DEF TypeInv, Shape, Gone, Goto
<1> QED
  BY <1>1, StageKinds DEF Finds, Ready, OnFile

\* FileInv is inductive.
LEMMA FileStep == TypeInv /\ FileInv /\ [Next]_vars => FileInv'
<1> SUFFICES ASSUME TypeInv, FileInv, [Next]_vars, ~disturbed' PROVE FileInv'
  BY DEF FileInv
<1>0. ~disturbed
  BY FlagStep
<1>a. /\ Shape /\ Pair /\ \A a \in Agents : AgentType(a) /\ Finds(a)
      /\ kept # {} => file["key"] \in CAs /\ kept \subseteq {file["cert"]}
  BY <1>0 DEF TypeInv, FileInv
<1>b. CAs \subseteq Nat /\ Missing \notin CAs /\ Torn \notin CAs /\ Missing # Torn
  BY LocalCAAssumption DEF CAs
<1> USE DEF Goto
<1>1. ASSUME NEW a \in Agents, NEW cfg \in Configs, Start(a, cfg) PROVE FileInv'
  <2>1. /\ UNCHANGED <<file, held, leaves, since, cas, trusted, kept, now>>
        /\ conf' = [conf EXCEPT ![a] = cfg]
        /\ disturbed' = \/ disturbed
                        \/ cfg.files /\ \E b \in Agents : conf[b].files /\ pc[b] \in Building
    BY <1>1 DEF Start
  <2>2. PICK s \in {"read cert", "create"} : pc' = [pc EXCEPT ![a] = s] /\ (s = "create" => ~cfg.files)
    BY <1>1 DEF Start
  <2>3. cfg.files => \A b \in Agents : ~OnFile(b)
    <3>1. ~(cfg.files /\ \E b \in Agents : conf[b].files /\ pc[b] \in Building)
      BY <2>1, Zenon
    <3> QED
      BY <3>1 DEF OnFile
  <2>4. Others(a) /\ pc'[a] = s /\ conf'[a] = cfg
    BY <1>a, <2>1, <2>2 DEF Shape, Others
  <2>5. Finds(a)'
    BY <2>2, <2>4, StageKinds DEF Finds, Ready
  <2>6. CASE ~cfg.files
    <3>1. ~OnFile(a)'
      BY <2>4, <2>6 DEF OnFile
    <3> QED
      BY <1>0, <1>a, <1>b, <2>1, <2>4, <2>5, <3>1, SameCAs, FilesKept
  <2>7. CASE cfg.files
    <3>1. ASSUME NEW b \in Agents, b # a PROVE ~OnFile(b)' /\ Finds(b)'
      <4>1. pc'[b] = pc[b] /\ conf'[b] = conf[b] /\ held'[b] = held[b] /\ file' = file
        BY <2>1, <2>4, <3>1 DEF Others
      <4> QED
        BY <1>a, <2>3, <2>7, <4>1 DEF OnFile, Finds, Ready
    <3>2. OneBuilds'
      BY <3>1 DEF OneBuilds
    <3>3. Pair'
      BY <1>a, <2>1, SameCAs DEF Pair
    <3> QED
      BY <1>a, <2>1, <2>5, <3>1, <3>2, <3>3, SameCAs DEF FileInv
  <2> QED
    BY <2>6, <2>7
<1>2. ASSUME NEW a \in Agents, NEW got \in Contents, ReadCert(a, got) PROVE FileInv'
  <2>1. /\ UNCHANGED <<file, conf, leaves, since, cas, trusted, kept, starts, now>>
        /\ pc[a] = "read cert" /\ pc' = [pc EXCEPT ![a] = "read key"]
        /\ held' = [held EXCEPT ![a] = [held[a] EXCEPT !.cert = got]]
        /\ disturbed' = (disturbed \/ got # file["cert"])
    BY <1>2 DEF ReadCert, Misread
  <2>2. got = file["cert"]
    BY <2>1, Zenon
  <2>3. held[a] \in Held
    BY <1>a DEF Shape
  <2>4. pc'[a] = "read key" /\ held'[a].cert = file["cert"] /\ Others(a)
    BY <1>a, <2>1, <2>2, <2>3 DEF Shape, Others, Held
  <2>5. Finds(a)'
    BY <2>1, <2>4, StageKinds DEF Finds, Ready
  <2>6. OnFile(a)
    BY <1>a, <2>1, StageKinds DEF AgentType, Stage, OnFile
  <2> QED
    BY <1>0, <1>a, <1>b, <2>1, <2>4, <2>5, <2>6, SameCAs, FilesKept
<1>3. ASSUME NEW a \in Agents, NEW got \in Contents, ReadKey(a, got) PROVE FileInv'
  <2> DEFINE read == [held[a] EXCEPT !.key = got]
  <2>1. /\ UNCHANGED <<file, cas, trusted, kept, starts, now>> /\ pc[a] = "read key"
        /\ disturbed' = (disturbed \/ got # file["key"])
    BY <1>3 DEF ReadKey, Misread
  <2>2. got = file["key"]
    BY <2>1, Zenon
  <2>3. OnFile(a) /\ conf[a].files
    BY <1>a, <2>1, StageKinds DEF AgentType, Stage, OnFile
  <2>4. held[a] \in Held /\ held[a].cert = file["cert"]
    BY <1>a, <2>1 DEF Shape, Finds
  <2>5. read.cert = file["cert"] /\ read.key = file["key"]
    BY <2>2, <2>4 DEF Held
  <2>6. CASE Gone(a)
    BY <1>0, <1>a, <1>b, <2>1, <2>3, <2>6, SameCAs, GoneTypes, GoneFinds, FilesKept
  <2>7. CASE /\ Missing \in {read.cert, read.key}
             /\ held' = [held EXCEPT ![a] = Nothing] /\ pc' = [pc EXCEPT ![a] = "create"]
             /\ UNCHANGED <<conf, leaves, since>>
    <3>1. file["key"] = Missing
      BY <1>a, <1>b, <2>5, <2>7 DEF Pair
    <3>2. pc'[a] = "create" /\ Others(a)
      BY <1>a, <2>7 DEF Shape, Others
    <3>3. Finds(a)'
      BY <2>1, <3>1, <3>2, StageKinds DEF Finds, Ready
    <3> QED
      BY <1>0, <1>a, <1>b, <2>1, <2>3, <3>2, <3>3, SameCAs, FilesKept
  <2>8. CASE /\ {Missing, Torn} \cap {read.cert, read.key} = {}
             /\ held' = [held EXCEPT ![a] = read] /\ pc' = [pc EXCEPT ![a] = "built"]
             /\ UNCHANGED <<conf, leaves, since>>
    <3>1. file["key"] \in CAs
      <4>1. file["key"] \in Contents
        BY <1>a DEF Shape
      <4> QED
        BY <2>5, <2>8, <4>1 DEF Contents
    <3>2. file["cert"] = file["key"]
      BY <1>a, <3>1 DEF Pair
    <3>3. pc'[a] = "built" /\ held'[a] = read /\ Others(a)
      BY <1>a, <2>8 DEF Shape, Others
    <3>4. held'[a].cert = file["cert"] /\ held'[a].key = file["key"]
      BY <2>5, <3>3
    <3> HIDE DEF read
    <3>5. Finds(a)'
      BY <2>1, <3>2, <3>3, <3>4, StageKinds DEF Finds, Ready
    <3> QED
      BY <1>0, <1>a, <1>b, <2>1, <2>3, <3>3, <3>5, SameCAs, FilesKept
  <2> QED
    BY <1>3, <2>6, <2>7, <2>8 DEF ReadKey
<1>4. ASSUME NEW a \in Agents, Create(a) PROVE FileInv'
  <2> DEFINE ca == [domains |-> PermittedCADomains(conf[a].list), list |-> conf[a].list,
                    born |-> now]
             pair == [cert |-> Len(cas) + 1, key |-> Len(cas) + 1]
  <2>1. /\ UNCHANGED <<file, conf, leaves, since, trusted, kept, starts, now>>
        /\ pc[a] = "create" /\ cas' = Append(cas, ca) /\ held' = [held EXCEPT ![a] = pair]
    BY <1>4 DEF Create
  <2>2. PICK s \in {"open cert", "built"} :
          pc' = [pc EXCEPT ![a] = s] /\ (s = "open cert" <=> conf[a].files)
    BY <1>4 DEF Create
  <2>3. CAs \subseteq CAs' /\ CAs' \subseteq Nat
    <3>1. ca \in Authorities /\ cas \in Seq(Authorities)
      BY <1>a DEF Shape, Authorities, Lists
    <3> HIDE DEF ca
    <3>2. cas' = Append(cas, ca)
      BY <2>1
    <3>3. Len(cas') = Len(cas) + 1 /\ 1..Len(cas) \subseteq 1..(Len(cas) + 1)
      BY <3>1, <3>2, Appended, Zenon
    <3>4. CAs' = 1..(Len(cas) + 1)
      BY <3>3 DEF CAs
    <3>5. CAs' \subseteq Nat
      BY <3>1, <3>2, <3>4, Appended, Zenon
    <3>6. CAs \subseteq CAs'
      BY <3>3, <3>4, Zenon DEF CAs
    <3> QED
      BY <3>5, <3>6
  <2>4. pair.cert = pair.key
    OBVIOUS
  <2> HIDE DEF ca, pair
  <2>5. pc'[a] = s /\ held'[a] = pair /\ conf'[a] = conf[a] /\ Others(a)
    BY <1>a, <2>1, <2>2 DEF Shape, Others
  <2>6. conf[a].files => file["key"] = Missing /\ OnFile(a)
    BY <1>a, <2>1, StageKinds DEF Finds, OnFile
  <2>7. Finds(a)'
    <3>1. held'[a].cert = held'[a].key
      BY <2>4, <2>5
    <3> QED
      BY <2>1, <2>2, <2>5, <2>6, <3>1 DEF Finds, Ready
  <2>8. OnFile(a)' => OnFile(a)
    BY <2>5, <2>6 DEF OnFile
  <2> QED
    BY <1>0, <1>a, <2>1, <2>3, <2>5, <2>7, <2>8, FilesKept
<1>5. ASSUME NEW a \in Agents, NEW f \in {"cert", "key"}, Open(a, f) \/ Fill(a, f) PROVE FileInv'
  <2>1. UNCHANGED <<cas, trusted, kept, starts, now>> /\ pc[a] \in Writing
    <3>1. Opening[f] \in Writing /\ Filling[f] \in Writing
      BY FileStages DEF Writing
    <3> QED
      BY <1>5, <3>1 DEF Open, Fill
  <2>2. /\ OnFile(a) /\ conf[a].files /\ held[a] \in KeyPairs /\ held[a].cert = held[a].key
        /\ held[a].cert \in CAs
    BY <1>a, <2>1, StageKinds DEF AgentType, Stage, OnFile, Finds, KeyPairs
  <2>3. file["key"] \in {Missing, Torn} /\ (file["key"] = Torn => pc[a] = "fill key")
    BY <1>a, <1>b, <2>1, StageKinds DEF Finds
  <2>4. DOMAIN file = {"cert", "key"} /\ file["key"] \notin CAs
    BY <1>a, <1>b, <2>3 DEF Shape
  <2>5. CASE f = "cert"
    <3>1. /\ pc[a] \in {"open cert", "fill cert"} /\ file["key"] = Missing
          /\ pc[a] = Opening[f] => pc[a] = "open cert"
      <4>1. Opening[f] = "open cert" /\ Filling[f] = "fill cert"
        BY <2>5 DEF Opening, Filling
      <4>2. pc[a] \in {"open cert", "fill cert"}
        BY <1>5, <4>1 DEF Open, Fill
      <4> QED
        BY <1>a, <4>1, <4>2 DEF Finds
    <3>2. file'["key"] = Missing
      BY <1>5, <2>4, <2>5, <3>1 DEF Open, Fill
    <3>3. Pair'
      BY <1>b, <2>1, <3>2, SameCAs DEF Pair
    <3>4. CASE Gone(a)
      BY <1>0, <2>1, <2>2, <2>4, <3>3, <3>4, GoneTypes, GoneFinds, FilesWritten
    <3>5. CASE ~Gone(a)
      <4>1. UNCHANGED <<conf, held, leaves, since>>
        BY <1>5, <3>5 DEF Open, Fill
      <4>2. PICK s : /\ pc' = [pc EXCEPT ![a] = s]
                     /\ s = "fill cert" \/ (s = "open key" /\ file'["cert"] = held[a].cert)
        <5>1. CASE Open(a, f)
          <6>1. Filling[f] = "fill cert"
            BY <2>5 DEF Filling
          <6> QED
            BY <3>5, <5>1, <6>1 DEF Open
        <5>2. CASE Fill(a, f)
          <6>1. pc' = [pc EXCEPT ![a] = "open key"] /\ file' = [file EXCEPT ![f] = held[a][f]]
            BY <2>5, <3>5, <5>2 DEF Fill
          <6>2. file'["cert"] = held[a].cert
            BY <2>4, <2>5, <6>1
          <6> QED
            BY <6>1, <6>2
        <5> QED
          BY <1>5, <5>1, <5>2
      <4>3. pc'[a] = s /\ Others(a)
        BY <1>a, <4>1, <4>2 DEF Shape, Others
      <4>4. Finds(a)'
        BY <2>2, <3>2, <4>1, <4>2, <4>3 DEF Finds, Ready
      <4> QED
        BY <1>0, <2>1, <2>2, <2>4, <3>3, <4>3, <4>4, FilesWritten
    <3> QED
      BY <3>4, <3>5
  <2>6. CASE f = "key"
    <3>1. file["cert"] = held[a].cert
      <4>1. Opening[f] = "open key" /\ Filling[f] = "fill key"
        BY <2>6 DEF Opening, Filling
      <4>2. pc[a] \in {"open key", "fill key"}
        BY <1>5, <4>1 DEF Open, Fill
      <4> QED
        BY <1>a, <4>2 DEF Finds
    <3>2. file'["cert"] = held[a].cert /\ file'["key"] \in {file["key"], Torn, held[a].key}
      BY <1>5, <2>4, <2>6, <3>1 DEF Open, Fill
    <3>3. Pair'
      BY <2>1, <2>2, <2>3, <3>2, <1>b, SameCAs DEF Pair
    <3>4. CASE Gone(a)
      BY <1>0, <2>1, <2>2, <2>4, <3>3, <3>4, GoneTypes, GoneFinds, FilesWritten
    <3>5. CASE ~Gone(a)
      <4>1. UNCHANGED <<conf, held, leaves, since>>
        BY <1>5, <3>5 DEF Open, Fill
      <4>2. PICK s : /\ pc' = [pc EXCEPT ![a] = s]
                     /\ \/ s = "fill key" /\ file'["key"] = Torn
                        \/ s = "built" /\ file'["key"] = held[a].key
        <5>1. CASE Open(a, f)
          <6>1. Filling[f] = "fill key"
            BY <2>6 DEF Filling
          <6>2. pc' = [pc EXCEPT ![a] = "fill key"] /\ file' = [file EXCEPT ![f] = Torn]
            BY <3>5, <5>1, <6>1 DEF Open
          <6> QED
            BY <2>4, <2>6, <6>2
        <5>2. CASE Fill(a, f)
          <6>1. pc' = [pc EXCEPT ![a] = "built"] /\ file' = [file EXCEPT ![f] = held[a][f]]
            BY <2>6, <3>5, <5>2 DEF Fill
          <6>2. file'["key"] = held[a].key
            BY <2>4, <2>6, <6>1
          <6> QED
            BY <6>1, <6>2
        <5> QED
          BY <1>5, <5>1, <5>2
      <4>3. pc'[a] = s /\ Others(a)
        BY <1>a, <4>1, <4>2 DEF Shape, Others
      <4>4. Finds(a)'
        BY <2>2, <3>2, <4>1, <4>2, <4>3 DEF Finds, Ready
      <4> QED
        BY <1>0, <2>1, <2>2, <2>4, <3>3, <4>3, <4>4, FilesWritten
    <3> QED
      BY <3>4, <3>5
  <2> QED
    BY <2>5, <2>6
<1>6. ASSUME NEW a \in Agents, Gone(a), UNCHANGED <<file, cas, kept>> PROVE FileInv'
  BY <1>0, <1>a, <1>b, <1>6, SameCAs, GoneTypes, GoneFinds, FilesKept
<1>7. ASSUME NEW a \in Agents, NEW s \in {"bind", "up"}, pc' = [pc EXCEPT ![a] = s], Ready(a),
             UNCHANGED <<file, conf, held, leaves, cas>>,
             \A b \in Agents \ {a} : since'[b] = since[b],
             \/ kept' = kept
             \/ conf[a].files /\ kept' = kept \cup {held[a].cert}
      PROVE  FileInv'
  <2>1. pc'[a] = s /\ Others(a)
    BY <1>a, <1>7 DEF Shape, Others
  <2>2. Finds(a) /\ held[a].key \in CAs
    BY <1>a, <1>7 DEF AgentType, KeyPairs
  <2>3. Finds(a)'
    BY <1>7, <2>1, <2>2, StageKinds DEF Finds, Ready
  <2>4. ~OnFile(a)'
    BY <2>1, StageKinds DEF OnFile
  <2>5. kept' # {} => file["key"] \in CAs /\ kept' \subseteq {file["cert"]}
    BY <1>a, <1>7, <2>2 DEF Finds
  <2> QED
    BY <1>0, <1>7, <1>b, <2>1, <2>3, <2>4, <2>5, SameCAs, FilesKept
<1>8. ASSUME NEW a \in Agents, Export(a) PROVE FileInv'
  <2>1. Ready(a) /\ UNCHANGED <<file, cas>>
    BY <1>8 DEF Export, Ready
  <2>2. CASE Gone(a) /\ UNCHANGED kept
    BY <1>6, <2>1, <2>2
  <2>3. CASE /\ pc' = [pc EXCEPT ![a] = "bind"] /\ UNCHANGED <<conf, held, leaves, since>>
             /\ \/ kept' = kept
                \/ conf[a].files /\ kept' = kept \cup {held[a].cert}
    BY <1>7, <2>1, <2>3
  <2>4. \/ Gone(a) /\ UNCHANGED kept
        \/ /\ Goto(a, "bind") /\ UNCHANGED <<conf, held, leaves, since>>
           /\ \/ UNCHANGED kept
              \/ kept' = IF conf[a].files THEN kept \cup {held[a].cert} ELSE kept
    BY <1>8 DEF Export
  <2> QED
    BY <2>2, <2>3, <2>4 DEF Goto
<1>9. ASSUME NEW a \in Agents, Bind(a) PROVE FileInv'
  <2>1. Ready(a) /\ UNCHANGED <<file, cas, kept>>
    BY <1>9 DEF Bind, Ready
  <2>2. CASE Gone(a)
    BY <1>6, <2>1, <2>2
  <2>3. CASE /\ pc' = [pc EXCEPT ![a] = "up"] /\ since' = [since EXCEPT ![a] = now]
             /\ UNCHANGED <<conf, held, leaves>>
    <3>1. \A b \in Agents \ {a} : since'[b] = since[b]
      BY <1>a, <2>3 DEF Shape
    <3>2. "up" \in {"bind", "up"} /\ kept' = kept
      BY <2>1
    <3>3. pc' = [pc EXCEPT ![a] = "up"] /\ UNCHANGED <<file, conf, held, leaves, cas>>
      BY <2>1, <2>3
    <3> QED
      BY <1>7, <2>1, <3>1, <3>2, <3>3
  <2> QED
    BY <1>9, <2>2, <2>3 DEF Bind
<1>10. ASSUME NEW a \in Agents, Exit(a) PROVE FileInv'
  BY <1>6, <1>10 DEF Exit
<1>11. ASSUME UNCHANGED <<file, pc, conf, held, cas, kept>> PROVE FileInv'
  <2>1. \A a \in Agents : (OnFile(a)' <=> OnFile(a)) /\ Finds(a)'
    BY <1>a, <1>11 DEF OnFile, Finds, Ready
  <2>2. OneBuilds'
    BY <1>0, <2>1 DEF FileInv, OneBuilds
  <2>3. Pair'
    BY <1>a, <1>11, SameCAs DEF Pair
  <2> QED
    BY <1>a, <1>11, <2>1, <2>2, <2>3, SameCAs DEF FileInv
<1>12. ASSUME NEW a \in Agents, NEW host \in Hosts, NEW sni \in Hosts \cup {<<>>},
              LeafFor(a, host, sni)
       PROVE  FileInv'
  BY <1>11, <1>12 DEF LeafFor
<1>13. ASSUME NEW f \in {"cert", "key"}, Remove(f) PROVE FALSE
  <2>1. disturbed' = TRUE
    BY <1>13 DEF Remove
  <2> QED
    BY <2>1, Zenon
<1>14. CASE Tick \/ UNCHANGED vars
  BY <1>11, <1>14 DEF Tick, vars
<1>15. {Missing, Torn} \cup 1..Len(cas) = Contents
  BY DEF Contents, CAs
<1> QED
  BY <1>1, <1>2, <1>3, <1>4, <1>5, <1>8, <1>9, <1>10, <1>12, <1>13, <1>14, <1>15 DEF Next

\* The inductive invariant behind KeyMatches and TrustKept: as long as nothing was disturbed,
\* one agent at most is building, and the files hold the pair it makes, as far as it has come,
\* or the pair that was exported (ca.go: LoadOrCreate, persist).
THEOREM FileInvHolds == Spec => []FileInv
<1>1. Init => FileInv
  BY LocalCAAssumption DEF Init, FileInv, OneBuilds, OnFile, Building, Pair, CAs, Finds, Writing,
                           Ready
<1> QED
  BY <1>1, FileStep, TypeInvHolds, PTL DEF Spec

\* An agent that starts can sign, whatever part of persist an earlier one died in
\* (ca.go: LoadOrCreate, persist).
THEOREM KeyMatchesHolds == Spec => []KeyMatches
<1>1. FileInv => KeyMatches
  BY DEF FileInv, Finds, KeyMatches
<1> QED
  BY <1>1, FileInvHolds, PTL

\* Once a CA on file was exported, every agent that uses the files has that CA
\* (ca.go: LoadOrCreate).
THEOREM TrustKeptHolds == Spec => []TrustKept
<1>1. FileInv => TrustKept
  BY DEF FileInv, Finds, TrustKept
<1> QED
  BY <1>1, FileInvHolds, PTL
=============================================================================
