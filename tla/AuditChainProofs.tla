-------------------------- MODULE AuditChainProofs --------------------------
(***************************************************************************)
(* Proofs about AuditChain, for any number of writers, records, failures   *)
(* and edits.                                                              *)
(***************************************************************************)
EXTENDS AuditChain, SequenceTheorems, WellFoundedInduction, TLAPS

-----------------------------------------------------------------------------
\* The type invariant.

Positive == life # 0

\* What a write that broke off leaves is a line.
LEMMA TornLineType == TornLine \in Lines
<1>1. Marshal(NoEntry) \in Json
  BY DEF Marshal, NoEntry, Json
<1>2. Genesis \in Seq(Json)
  BY DEF Genesis
<1> QED
  BY <1>1, <1>2 DEF TornLine, Lines

\* A record linked to a hash is a line, linked to that hash (audit.go: ChainWriter.Write).
LEMMA LineType ==
  ASSUME NEW prev \in Seq(Json), NEW e \in Entries \cup {NoEntry}
  PROVE  /\ Line(prev, e) \in Lines
         /\ LinkedTo(Line(prev, e), prev)
<1>1. Marshal(e) \in Json
  <2>1. CASE e \in Entries
    BY <2>1, AuditAssumption DEF Marshal, Json
  <2>2. CASE e = NoEntry
    BY <2>2 DEF Marshal, NoEntry, Json
  <2> QED
    BY <2>1, <2>2
<1>2. hashRecord(prev, Marshal(e)) \in Seq(Json)
  BY <1>1 DEF hashRecord
<1> QED
  BY <1>1, <1>2 DEF Line, Lines, LinkedTo, Whole

\* Lines of an edited file carry the hashes of lines it had before.
StemsFrom(g, f) ==
  \A j \in 1..Len(g) : \E i \in 1..Len(f) :
    g[j].bytes = f[i].bytes /\ g[j].prev = f[i].prev /\ g[j].hash = f[i].hash

\* Two parts of a file, put one after the other.
LEMMA PartsType ==
  ASSUME NEW f \in Seq(Lines), NEW m \in 0..Len(f), NEW n \in 1..(Len(f) + 1)
  PROVE  /\ SubSeq(f, 1, m) \o SubSeq(f, n, Len(f)) \in Seq(Lines)
         /\ StemsFrom(SubSeq(f, 1, m) \o SubSeq(f, n, Len(f)), f)
<1> DEFINE a == SubSeq(f, 1, m)
           b == SubSeq(f, n, Len(f))
<1>0. Len(f) \in Nat
  OBVIOUS
<1>1. a \in Seq(Lines) /\ Len(a) = m /\ \A j \in 1..m : a[j] = f[j]
  BY <1>0, SubSeqProperties
<1>2. b \in Seq(Lines) /\ Len(b) = Len(f) - n + 1 /\ \A j \in 1..Len(b) : b[j] = f[n + j - 1]
  BY <1>0, SubSeqProperties
<1> HIDE DEF a, b
<1>3. /\ a \o b \in Seq(Lines) /\ Len(a \o b) = Len(a) + Len(b)
      /\ \A j \in 1..(Len(a) + Len(b)) :
           (a \o b)[j] = IF j <= Len(a) THEN a[j] ELSE b[j - Len(a)]
  BY <1>1, <1>2, ConcatProperties
<1>4. ASSUME NEW j \in 1..Len(a \o b) PROVE \E i \in 1..Len(f) : (a \o b)[j] = f[i]
  <2>1. CASE j <= m
    BY <1>0, <1>1, <1>3, <2>1
  <2>2. CASE j > m
    <3>1. j - m \in 1..Len(b) /\ (a \o b)[j] = b[j - m]
      BY <1>0, <1>1, <1>2, <1>3, <2>2
    <3>2. n + (j - m) - 1 \in 1..Len(f)
      BY <1>0, <1>1, <1>2, <2>2, <3>1
    <3> QED
      BY <1>2, <3>1, <3>2
  <2> QED
    BY <1>0, <2>1, <2>2
<1>5. StemsFrom(a \o b, f)
  BY <1>4 DEF StemsFrom
<1> QED
  BY <1>3, <1>5 DEF a, b

\* No edit of the file makes a line with new hashes.
LEMMA TamperType ==
  ASSUME file \in Seq(Lines), Tamper
  PROVE  file' \in Seq(Lines) /\ StemsFrom(file', file)
<1>0. Len(file) \in Nat
  OBVIOUS
<1>1. PICK k \in 1..Len(file) :
        \/ file' = Without(file, k)
        \/ file' = SubSeq(file, 1, k) \o SubSeq(file, k, Len(file))
        \/ k < Len(file) /\ file' = [file EXCEPT ![k] = file[k + 1], ![k + 1] = file[k]]
        \/ \E e \in Entries : file' = [file EXCEPT ![k].json = Marshal(e)]
  BY DEF Tamper
<1>2. k - 1 \in 0..Len(file) /\ k \in 0..Len(file) /\ k \in 1..(Len(file) + 1)
      /\ k + 1 \in 1..(Len(file) + 1)
  BY <1>0
<1>3. CASE file' = Without(file, k)
  BY <1>2, <1>3, PartsType DEF Without
<1>4. CASE file' = SubSeq(file, 1, k) \o SubSeq(file, k, Len(file))
  BY <1>2, <1>4, PartsType
<1>5. CASE k < Len(file) /\ file' = [file EXCEPT ![k] = file[k + 1], ![k + 1] = file[k]]
  <2>1. k + 1 \in 1..Len(file)
    BY <1>0, <1>5
  <2>2. file' \in Seq(Lines) /\ Len(file') = Len(file)
    <3>1. file[k] \in Lines /\ file[k + 1] \in Lines
      BY <2>1
    <3>2. ASSUME NEW g \in Seq(Lines), NEW i \in 1..Len(g), NEW l \in Lines
          PROVE  [g EXCEPT ![i] = l] \in Seq(Lines) /\ Len([g EXCEPT ![i] = l]) = Len(g)
      OBVIOUS
    <3>3. file' = [[file EXCEPT ![k] = file[k + 1]] EXCEPT ![k + 1] = file[k]]
      BY <1>5
    <3> QED
      BY <2>1, <3>1, <3>2, <3>3
  <2>3. \A j \in 1..Len(file) : file'[j] = file[j] \/ file'[j] = file[k] \/ file'[j] = file[k + 1]
    BY <1>5, <2>1
  <2> QED
    BY <2>1, <2>2, <2>3 DEF StemsFrom
<1>6. ASSUME NEW e \in Entries, file' = [file EXCEPT ![k].json = Marshal(e)]
      PROVE  file' \in Seq(Lines) /\ StemsFrom(file', file)
  <2> DEFINE l == [file[k] EXCEPT !.json = Marshal(e)]
  <2>0. file[k] \in Lines
    OBVIOUS
  <2>1. Marshal(e) \in Json
    BY AuditAssumption DEF Marshal, Json
  <2>2. l \in Lines /\ l.bytes = file[k].bytes /\ l.prev = file[k].prev /\ l.hash = file[k].hash
    BY <2>0, <2>1 DEF Lines
  <2>3. file' = [file EXCEPT ![k] = l]
    BY <1>6
  <2> HIDE DEF l
  <2>4. file' \in Seq(Lines) /\ Len(file') = Len(file)
    BY <2>2, <2>3
  <2>5. \A j \in 1..Len(file) : file'[j] = file[j] \/ (j = k /\ file'[j] = l)
    BY <2>3
  <2> QED
    BY <2>2, <2>4, <2>5 DEF StemsFrom
<1> QED
  BY <1>1, <1>3, <1>4, <1>5, <1>6

\* A failing write leaves the file alone or a broken line behind (audit.go:
\* ChainWriter.Write, its error path).
LEMMA FailLeaves ==
  ASSUME TypeOK, NEW w \in Writers, WriteFails(w)
  PROVE  file' = file \/ \E l \in Lines : ~Whole(l) /\ file' = Append(file, l)
<1>1. TornLine \in Lines /\ ~Whole(TornLine)
  BY TornLineType DEF TornLine, Whole
<1>2. line[w] \in Lines
  BY DEF TypeOK
<1>3. Unended(line[w]) \in Lines /\ ~Whole(Unended(line[w]))
  BY <1>2 DEF Unended, Whole, Lines
<1> QED
  BY <1>1, <1>3 DEF WriteFails

\* Write's return keeps the types of what it resets.
LEMMA ReturnType ==
  ASSUME TypeOK, NEW w \in Writers, Return(w)
  PROVE  /\ mu' \in Writers \cup {NoWriter}
         /\ pc' \in [Writers -> {"idle", "lock", "write"}]
         /\ entry' \in [Writers -> Entries \cup {NoEntry}]
         /\ line' \in [Writers -> Lines]
BY TornLineType DEF TypeOK, Return

\* The chain writer and its file keep their types through concurrent writes, failed
\* writes, restarts and edits, and the process has started at least once (audit.go:
\* ChainWriter, Record).
THEOREM TypeHolds == Spec => [](TypeOK /\ Positive)
<1>1. Init => TypeOK /\ Positive
  BY TornLineType DEF Init, TypeOK, Positive, Genesis
<1>2. TypeOK /\ Positive /\ [Next]_vars => TypeOK' /\ Positive'
  <2> SUFFICES ASSUME TypeOK, Positive, [Next]_vars PROVE TypeOK' /\ Positive'
    OBVIOUS
  <2> USE DEF TypeOK, Positive
  <2>1. ASSUME NEW w \in Writers, NEW e \in Entries, Call(w, e) PROVE TypeOK' /\ Positive'
    BY <2>1 DEF Call
  <2>2. ASSUME NEW w \in Writers, Link(w) PROVE TypeOK' /\ Positive'
    <3>1. Line(last, entry[w]) \in Lines
      BY LineType
    <3> QED
      BY <2>2, <3>1 DEF Link
  <2>3. ASSUME NEW w \in Writers, WriteLine(w) PROVE TypeOK' /\ Positive'
    <3>1. line[w] \in Lines /\ line[w].hash \in Seq(Json)
      BY DEF Lines
    <3>2. Append(file, line[w]) \in Seq(Lines) /\ Append(trail, line[w]) \in Seq(Lines)
      BY <3>1, AppendProperties
    <3>3. file' \in Seq(Lines) /\ trail' \in Seq(Lines) /\ last' \in Seq(Json)
      BY <2>3, <3>1, <3>2 DEF WriteLine
    <3> QED
      BY <2>3, <3>3, ReturnType DEF WriteLine
  <2>4. ASSUME NEW w \in Writers, WriteFails(w) PROVE TypeOK' /\ Positive'
    <3>1. file' = file \/ \E l \in Lines : file' = Append(file, l)
      BY <2>4, FailLeaves
    <3>2. \A l \in Lines : Append(file, l) \in Seq(Lines)
      BY AppendProperties
    <3>3. failures' \in Nat
      BY <2>4 DEF WriteFails
    <3>4. Return(w) /\ UNCHANGED <<last, trail, life, ncalls, tampers>>
      BY <2>4 DEF WriteFails
    <3> QED
      BY <3>1, <3>2, <3>3, <3>4, ReturnType
  <2>5. CASE Restart
    <3>1. life' \in Nat \ {0} /\ last' \in Seq(Json)
      BY <2>5 DEF Restart, Genesis
    <3> QED
      BY <2>5, <3>1, TornLineType DEF Restart
  <2>6. CASE Tamper
    <3>1. file' \in Seq(Lines)
      BY <2>6, TamperType
    <3> QED
      BY <2>6, <3>1 DEF Tamper
  <2>7. CASE UNCHANGED vars
    BY <2>7 DEF vars
  <2> QED
    BY <2>1, <2>2, <2>3, <2>4, <2>5, <2>6, <2>7 DEF Next, Write
<1> QED
  BY <1>1, <1>2, PTL DEF Spec

-----------------------------------------------------------------------------
\* The chain written so far: what ChainInv and OriginInv state of the trail.
Chained(f, head) ==
  /\ head = HashBefore(f, Len(f) + 1)
  /\ \A k \in 1..Len(f) : LinkedTo(f[k], HashBefore(f, k))

Numbered(f) == \A k \in 1..Len(f) : Len(f[k].hash) = k

\* Appending a line linked to the head extends the chain and makes its hash the
\* head (audit.go: the success path of ChainWriter.Write).
LEMMA AppendLinked ==
  ASSUME NEW f \in Seq(Lines), NEW head \in Seq(Json), NEW l \in Lines,
         Chained(f, head), LinkedTo(l, head)
  PROVE  Chained(Append(f, l), l.hash)
<1> DEFINE g == Append(f, l)
           n == Len(f)
<1>1. /\ n \in Nat /\ Len(g) = n + 1 /\ g[n + 1] = l
      /\ \A k \in 1..n : g[k] = f[k]
  OBVIOUS
<1>2. /\ head = HashBefore(f, n + 1)
      /\ \A k \in 1..n : LinkedTo(f[k], HashBefore(f, k))
  BY DEF Chained
<1> HIDE DEF g, n
<1>3. \A k \in 1..(n + 1) : HashBefore(g, k) = HashBefore(f, k)
  <2> SUFFICES ASSUME NEW k \in 1..(n + 1) PROVE HashBefore(g, k) = HashBefore(f, k)
    OBVIOUS
  <2>1. k # 1 => k - 1 \in 1..n
    BY <1>1
  <2> QED
    BY <1>1, <2>1 DEF HashBefore
<1>4. l.hash = HashBefore(g, Len(g) + 1)
  BY <1>1 DEF HashBefore
<1>5. ASSUME NEW k \in 1..(n + 1) PROVE LinkedTo(g[k], HashBefore(g, k))
  <2>1. CASE k = n + 1
    BY <1>1, <1>2, <1>3, <2>1
  <2>2. CASE k \in 1..n
    BY <1>1, <1>2, <1>3, <2>2
  <2> QED
    BY <1>1, <2>1, <2>2
<1> QED
  BY <1>1, <1>4, <1>5 DEF Chained, g

\* The hash of a linked line is one longer than the head it was linked to, and the
\* hash of record k is the k-th (audit.go: hashRecord).
LEMMA AppendNumbered ==
  ASSUME NEW f \in Seq(Lines), NEW head \in Seq(Json), NEW l \in Lines,
         Chained(f, head), Numbered(f), LinkedTo(l, head)
  PROVE  Numbered(Append(f, l))
<1>1. Len(f) \in Nat /\ Len(head) \in Nat /\ l.json \in Json
  <2>1. Len(f) \in Nat /\ Len(head) \in Nat
    OBVIOUS
  <2>2. l.json \in Json
    BY DEF Lines
  <2> QED
    BY <2>1, <2>2
<1>2. Len(head) = Len(f)
  <2>1. head = HashBefore(f, Len(f) + 1)
    BY DEF Chained
  <2>2. CASE Len(f) = 0
    BY <2>1, <2>2 DEF HashBefore, Genesis
  <2>3. CASE Len(f) # 0
    <3>1. head = f[Len(f)].hash
      BY <1>1, <2>1, <2>3 DEF HashBefore
    <3>2. Len(f) \in 1..Len(f)
      BY <1>1, <2>3
    <3> QED
      BY <3>1, <3>2 DEF Numbered
  <2> QED
    BY <2>2, <2>3
<1>3. Len(l.hash) = Len(head) + 1
  <2>1. l.hash = Append(head, l.json)
    BY DEF LinkedTo, hashRecord
  <2> QED
    BY <1>1, <2>1
<1> DEFINE g == Append(f, l)
<1>4. Len(g) = Len(f) + 1 /\ g[Len(f) + 1] = l /\ \A k \in 1..Len(f) : g[k] = f[k]
  OBVIOUS
<1> HIDE DEF g
<1>5. ASSUME NEW k \in 1..Len(g) PROVE Len(g[k].hash) = k
  <2>1. CASE k = Len(f) + 1
    BY <1>2, <1>3, <1>4, <2>1
  <2>2. CASE k \in 1..Len(f)
    BY <1>4, <2>2 DEF Numbered
  <2> QED
    BY <1>1, <1>4, <2>1, <2>2
<1> QED
  BY <1>5 DEF Numbered, g

\* A file that ends in a broken line is not whole.
LEMMA AppendTorn ==
  ASSUME NEW f \in Seq(Lines), NEW l \in Lines, ~Whole(l)
  PROVE  ~\A k \in 1..Len(Append(f, l)) : Whole(Append(f, l)[k])
<1>1. /\ Len(Append(f, l)) \in 1..Len(Append(f, l))
      /\ Append(f, l)[Len(Append(f, l))] = l
  OBVIOUS
<1> QED
  BY <1>1

\* Whoever has linked its record holds the mutex, and the head stays while it does.
Held ==
  /\ \A w \in Writers : pc[w] = "write" <=> mu = w
  /\ \A w \in Writers : pc[w] = "write" => LinkedTo(line[w], last)

\* Held is inductive.
LEMMA HeldStep ==
  ASSUME TypeOK, Held, [Next]_vars
  PROVE  Held'
<1>1. ASSUME NEW w \in Writers, NEW e \in Entries, Call(w, e) PROVE Held'
  BY <1>1 DEF Call, Held, TypeOK
<1>2. ASSUME NEW w \in Writers, Link(w) PROVE Held'
  <2>1. LinkedTo(Line(last, entry[w]), last)
    BY LineType DEF TypeOK
  <2>2. \A v \in Writers : pc[v] # "write"
    BY <1>2, AuditAssumption DEF Link, Held
  <2>3. \A v \in Writers : pc'[v] = "write" <=> mu' = v
    BY <1>2, <2>2 DEF Link, TypeOK
  <2>4. \A v \in Writers : pc'[v] = "write" => LinkedTo(line'[v], last')
    BY <1>2, <2>1, <2>2 DEF Link, TypeOK
  <2> QED
    BY <2>3, <2>4 DEF Held
<1>3. ASSUME NEW w \in Writers, WriteLine(w) \/ WriteFails(w) PROVE Held'
  <2>1. mu = w
    BY <1>3 DEF WriteLine, WriteFails, Held
  <2>2. \A v \in Writers : pc'[v] # "write" /\ mu' # v
    BY <1>3, <2>1, AuditAssumption DEF WriteLine, WriteFails, Return, Held, TypeOK
  <2> QED
    BY <2>2 DEF Held
<1>4. CASE Restart
  BY <1>4, AuditAssumption DEF Restart, Held
<1>5. CASE Tamper \/ UNCHANGED vars
  BY <1>5 DEF Tamper, vars, Held
<1> QED
  BY <1>1, <1>2, <1>3, <1>4, <1>5 DEF Next, Write

\* The trail grows only by WriteLine, which links.
LEMMA TrailStep ==
  ASSUME TypeOK, Positive, Held, [Next]_vars,
         life = 1 => Chained(trail, last) /\ Numbered(trail)
  PROVE  life' = 1 => Chained(trail', last') /\ Numbered(trail')
<1>1. ASSUME NEW w \in Writers, WriteLine(w), life' = 1
      PROVE  Chained(trail', last') /\ Numbered(trail')
  <2>1. LinkedTo(line[w], last) /\ line[w] \in Lines /\ trail \in Seq(Lines) /\ last \in Seq(Json)
    BY <1>1 DEF WriteLine, Held, TypeOK
  <2>2. Chained(trail, last) /\ Numbered(trail)
    BY <1>1 DEF WriteLine
  <2>3. trail' = Append(trail, line[w]) /\ last' = line[w].hash
    BY <1>1 DEF WriteLine
  <2> QED
    BY <2>1, <2>2, <2>3, AppendLinked, AppendNumbered
<1>2. CASE Restart
  <2>1. life' # 1
    BY <1>2 DEF Restart, TypeOK, Positive
  <2> QED
    BY <2>1
<1>3. CASE UNCHANGED <<trail, last, life>>
  BY <1>3
<1>4. ASSUME NEW w \in Writers, \/ Link(w) \/ WriteFails(w)
                                \/ \E e \in Entries : Call(w, e)
      PROVE  UNCHANGED <<trail, last, life>>
  BY <1>4 DEF Link, WriteFails, Call
<1>5. Tamper \/ UNCHANGED vars => UNCHANGED <<trail, last, life>>
  BY DEF Tamper, vars
<1> QED
  BY <1>1, <1>2, <1>3, <1>4, <1>5 DEF Next, Write

\* The file nobody edited is the trail, broken lines apart.
Untouched(f, t) == (\A k \in 1..Len(f) : Whole(f[k])) => f = t

\* The unedited file follows the trail.
LEMMA FileStep ==
  ASSUME TypeOK, [Next]_vars, tampers = 0 => Untouched(file, trail)
  PROVE  tampers' = 0 => Untouched(file', trail')
<1>1. ASSUME NEW w \in Writers, WriteLine(w), tampers' = 0 PROVE Untouched(file', trail')
  <2>1. line[w] \in Lines /\ file \in Seq(Lines) /\ Untouched(file, trail)
    BY <1>1 DEF WriteLine, TypeOK
  <2>2. file' = Append(file, line[w]) /\ trail' = Append(trail, line[w])
    BY <1>1 DEF WriteLine
  <2>3. /\ Len(Append(file, line[w])) = Len(file) + 1
        /\ \A k \in 1..Len(file) : k \in 1..(Len(file) + 1) /\ Append(file, line[w])[k] = file[k]
    BY <2>1
  <2> QED
    BY <2>1, <2>2, <2>3 DEF Untouched
<1>2. ASSUME NEW w \in Writers, WriteFails(w), tampers' = 0 PROVE Untouched(file', trail')
  <2>1. file \in Seq(Lines) /\ Untouched(file, trail) /\ trail' = trail
    BY <1>2 DEF WriteFails, TypeOK
  <2>2. file' = file \/ \E l \in Lines : ~Whole(l) /\ file' = Append(file, l)
    BY <1>2, FailLeaves
  <2> QED
    BY <2>1, <2>2, AppendTorn DEF Untouched
<1>3. CASE Tamper
  <2>1. tampers' # 0
    BY <1>3 DEF Tamper, TypeOK
  <2> QED
    BY <2>1
<1>4. CASE UNCHANGED <<file, trail, tampers>>
  BY <1>4
<1>5. ASSUME NEW w \in Writers, Link(w) \/ \E e \in Entries : Call(w, e)
      PROVE  UNCHANGED <<file, trail, tampers>>
  BY <1>5 DEF Link, Call
<1>6. Restart \/ UNCHANGED vars => UNCHANGED <<file, trail, tampers>>
  BY DEF Restart, vars
<1> QED
  BY <1>1, <1>2, <1>3, <1>4, <1>5, <1>6 DEF Next, Write

\* Every whole line of f carries the hashes of a record of t.
Originates(f, t) ==
  \A k \in 1..Len(f) : Whole(f[k]) =>
    \E i \in 1..Len(t) : f[k].prev = t[i].prev /\ f[k].hash = t[i].hash

\* No step, edits included, puts hashes into the file that no record of the trail carries.
LEMMA OriginStep ==
  ASSUME TypeOK, [Next]_vars, Originates(file, trail)
  PROVE  Originates(file', trail')
<1>0. file \in Seq(Lines) /\ trail \in Seq(Lines) /\ Len(file) \in Nat /\ Len(trail) \in Nat
  BY DEF TypeOK
<1>1. ASSUME NEW w \in Writers, WriteLine(w) PROVE Originates(file', trail')
  <2>1. line[w] \in Lines
    BY DEF TypeOK
  <2>2. file' = Append(file, line[w]) /\ trail' = Append(trail, line[w])
    BY <1>1 DEF WriteLine
  <2>3. /\ Len(file') = Len(file) + 1 /\ file'[Len(file) + 1] = line[w]
        /\ \A k \in 1..Len(file) : file'[k] = file[k]
    BY <1>0, <2>1, <2>2
  <2>4. /\ Len(trail') = Len(trail) + 1 /\ trail'[Len(trail) + 1] = line[w]
        /\ \A k \in 1..Len(trail) : trail'[k] = trail[k]
    BY <1>0, <2>1, <2>2
  <2>5. Len(trail) + 1 \in 1..Len(trail') /\ \A i \in 1..Len(trail) : i \in 1..Len(trail')
    BY <1>0, <2>4
  <2>6. ASSUME NEW k \in 1..Len(file'), Whole(file'[k])
        PROVE  \E i \in 1..Len(trail') : file'[k].prev = trail'[i].prev /\ file'[k].hash = trail'[i].hash
    <3>1. CASE k = Len(file) + 1
      BY <2>3, <2>4, <2>5, <3>1
    <3>2. CASE k \in 1..Len(file)
      BY <2>3, <2>4, <2>5, <2>6, <3>2 DEF Originates
    <3> QED
      BY <1>0, <2>3, <3>1, <3>2
  <2> QED
    BY <2>6 DEF Originates
<1>2. ASSUME NEW w \in Writers, WriteFails(w) PROVE Originates(file', trail')
  <2>1. trail' = trail /\ (file' = file \/ \E l \in Lines : ~Whole(l) /\ file' = Append(file, l))
    BY <1>2, FailLeaves DEF WriteFails
  <2>2. ASSUME NEW l \in Lines, ~Whole(l), file' = Append(file, l) PROVE Originates(file', trail')
    <3>1. /\ Len(file') = Len(file) + 1 /\ file'[Len(file) + 1] = l
          /\ \A k \in 1..Len(file) : file'[k] = file[k]
      BY <1>0, <2>2
    <3>2. \A k \in 1..Len(file') : k = Len(file) + 1 \/ k \in 1..Len(file)
      BY <1>0, <3>1
    <3> QED
      BY <2>1, <2>2, <3>1, <3>2 DEF Originates
  <2> QED
    BY <2>1, <2>2
<1>3. CASE Tamper
  <2>1. StemsFrom(file', file) /\ trail' = trail
    BY <1>0, <1>3, TamperType DEF Tamper
  <2>2. ASSUME NEW k \in 1..Len(file'), Whole(file'[k])
        PROVE  \E i \in 1..Len(trail) : file'[k].prev = trail[i].prev /\ file'[k].hash = trail[i].hash
    <3>1. PICK j \in 1..Len(file) : /\ file'[k].bytes = file[j].bytes
                                    /\ file'[k].prev = file[j].prev /\ file'[k].hash = file[j].hash
      BY <2>1 DEF StemsFrom
    <3>2. Whole(file[j])
      BY <2>2, <3>1 DEF Whole
    <3>3. PICK i \in 1..Len(trail) : file[j].prev = trail[i].prev /\ file[j].hash = trail[i].hash
      BY <3>2 DEF Originates
    <3> QED
      BY <3>1, <3>3
  <2> QED
    BY <2>1, <2>2 DEF Originates
<1>4. CASE UNCHANGED <<file, trail>>
  BY <1>4
<1>5. ASSUME NEW w \in Writers, Link(w) \/ \E e \in Entries : Call(w, e)
      PROVE  UNCHANGED <<file, trail>>
  BY <1>5 DEF Link, Call
<1>6. Restart \/ UNCHANGED vars => UNCHANGED <<file, trail>>
  BY DEF Restart, vars
<1> QED
  BY <1>1, <1>2, <1>3, <1>4, <1>5, <1>6 DEF Next, Write

-----------------------------------------------------------------------------
\* Whatever the number of handlers, records and failed writes: the chain stays
\* linked, its head is the hash of its last record, and a handler that is writing
\* holds the mutex and a line linked to that head (audit.go: ChainWriter.Write).
THEOREM ChainInvHolds == Spec => []ChainInv
<1> DEFINE Trail == life = 1 => Chained(trail, last) /\ Numbered(trail)
           File == tampers = 0 => Untouched(file, trail)
<1>1. Init => Held /\ Trail /\ File
  <2> SUFFICES ASSUME Init PROVE Held /\ Trail /\ File
    OBVIOUS
  <2>1. Len(trail) = 0 /\ file = trail /\ last = Genesis
    BY DEF Init
  <2>2. \A w \in Writers : pc[w] # "write" /\ mu # w
    BY AuditAssumption DEF Init
  <2> QED
    BY <2>1, <2>2 DEF Held, Chained, Numbered, Untouched, HashBefore
<1>2. TypeOK /\ Positive /\ Held /\ Trail /\ File /\ [Next]_vars => Held' /\ Trail' /\ File'
  BY HeldStep, TrailStep, FileStep
<1>3. Held /\ Trail /\ File => ChainInv
  BY DEF Held, Chained, Untouched, ChainInv
<1> QED
  BY <1>1, <1>2, <1>3, TypeHolds, PTL DEF Spec

\* Through any edits of the file: the hash of the k-th record of a first life is the
\* k-th of its chain, and every whole line of the file carries the hashes of a record
\* the program wrote (audit.go: hashRecord).
THEOREM OriginInvHolds == Spec => []OriginInv
<1> DEFINE Trail == life = 1 => Chained(trail, last) /\ Numbered(trail)
           File == Originates(file, trail)
<1>1. Init => Held /\ Trail /\ File
  <2> SUFFICES ASSUME Init PROVE Held /\ Trail /\ File
    OBVIOUS
  <2>1. Len(trail) = 0 /\ file = trail /\ last = Genesis
    BY DEF Init
  <2>2. \A w \in Writers : pc[w] # "write" /\ mu # w
    BY AuditAssumption DEF Init
  <2> QED
    BY <2>1, <2>2 DEF Held, Chained, Numbered, Originates, HashBefore
<1>2. TypeOK /\ Positive /\ Held /\ Trail /\ File /\ [Next]_vars => Held' /\ Trail' /\ File'
  BY HeldStep, TrailStep, OriginStep
<1>3. Trail /\ File => OriginInv
  BY DEF Numbered, Originates, OriginInv
<1> QED
  BY <1>1, <1>2, <1>3, TypeHolds, PTL DEF Spec

\* JSON that was not escaped reads back as it was written.
LEMMA PlainRoundTrip ==
  ASSUME NEW m \in Json, m.form # "escape"
  PROVE  Marshal(Unmarshal(m)) = m
  BY DEF Marshal, Unmarshal, Json

\* What decoding returned is encoded without escapes, and decodes to itself.
LEMMA ReadAgain ==
  ASSUME NEW m \in Json
  PROVE  Marshal(Unmarshal(m)) \in Json /\ Unmarshal(Marshal(Unmarshal(m))) = Unmarshal(m)
  BY DEF Marshal, Unmarshal, Json

\* A log that only one life of the process wrote, without broken lines and
\* without bytes JSON cannot round-trip, is accepted by VerifyChain.
THEOREM LifeVerifiesHolds == Spec => []LifeVerifies
<1>1. TypeOK /\ ChainInv => LifeVerifies
  <2> SUFFICES ASSUME TypeOK, ChainInv, life = 1, tampers = 0, RoundTrips(file),
                      NEW k \in 1..Len(file)
               PROVE  RecordOK(file, k)
    BY DEF LifeVerifies, Verifies
  <2>1. \A i \in 1..Len(file) : Whole(file[i]) /\ file[i].json.form # "escape"
    BY DEF RoundTrips
  <2>2. file = trail /\ file \in Seq(Lines)
    BY <2>1 DEF ChainInv, TypeOK
  <2>3. LinkedTo(file[k], HashBefore(file, k))
    BY <2>2 DEF ChainInv
  <2>4. file[k].json \in Json
    <3>1. file[k] \in Lines
      BY <2>2
    <3> QED
      BY <3>1 DEF Lines
  <2>5. Marshal(Unmarshal(file[k].json)) = file[k].json
    BY <2>1, <2>4, PlainRoundTrip
  <2> QED
    BY <2>3, <2>5 DEF RecordOK, LinkedTo, Whole, HashBefore
<1> QED
  BY <1>1, TypeHolds, ChainInvHolds, PTL

\* A nonempty set of natural numbers has a least member.
LEMMA Least ==
  ASSUME NEW T, T \subseteq Nat, T # {}
  PROVE  \E x \in T : \A y \in T : x <= y
<1>1. IsWellFoundedOn(OpToRel(<, Nat), Nat)
  BY NatLessThanWellFounded
<1>2. PICK x \in T : \A y \in T : ~(<<y, x>> \in OpToRel(<, Nat))
  BY <1>1, WFMin
<1>3. \A y \in T : ~(<<y, x>> \in {p \in Nat \X Nat : p[1] < p[2]})
  BY <1>2 DEF OpToRel
<1>4. ASSUME NEW y \in T PROVE x <= y
  <2>1. x \in Nat /\ y \in Nat
    OBVIOUS
  <2>2. ~(y < x)
    BY <1>3, <2>1
  <2> QED
    BY <2>1, <2>2
<1> QED
  BY <1>4

\* A verifying file whose lines all carry hashes of the trail goes through the trail
\* in order: a line whose predecessor is record k - 1 names the hash of that record,
\* and only record k does.
LEMMA VerifiedLine ==
  ASSUME NEW f \in Seq(Lines), NEW t \in Seq(Lines), NEW head, NEW k \in 1..Len(f),
         Chained(t, head), Numbered(t), Originates(f, t), Verifies(f), Whole(f[k]),
         k = 1 \/ (k - 1 \in 1..Len(t) /\ ReadsAs(f[k - 1], t[k - 1]))
  PROVE  k \in 1..Len(t) /\ ReadsAs(f[k], t[k])
<1>0. Len(t) \in Nat /\ k \in Nat
  OBVIOUS
<1>1. /\ f[k].prev = HashBefore(f, k)
      /\ f[k].hash = Append(f[k].prev, Marshal(Unmarshal(f[k].json)))
  BY DEF Verifies, RecordOK, HashBefore, hashRecord
<1>2. PICK i \in 1..Len(t) : f[k].prev = t[i].prev /\ f[k].hash = t[i].hash
  BY <1>1 DEF Originates
<1>3. Len(f[k].prev) = k - 1
  <2>1. CASE k = 1
    BY <1>1, <2>1 DEF HashBefore, Genesis
  <2>2. CASE k # 1
    <3>1. f[k].prev = t[k - 1].hash /\ k - 1 \in 1..Len(t)
      BY <1>1, <2>2 DEF HashBefore, ReadsAs
    <3> QED
      BY <3>1 DEF Numbered
  <2> QED
    BY <2>1, <2>2
<1>4. LinkedTo(t[i], HashBefore(t, i)) /\ t[i] \in Lines /\ f[k] \in Lines
  BY DEF Chained
<1>5. t[i].json \in Json /\ f[k].json \in Json /\ t[i].prev \in Seq(Json)
  BY <1>4 DEF Lines
<1>6. t[i].hash = Append(t[i].prev, t[i].json)
  BY <1>4 DEF LinkedTo, hashRecord
<1>7. Len(t[i].hash) = Len(t[i].prev) + 1 /\ Len(t[i].hash) = i
  BY <1>5, <1>6 DEF Numbered
<1>8. i = k
  BY <1>0, <1>2, <1>3, <1>7
<1>9. Marshal(Unmarshal(f[k].json)) = t[i].json
  <2>1. Append(t[i].prev, Marshal(Unmarshal(f[k].json))) = Append(t[i].prev, t[i].json)
    BY <1>1, <1>2, <1>6
  <2>2. Marshal(Unmarshal(f[k].json)) \in Json
    BY <1>5, ReadAgain
  <2>3. ASSUME NEW s \in Seq(Json), NEW a \in Json, NEW b \in Json, Append(s, a) = Append(s, b)
        PROVE  a = b
    <3>1. Append(s, a)[Len(s) + 1] = a /\ Append(s, b)[Len(s) + 1] = b
      OBVIOUS
    <3> QED
      BY <2>3, <3>1
  <2> QED
    BY <1>5, <2>1, <2>2, <2>3
<1>10. Unmarshal(f[k].json) = Unmarshal(t[i].json)
  BY <1>5, <1>9, ReadAgain
<1> QED
  BY <1>2, <1>8, <1>10 DEF ReadsAs

\* However often the file of a first life is edited, without computing new hashes, and
\* whatever was written to it meanwhile: if VerifyChain accepts it and no line broke
\* off, it reads as a prefix of the records the program wrote (audit.go: VerifyChain).
\* By the least line that does not.
THEOREM TamperEvidentHolds == Spec => []TamperEvident
<1>1. TypeOK /\ ChainInv /\ OriginInv => TamperEvident
  <2> SUFFICES ASSUME TypeOK, ChainInv, OriginInv, life = 1, Verifies(file),
                      \A k \in 1..Len(file) : Whole(file[k])
               PROVE  /\ Len(file) <= Len(trail)
                      /\ \A k \in 1..Len(file) : ReadsAs(file[k], trail[k])
    BY DEF TamperEvident
  <2>1. file \in Seq(Lines) /\ trail \in Seq(Lines) /\ Len(file) \in Nat /\ Len(trail) \in Nat
    BY DEF TypeOK
  <2>2. Chained(trail, last) /\ Numbered(trail) /\ Originates(file, trail)
    BY DEF ChainInv, OriginInv, Chained, Numbered, Originates
  <2> DEFINE Good(k) == k \in 1..Len(trail) /\ ReadsAs(file[k], trail[k])
             Bad == {k \in 1..Len(file) : ~Good(k)}
  <2>3. Bad = {}
    <3>1. SUFFICES ASSUME Bad # {} PROVE FALSE
      OBVIOUS
    <3>2. Bad \subseteq Nat
      OBVIOUS
    <3>3. PICK k \in Bad : \A y \in Bad : k <= y
      BY <3>1, <3>2, Least
    <3>4. k \in 1..Len(file) /\ ~Good(k)
      OBVIOUS
    <3>5. k = 1 \/ Good(k - 1)
      <4>1. SUFFICES ASSUME k # 1, ~Good(k - 1) PROVE FALSE
        OBVIOUS
      <4>2. k - 1 \in 1..Len(file) /\ ~(k <= k - 1)
        BY <2>1, <3>4, <4>1
      <4>3. k - 1 \in Bad
        BY <4>1, <4>2
      <4> QED
        BY <3>3, <4>2, <4>3
    <3>6. Good(k)
      BY <2>1, <2>2, <3>4, <3>5, VerifiedLine
    <3> QED
      BY <3>4, <3>6
  <2>4. \A k \in 1..Len(file) : Good(k)
    BY <2>3
  <2>5. Len(file) <= Len(trail)
    <3>1. CASE Len(file) = 0
      BY <2>1, <3>1
    <3>2. CASE Len(file) # 0
      <4>1. Len(file) \in 1..Len(file)
        BY <2>1, <3>2
      <4>2. Len(file) \in 1..Len(trail)
        BY <2>4, <4>1
      <4> QED
        BY <2>1, <4>2
    <3> QED
      BY <3>1, <3>2
  <2> QED
    BY <2>4, <2>5
<1> QED
  BY <1>1, TypeHolds, ChainInvHolds, OriginInvHolds, PTL

=============================================================================
