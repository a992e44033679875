----------------------------- MODULE AuditChain -----------------------------
(***************************************************************************)
(* audit.ChainWriter and audit.VerifyChain: handlers append hash-chained   *)
(* records to one file, the process restarts with the file reopened for    *)
(* append, writes fail, and whoever holds the file may edit it.            *)
(*                                                                         *)
(* SHA-256 is modelled as a function without collisions: the hash of a     *)
(* record is the sequence of everything it depends on, the previous hash   *)
(* followed by the record's own JSON.                                      *)
(***************************************************************************)
EXTENDS Integers, Sequences

CONSTANTS Writers,      \* handler goroutines that audit
          Entries,      \* audit.Record contents: [id, text]
          MaxCalls,     \* bound on the calls of Write
          MaxLives,     \* bound on the starts of the process
          MaxFailures,  \* bound on failing writes of the file
          MaxTampers,   \* bound on edits of the file
          NoWriter      \* the mutex is free

ASSUME AuditAssumption ==
  /\ MaxCalls \in Nat /\ MaxLives \in Nat /\ MaxFailures \in Nat /\ MaxTampers \in Nat
  /\ NoWriter \notin Writers
  /\ \A e \in Entries : e.text \in {"utf8", "raw bytes", "replacement"}

VARIABLES
  mu,       \* ChainWriter.mu: its holder, or NoWriter
  last,     \* ChainWriter.last
  file,     \* the lines of the audit file
  pc,       \* stage of each writer: "idle", "lock" or "write"
  entry,    \* the record each writer was called with
  line,     \* the linked record each writer is about to append
  life,     \* starts of the process so far
  ncalls, failures, tampers,   \* what the bounds count
  trail     \* history: the whole records the program wrote

vars == <<mu, last, file, pc, entry, line, life, ncalls, failures, tampers, trail>>

NoEntry == [id |-> "", text |-> "utf8"]
Genesis == <<>>

-----------------------------------------------------------------------------
\* encoding/json writes a byte that is not UTF-8 as the escape \ufffd, reads that
\* escape back as the replacement character, and writes the character unescaped.
Marshal(e) == [id |-> e.id, form |-> IF e.text = "raw bytes" THEN "escape" ELSE e.text]
Unmarshal(m) == [id |-> m.id, text |-> IF m.form = "escape" THEN "replacement" ELSE m.form]

hashRecord(prev, m) == Append(prev, m)

\* Mutant: the record is linked but its hash is not set.
UnhashedLine(prev, e) == [bytes |-> "all", prev |-> prev, json |-> Marshal(e)]

\* A line of the file, and what a write that broke off leaves of one: a part, or all
\* but the newline, which the decoder of VerifyChain does not need.
Line(prev, e) ==
  [bytes |-> "all", prev |-> prev, json |-> Marshal(e), hash |-> hashRecord(prev, Marshal(e))]
TornLine == [bytes |-> "part", prev |-> Genesis, json |-> Marshal(NoEntry), hash |-> Genesis]
Unended(l) == [l EXCEPT !.bytes = "no newline"]

Whole(l) == l.bytes = "all"

\* Mutant: the verifier checks each record's own hash but not the link.
RecordOKUnlinked(f, k) ==
  f[k].bytes # "part" /\ f[k].hash = hashRecord(f[k].prev, Marshal(Unmarshal(f[k].json)))

\* One round of VerifyChain's loop: record k of f decodes, names the hash before
\* it and hashes to its own, computed from what decoding returned.
RecordOK(f, k) ==
  /\ f[k].bytes # "part"
  /\ f[k].prev = IF k = 1 THEN Genesis ELSE f[k - 1].hash
  /\ f[k].hash = hashRecord(f[k].prev, Marshal(Unmarshal(f[k].json)))

\* VerifyChain returns no error.
Verifies(f) == \A k \in 1..Len(f) : RecordOK(f, k)

-----------------------------------------------------------------------------
Init ==
  /\ mu = NoWriter
  /\ last = Genesis
  /\ file = <<>> /\ trail = <<>>
  /\ pc = [w \in Writers |-> "idle"]
  /\ entry = [w \in Writers |-> NoEntry]
  /\ line = [w \in Writers |-> TornLine]
  /\ life = 1
  /\ ncalls = 0 /\ failures = 0 /\ tampers = 0

\* A handler calls ChainWriter.Write.
Call(w, e) ==
  /\ pc[w] = "idle"
  /\ ncalls < MaxCalls
  /\ ncalls' = ncalls + 1
  /\ pc' = [pc EXCEPT ![w] = "lock"]
  /\ entry' = [entry EXCEPT ![w] = e]
  /\ UNCHANGED <<mu, last, file, line, life, failures, tampers, trail>>

\* Mutant: the mutex is not taken.
LinkUnlocked(w) ==
  /\ pc[w] = "lock"
  /\ line' = [line EXCEPT ![w] = Line(last, entry[w])]
  /\ pc' = [pc EXCEPT ![w] = "write"]
  /\ UNCHANGED <<mu, last, file, entry, life, ncalls, failures, tampers, trail>>

\* It takes the mutex and links its record to the last one.
Link(w) ==
  /\ pc[w] = "lock"
  /\ mu = NoWriter
  /\ mu' = w
  /\ line' = [line EXCEPT ![w] = Line(last, entry[w])]
  /\ pc' = [pc EXCEPT ![w] = "write"]
  /\ UNCHANGED <<last, file, entry, life, ncalls, failures, tampers, trail>>

Return(w) ==
  /\ mu' = NoWriter
  /\ pc' = [pc EXCEPT ![w] = "idle"]
  /\ entry' = [entry EXCEPT ![w] = NoEntry]
  /\ line' = [line EXCEPT ![w] = TornLine]

\* The line is appended and becomes the last one.
WriteLine(w) ==
  /\ pc[w] = "write"
  /\ file' = Append(file, line[w])
  /\ trail' = Append(trail, line[w])
  /\ last' = line[w].hash
  /\ Return(w)
  /\ UNCHANGED <<life, ncalls, failures, tampers>>

\* Mutant: last moves on although the line was not written.
FailsAdvancing(w) ==
  /\ pc[w] = "write"
  /\ failures < MaxFailures
  /\ failures' = failures + 1
  /\ last' = line[w].hash
  /\ Return(w)
  /\ UNCHANGED <<file, trail, life, ncalls, tampers>>

\* Mutant: the error path returns with the mutex held.
FailsLocked(w) ==
  /\ pc[w] = "write"
  /\ failures < MaxFailures
  /\ failures' = failures + 1
  /\ pc' = [pc EXCEPT ![w] = "idle"]
  /\ UNCHANGED <<mu, last, file, entry, line, life, ncalls, tampers, trail>>

\* The file takes nothing, or only a part of the line, if need be all but its newline;
\* Write returns the error, which Handler.audit drops, and last stays.
WriteFails(w) ==
  /\ pc[w] = "write"
  /\ failures < MaxFailures
  /\ failures' = failures + 1
  /\ \/ UNCHANGED file
     \/ \E l \in {TornLine, Unended(line[w])} : file' = Append(file, l)
  /\ Return(w)
  /\ UNCHANGED <<last, trail, life, ncalls, tampers>>

\* The process ends, whatever its handlers were doing, and a new one opens the
\* file for append (buildAuditor) with a chain writer at genesis.
Restart ==
  /\ life < MaxLives
  /\ life' = life + 1
  /\ last' = Genesis
  /\ mu' = NoWriter
  /\ pc' = [w \in Writers |-> "idle"]
  /\ entry' = [w \in Writers |-> NoEntry]
  /\ line' = [w \in Writers |-> TornLine]
  /\ UNCHANGED <<file, ncalls, failures, tampers, trail>>

Without(f, k) == SubSeq(f, 1, k - 1) \o SubSeq(f, k + 1, Len(f))

\* Whoever holds the file removes a record, repeats one, exchanges two, or
\* rewrites what one says, without computing new hashes.  (The hash has no key: an
\* editor who computes it anew from the edited record on is out of scope.)
Tamper ==
  /\ tampers < MaxTampers
  /\ tampers' = tampers + 1
  /\ \E k \in 1..Len(file) :
       \/ file' = Without(file, k)
       \/ file' = SubSeq(file, 1, k) \o SubSeq(file, k, Len(file))
       \/ k < Len(file) /\ file' = [file EXCEPT ![k] = file[k + 1], ![k + 1] = file[k]]
       \/ \E e \in Entries : file' = [file EXCEPT ![k].json = Marshal(e)]
  /\ UNCHANGED <<mu, last, pc, entry, line, life, ncalls, failures, trail>>

Write(w) == Link(w) \/ WriteLine(w) \/ WriteFails(w)

Next ==
  \/ \E w \in Writers : Write(w) \/ \E e \in Entries : Call(w, e)
  \/ Restart
  \/ Tamper

\* Go's mutex hands over to a waiter that has waited for long (starvation mode),
\* so a writer that finds it free again and again gets it; a file write returns.
Fairness ==
  \A w \in Writers : SF_vars(Link(w)) /\ WF_vars(WriteLine(w) \/ WriteFails(w))

Spec == Init /\ [][Next]_vars /\ Fairness

-----------------------------------------------------------------------------
Json == [id : {e.id : e \in Entries} \cup {""}, form : {"utf8", "escape", "replacement"}]
Lines == [bytes : {"all", "no newline", "part"}, prev : Seq(Json), json : Json, hash : Seq(Json)]

TypeOK ==
  /\ mu \in Writers \cup {NoWriter}
  /\ last \in Seq(Json)
  /\ pc \in [Writers -> {"idle", "lock", "write"}]
  /\ entry \in [Writers -> Entries \cup {NoEntry}]
  /\ line \in [Writers -> Lines]
  /\ file \in Seq(Lines) /\ trail \in Seq(Lines)
  /\ life \in Nat /\ ncalls \in Nat /\ failures \in Nat /\ tampers \in Nat

\* Records that decode to what was hashed: no line broke off and none carries a
\* byte that JSON cannot round-trip.
RoundTrips(f) == \A k \in 1..Len(f) : Whole(f[k]) /\ f[k].json.form # "escape"

\* Within one life of the process, handlers that write concurrently and writes
\* that fail without leaving bytes behind never break the chain: the file nobody
\* edited verifies (audit.go: ChainWriter.Write, VerifyChain).
LifeVerifies ==
  life = 1 /\ tampers = 0 /\ RoundTrips(file) => Verifies(file)

\* Two lines read alike.
ReadsAs(l, m) == l.prev = m.prev /\ l.hash = m.hash /\ Unmarshal(l.json) = Unmarshal(m.json)

\* Within one life, no removal, repetition, exchange or rewriting of records goes
\* unnoticed, except for cutting off the end: a file that verifies reads, record by
\* record, as a prefix of the records written (audit.go:7, "lets a verifier detect
\* tampering").  Of an editor who leaves the hashes as they are: SHA-256 has no key and
\* genesis is a constant, so one who computes them anew makes a file that verifies.
\* Another spelling of the same record (the escape \ufffd for the character) passes,
\* because VerifyChain hashes what decoding returned, and a record that lost only its
\* newline, which Write took for unwritten, verifies at the end of the file.
TamperEvident ==
  life = 1 /\ Verifies(file) /\ (\A k \in 1..Len(file) : Whole(file[k])) =>
    /\ Len(file) <= Len(trail)
    /\ \A k \in 1..Len(file) : ReadsAs(file[k], trail[k])

\* A call of Write comes back, with the record written or not: no path keeps the
\* mutex (audit.go: the deferred Unlock).
WriteReturns == \A w \in Writers : (pc[w] = "lock") ~> (pc[w] = "idle")

\* "Audit log verifies as an unbroken hash chain" (broker-core.md, E-B3), of a
\* file that only the program has touched.
UntouchedLogVerifies == tampers = 0 => Verifies(file)

-----------------------------------------------------------------------------
\* The inductive invariant behind LifeVerifies and TamperEvident: in a first life
\* every record written is linked to the one before it and last is the hash of the
\* last one; the holder of the mutex holds a line linked to last; and every whole
\* line of the file, edited or not, still carries the hashes of a record written.

LinkedTo(l, prev) == Whole(l) /\ l.prev = prev /\ l.hash = hashRecord(prev, l.json)

HashBefore(f, k) == IF k = 1 THEN Genesis ELSE f[k - 1].hash

ChainInv ==
  /\ tampers = 0 /\ (\A k \in 1..Len(file) : Whole(file[k])) => file = trail
  /\ \A w \in Writers : pc[w] = "write" <=> mu = w
  /\ \A w \in Writers : pc[w] = "write" => LinkedTo(line[w], last)
  /\ life = 1 =>
       /\ last = HashBefore(trail, Len(trail) + 1)
       /\ \A k \in 1..Len(trail) : LinkedTo(trail[k], HashBefore(trail, k))

OriginInv ==
  life = 1 =>
    /\ \A k \in 1..Len(trail) : Len(trail[k].hash) = k
    /\ \A k \in 1..Len(file) : Whole(file[k]) =>
         \E i \in 1..Len(trail) : file[k].prev = trail[i].prev /\ file[k].hash = trail[i].hash
=============================================================================
