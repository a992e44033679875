------------------------------- MODULE Enroll -------------------------------
(***************************************************************************)
(* Enrolment (proxy/main.go: runEnroll): a command that seals a secret,    *)
(* under the dev KEK of a local file or under a cloud KMS key, and puts it *)
(* into the store file; and the boot of a broker (runServe), which checks  *)
(* its configuration and reads the files.                                  *)
(*                                                                         *)
(* os.WriteFile truncates, then writes: between the two the file is empty, *)
(* and a write that fails leaves a part.  A process may die at any point,  *)
(* and nothing keeps two of them from running at once.  Every envelope is  *)
(* sealed with the associated data of the record it is stored in, so it    *)
(* opens exactly under the KEK that sealed it.                             *)
(***************************************************************************)
EXTENDS BrokerConfig

CONSTANTS Procs,    \* enrolment processes; a KEK is named after its creator
          Ids,      \* secret ids
          Configs,  \* configurations a broker is started with
          NoConfig,
          NoProc

\* Forms of a file that LoadDevKEK and LoadFile return an error for.
Unreadable == {"missing", "empty", "torn"}

ASSUME EnrollAssumption ==
  /\ NoProc \notin Procs /\ NoConfig \notin Configs
  /\ Unreadable \cap (Procs \cup {NoProc}) = {}

\* An address is one of the kinds that BrokerConfig tells apart.
ASSUME ConfigsAssumption ==
  \A cfg \in Configs : Listen(cfg) \in {"interface", "wildcard", "zero", "malformed"}

VARIABLES
  kekFile,     \* the dev KEK file: unreadable, or a KEK
  storeFile,   \* the store file: [form, recs]
  pc,          \* stage of each process
  arg,         \* its arguments: the id, and the algorithm it seals with
  key,         \* the dev KEK it holds
  doc,         \* the records it is about to save
  srv,         \* the broker: [stage, cfg, kek, recs, tls]
  last,        \* history: the process whose success the operator saw last, per id
  recent,      \* history: the process that succeeded, if none started after it
  overlapped,  \* history: two processes ran at once
  damaged,     \* history: a process died, or failed, with a file truncated
  misread      \* history: a good file could not be read (an I/O error)

vars == <<kekFile, storeFile, pc, arg, key, doc, srv, last, recent, overlapped, damaged, misread>>
files == <<kekFile, storeFile>>
history == <<last, recent, overlapped, damaged, misread>>

\* AlgDevGCM and AlgKMSGCM.
Algs == {"AES-256-GCM-DEV", "KMS+AES-256-GCM"}
Over == {"idle", "done", "failed", "crashed"}

Active(p) == pc[p] \notin Over
NoRecs == <<>>
Bad(form) == [form |-> form, recs |-> NoRecs]
Down == [stage |-> "down", cfg |-> NoConfig, kek |-> NoProc, recs |-> NoRecs, tls |-> "none"]

\* DevKEK.Unwrap on an envelope of this store.
Opens(rec, k) == rec.alg = "AES-256-GCM-DEV" /\ rec.key = k

Init ==
  /\ kekFile = "missing" /\ storeFile = Bad("missing")
  /\ pc = [p \in Procs |-> "idle"]
  /\ arg \in [Procs -> [id : Ids, alg : Algs]]
  /\ key = [p \in Procs |-> NoProc]
  /\ doc = [p \in Procs |-> NoRecs]
  /\ srv = Down
  /\ last = [id \in Ids |-> NoProc]
  /\ recent = NoProc
  /\ overlapped = FALSE /\ damaged = FALSE /\ misread = FALSE

Goto(p, stage) == pc' = [pc EXCEPT ![p] = stage]

\* The input is refused before anything is touched: no -id, an empty secret on
\* stdin, a policy that does not parse, neither -policy nor -host.
Refuse(p) ==
  /\ pc[p] = "idle"
  /\ Goto(p, "failed")
  /\ UNCHANGED <<files, arg, key, doc, srv, history>>

\* The input is accepted; the -kms-key flag decides how the secret is sealed.
Start(p) ==
  /\ pc[p] = "idle"
  /\ Goto(p, IF arg[p].alg = "AES-256-GCM-DEV" THEN "kek" ELSE "kms")
  /\ overlapped' = (overlapped \/ \E q \in Procs : Active(q))
  /\ recent' = NoProc
  /\ UNCHANGED <<files, arg, key, doc, srv, last, damaged, misread>>

\* GenerateDevKEK.
Generate(p) == key' = [key EXCEPT ![p] = p]

\* Mutant: the KEK file is never looked at.
CreateAlways(p) ==
  /\ pc[p] = "kek"
  /\ Generate(p) /\ Goto(p, "kek open")
  /\ UNCHANGED <<files, arg, doc, srv, history>>

\* Mutant: a new KEK is used, but saved only where there was no file.
CreateUnsaved(p) ==
  /\ pc[p] = "kek"
  /\ \/ kekFile \notin Unreadable /\ key' = [key EXCEPT ![p] = kekFile] /\ Goto(p, "load")
     \/ kekFile = "missing" /\ Generate(p) /\ Goto(p, "kek open")
     \/ kekFile \in {"empty", "torn"} /\ Generate(p) /\ Goto(p, "load")
  /\ UNCHANGED <<files, arg, doc, srv, history>>

\* Mutant: what the file holds is taken for a KEK although it did not decode.
LoadUnchecked(p) ==
  /\ pc[p] = "kek"
  /\ \/ kekFile # "missing" /\ key' = [key EXCEPT ![p] = kekFile] /\ Goto(p, "load")
     \/ kekFile = "missing" /\ Generate(p) /\ Goto(p, "kek open")
  /\ UNCHANGED <<files, arg, doc, srv, history>>

\* loadOrCreateKEK: a KEK that loads is used; any error means a new one.
loadOrCreateKEK(p) ==
  /\ pc[p] = "kek"
  /\ \/ /\ kekFile \notin Unreadable
        /\ key' = [key EXCEPT ![p] = kekFile]
        /\ Goto(p, "load")
        /\ UNCHANGED misread
     \/ /\ Generate(p)
        /\ Goto(p, "kek open")
        /\ misread' = (misread \/ kekFile \notin Unreadable)
  /\ UNCHANGED <<files, arg, doc, srv, last, recent, overlapped, damaged>>

\* SaveDevKEKKey opens the file, which truncates it, or cannot open it ...
OpenKEK(p) ==
  /\ pc[p] = "kek open"
  /\ \/ kekFile' = "empty" /\ Goto(p, "kek write")
     \/ Goto(p, "failed") /\ UNCHANGED kekFile
  /\ UNCHANGED <<storeFile, arg, key, doc, srv, history>>

\* ... and writes the key, or a part of it.  All keys are of one length.
WriteKEK(p) ==
  /\ pc[p] = "kek write"
  /\ \/ kekFile' = key[p] /\ Goto(p, "load") /\ UNCHANGED damaged
     \/ kekFile' = "torn" /\ Goto(p, "failed") /\ damaged' = TRUE
  /\ UNCHANGED <<storeFile, arg, key, doc, srv, last, recent, overlapped, misread>>

\* sealForEnclave: the secret is sealed under a fresh DEK that Cloud KMS wraps, or
\* the call fails (no access token, KMS unreachable or unwilling).
sealForEnclave(p) ==
  /\ pc[p] = "kms"
  /\ Goto(p, "load") \/ Goto(p, "failed")
  /\ UNCHANGED <<files, arg, key, doc, srv, history>>

\* The record this enrolment stores.
Sealed(p) == [alg |-> arg[p].alg, key |-> key[p], by |-> p]

\* MemStore.Put adds the record, or replaces the one of the same id.
Put(recs, id, rec) == [i \in {id} \cup DOMAIN recs |-> IF i = id THEN rec ELSE recs[i]]

\* Mutant: the store is written with the new record alone.
LoadNothing(p) ==
  /\ pc[p] = "load"
  /\ doc' = [doc EXCEPT ![p] = Put(NoRecs, arg[p].id, Sealed(p))]
  /\ Goto(p, "store open")
  /\ UNCHANGED <<files, arg, key, srv, history>>

\* The store file is read; one that cannot be read or parsed counts as empty, and
\* the record of this enrolment is put.
LoadAndPut(p) ==
  /\ pc[p] = "load"
  /\ \/ /\ doc' = [doc EXCEPT ![p] = Put(storeFile.recs, arg[p].id, Sealed(p))]
        /\ UNCHANGED misread
     \/ /\ storeFile.form = "whole"
        /\ doc' = [doc EXCEPT ![p] = Put(NoRecs, arg[p].id, Sealed(p))]
        /\ misread' = TRUE
  /\ Goto(p, "store open")
  /\ UNCHANGED <<files, arg, key, srv, last, recent, overlapped, damaged>>

\* SaveFile opens and truncates the store file, or cannot open it ...
OpenStore(p) ==
  /\ pc[p] = "store open"
  /\ \/ storeFile' = Bad("empty") /\ Goto(p, "store write")
     \/ Goto(p, "failed") /\ UNCHANGED storeFile
  /\ UNCHANGED <<kekFile, arg, key, doc, srv, history>>

\* ... and writes all records, or a part.  If another process has written since
\* the truncation, the tail of its longer document may remain behind this one.
WriteStore(p) ==
  /\ pc[p] = "store write"
  /\ \/ /\ \/ storeFile' = [form |-> "whole", recs |-> doc[p]]
           \/ storeFile.form # "empty" /\ storeFile' = Bad("torn")
        /\ Goto(p, "done")
        /\ last' = [last EXCEPT ![arg[p].id] = p]
        /\ recent' = p
        /\ UNCHANGED damaged
     \/ /\ storeFile' = Bad("torn")
        /\ Goto(p, "failed")
        /\ damaged' = TRUE
        /\ UNCHANGED <<last, recent>>
  /\ UNCHANGED <<kekFile, arg, key, doc, srv, overlapped, misread>>

\* The process dies.
Crash(p) ==
  /\ Active(p)
  /\ Goto(p, "crashed")
  /\ damaged' = (damaged \/ pc[p] \in {"kek write", "store write"})
  /\ UNCHANGED <<files, arg, key, doc, srv, last, recent, overlapped, misread>>

-----------------------------------------------------------------------------
\* A broker boots (runServe): configuration, KEK, store, then everything else.

\* Mutant: the broker makes up a KEK when there is none.
BootCreating(cfg) ==
  /\ srv.stage = "down"
  /\ MayServe(cfg)
  /\ srv' = [Down EXCEPT !.stage = "keyed", !.cfg = cfg,
                         !.kek = IF kekFile \in Unreadable THEN NoProc ELSE kekFile]
  /\ UNCHANGED <<files, pc, arg, key, doc, history>>

\* buildUnwrapper: in dev mode the broker does not start without a readable KEK, in
\* enclave mode the KEK is in Cloud KMS.
BootKEK(cfg) ==
  /\ srv.stage = "down"
  /\ MayServe(cfg)
  /\ Mode(cfg) = "dev" => kekFile \notin Unreadable
  /\ srv' = [Down EXCEPT !.stage = "keyed", !.cfg = cfg,
                         !.kek = IF Mode(cfg) = "dev" THEN kekFile ELSE NoProc]
  /\ UNCHANGED <<files, pc, arg, key, doc, history>>

\* LoadFile: nor does it start without a readable store.
BootStore ==
  /\ srv.stage = "keyed"
  /\ srv' = IF storeFile.form \in Unreadable
            THEN Down
            ELSE [srv EXCEPT !.stage = "loaded", !.recs = storeFile.recs]
  /\ UNCHANGED <<files, pc, arg, key, doc, history>>

\* buildAuditor, buildUpstreamClient and BuildServerTLS: one of the files they need
\* is not there, or the broker listens.
BootServe ==
  /\ srv.stage = "loaded"
  /\ \/ srv' = Down
     \/ srv' = [srv EXCEPT !.stage = "up", !.tls = BuildServerTLS(srv.cfg)]
  /\ UNCHANGED <<files, pc, arg, key, doc, history>>

Stop ==
  /\ srv.stage = "up"
  /\ srv' = Down
  /\ UNCHANGED <<files, pc, arg, key, doc, history>>

Step(p) ==
  \/ Refuse(p) \/ Start(p)
  \/ loadOrCreateKEK(p) \/ OpenKEK(p) \/ WriteKEK(p) \/ sealForEnclave(p)
  \/ LoadAndPut(p) \/ OpenStore(p) \/ WriteStore(p) \/ Crash(p)

Next ==
  \/ \E p \in Procs : Step(p)
  \/ \E cfg \in Configs : BootKEK(cfg)
  \/ BootStore \/ BootServe \/ Stop

Spec == Init /\ [][Next]_vars

-----------------------------------------------------------------------------
Stages == Over \cup {"kek", "kek open", "kek write", "kms", "load", "store open", "store write"}
Records == [alg : Algs, key : Procs \cup {NoProc}, by : Procs]
Docs == UNION {[S -> Records] : S \in SUBSET Ids}
StoreFiles == [form : Unreadable \cup {"whole"}, recs : Docs]
Brokers ==
  [stage : {"down", "keyed", "loaded", "up"}, cfg : Configs \cup {NoConfig},
   kek : Procs \cup {NoProc}, recs : Docs, tls : {"none", "plain", "tls", "mtls"}]

TypeOK ==
  /\ kekFile \in Unreadable \cup Procs
  /\ storeFile \in StoreFiles
  /\ pc \in [Procs -> Stages]
  /\ arg \in [Procs -> [id : Ids, alg : Algs]]
  /\ key \in [Procs -> Procs \cup {NoProc}]
  /\ doc \in [Procs -> Docs]
  /\ srv \in Brokers
  /\ last \in [Ids -> Procs \cup {NoProc}] /\ recent \in Procs \cup {NoProc}

Saving == \E p \in Procs : pc[p] = "store write"

\* Enrolments one after the other lose nothing: unless one of them dies or fails
\* with a file truncated, or cannot read a good file, every id the operator saw
\* enrolled keeps its latest secret, whatever other enrolments are refused, fail
\* or die earlier (main.go: LoadFile, Put, SaveFile in runEnroll).
EnrolledKept ==
  ~overlapped /\ ~damaged /\ ~misread /\ ~Saving =>
    \A id \in Ids : last[id] # NoProc =>
      id \in DOMAIN storeFile.recs /\ storeFile.recs[id].by = last[id]

\* A KEK is never replaced once it has sealed a stored secret, even if enrolments
\* die with the KEK file truncated: what is in the store opens under the KEK on
\* disk (main.go: loadOrCreateKEK saves the KEK before anything is sealed).
EnrolledOpens ==
  ~overlapped /\ ~misread =>
    \A id \in DOMAIN storeFile.recs :
      storeFile.recs[id].alg = "AES-256-GCM-DEV" => Opens(storeFile.recs[id], kekFile)

\* A dev-mode broker that boots while an enrolment is under way, and reads the KEK before
\* and the store after some step of it, either does not start or can open every
\* dev record it serves (main.go: buildUnwrapper, then LoadFile, in runServe).
ServerOpens ==
  ~overlapped /\ ~misread /\ srv.stage = "up" /\ Mode(srv.cfg) = "dev" =>
    \A id \in DOMAIN srv.recs :
      srv.recs[id].alg = "AES-256-GCM-DEV" => Opens(srv.recs[id], srv.kek)

\* Enrolment recovers from whatever was left behind: after any crashes, failed
\* writes and failed reads, the secret just enrolled is in the store and opens
\* under the KEK on disk until the next enrolment starts (main.go: the load
\* errors that loadOrCreateKEK and runEnroll turn into a fresh start).
LatestServes ==
  ~overlapped /\ recent # NoProc =>
    LET id == arg[recent].id
    IN /\ id \in DOMAIN storeFile.recs
       /\ storeFile.recs[id].by = recent
       /\ arg[recent].alg = "AES-256-GCM-DEV" => Opens(storeFile.recs[id], kekFile)

\* A broker that serves is what its mode says, whatever was set, overridden by a
\* flag or failed to load: plaintext is dev mode (as the warning in runServe says);
\* in enclave mode agents need a certificate, there is no dev KEK and no egress
\* without a list, Google's endpoints are the real ones, and the address is an
\* interface, or a wildcard in a spelling validateEnclaveListen does not know.  In
\* dev mode CLIENT_CA counts only together with a server certificate.
ServesAsDeclared ==
  srv.stage = "up" =>
    LET cfg == srv.cfg
    IN /\ srv.tls = "plain" => Mode(cfg) = "dev"
       /\ Mode(cfg) = "enclave" => /\ srv.tls = "mtls" /\ srv.kek = NoProc
                                  /\ cfg.egress /\ ~cfg.overrides
                                  /\ Listen(cfg) \in {"interface", "zero"}
       /\ cfg.clientCA /\ srv.tls # "plain" => srv.tls = "mtls"

-----------------------------------------------------------------------------
\* The inductive invariant behind all of the above, part by part.

Storing == {"store open", "store write"}
UsesDevKEK(p) == arg[p].alg = "AES-256-GCM-DEV"

\* Unless two have overlapped, one process runs at a time.
Sole == \A p, q \in Procs : Active(p) /\ Active(q) => p = q

\* What a process knows: the KEK it seals with is the one on disk, the record it
\* puts is its own, and the file it is about to write is still as it left it.
Knows(p) ==
  /\ pc[p] = "kms" => ~UsesDevKEK(p)
  /\ pc[p] = "kek write" => kekFile = "empty"
  /\ pc[p] \in {"load"} \cup Storing /\ UsesDevKEK(p) => key[p] = kekFile
  /\ pc[p] \in Storing => arg[p].id \in DOMAIN doc[p] /\ doc[p][arg[p].id] = Sealed(p)
  /\ pc[p] = "store write" => storeFile.form = "empty"

\* Every dev record opens under the KEK k.
Keyed(recs, k) ==
  \A id \in DOMAIN recs : recs[id].alg = "AES-256-GCM-DEV" => Opens(recs[id], k)

\* Every id other than the one of a new record keeps what was enrolled last.
Keeps(recs, new) ==
  \A id \in Ids \ new : last[id] # NoProc =>
    id \in DOMAIN recs /\ recs[id].by = last[id]

SealsUnder(p) ==
  /\ pc[p] = "kek open" => kekFile \in Unreadable
  /\ pc[p] \in Storing => Keyed(doc[p], kekFile)

ServesUnder ==
  srv.stage # "down" /\ Mode(srv.cfg) = "dev" =>
    srv.kek = kekFile /\ kekFile \in Procs /\ Keyed(srv.recs, kekFile)

\* The part that needs no good file to have been misread ...
KeyInv ==
  ~overlapped /\ ~misread =>
    /\ Keyed(storeFile.recs, kekFile)
    /\ \A p \in Procs : SealsUnder(p)
    /\ ServesUnder

\* ... the part that needs no file to have been left truncated either ...
KeepInv ==
  ~overlapped /\ ~damaged /\ ~misread =>
    /\ ~Saving => Keeps(storeFile.recs, {})
    /\ \A p \in Procs : pc[p] \in Storing => Keeps(doc[p], {arg[p].id})

\* ... and the part that needs neither.
RunInv ==
  ~overlapped =>
    /\ Sole
    /\ \A p \in Procs : Knows(p)
    /\ recent # NoProc => \A p \in Procs : ~Active(p)

\* A broker that has booted this far passed the checks of its configuration.
BootInv ==
  /\ srv.stage # "down" =>
       /\ srv.cfg \in Configs /\ MayServe(srv.cfg)
       /\ Mode(srv.cfg) # "dev" => srv.kek = NoProc
  /\ srv.stage = "up" => srv.tls = BuildServerTLS(srv.cfg)
=============================================================================
