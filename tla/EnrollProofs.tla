---------------------------- MODULE EnrollProofs ----------------------------
(***************************************************************************)
(* Proofs about Enroll, for any processes, ids and configurations: however *)
(* many enrolments are run, refused, fail or die, and however often a      *)
(* broker boots among them.                                                *)
(***************************************************************************)
EXTENDS Enroll, TLAPS

\* The types, and that a process which is about to save a KEK has generated one.
MadeKey(p) == pc[p] \in {"kek open", "kek write"} => key[p] \in Procs
TypeInv == TypeOK /\ \A p \in Procs : MadeKey(p)

\* MemStore.Put makes a document of a document.
LEMMA PutType ==
  ASSUME NEW recs \in Docs, NEW id \in Ids, NEW rec \in Records
  PROVE  /\ Put(recs, id, rec) \in Docs
         /\ DOMAIN Put(recs, id, rec) = {id} \cup DOMAIN recs
         /\ Put(recs, id, rec)[id] = rec
         /\ \A i \in DOMAIN recs : i # id => Put(recs, id, rec)[i] = recs[i]
<1>1. PICK S \in SUBSET Ids : recs \in [S -> Records]
  BY DEF Docs
<1>2. DOMAIN recs = S
  BY <1>1
<1>3. Put(recs, id, rec) \in [{id} \cup S -> Records]
  BY <1>1, <1>2 DEF Put
<1>4. {id} \cup S \in SUBSET Ids
  OBVIOUS
<1> QED
  BY <1>2, <1>3, <1>4 DEF Docs, Put

\* The store without records is a document.
LEMMA NoRecsType == NoRecs \in Docs /\ DOMAIN NoRecs = {}
<1>1. NoRecs \in [{} -> Records]
  BY DEF NoRecs
<1> QED
  BY <1>1 DEF Docs

\* What a process seals is a record, under an id.
LEMMA SealedType ==
  ASSUME TypeOK, NEW p \in Procs
  PROVE  Sealed(p) \in Records /\ arg[p].id \in Ids
BY DEF TypeOK, Sealed, Records

\* A process that puts its record has it in the document, beside the others.
LEMMA PutOwn ==
  ASSUME TypeOK, NEW p \in Procs, NEW recs \in Docs
  PROVE  /\ DOMAIN Put(recs, arg[p].id, Sealed(p)) = {arg[p].id} \cup DOMAIN recs
         /\ Put(recs, arg[p].id, Sealed(p))[arg[p].id] = Sealed(p)
         /\ \A i \in DOMAIN recs : i # arg[p].id => Put(recs, arg[p].id, Sealed(p))[i] = recs[i]
<1>1. Sealed(p) \in Records /\ arg[p].id \in Ids
  BY SealedType
<1> QED
  BY <1>1, PutType

\* What the store file may hold.
LEMMA FileTypes ==
  /\ \A form \in Unreadable : Bad(form) \in StoreFiles /\ Bad(form).recs = NoRecs
  /\ \A recs \in Docs : [form |-> "whole", recs |-> recs] \in StoreFiles
  /\ {"missing", "empty", "torn"} = Unreadable
BY NoRecsType DEF Bad, StoreFiles, Unreadable

\* The stages of a process, by name.
LEMMA StageNames ==
  /\ {"idle", "done", "failed", "crashed"} \subseteq Stages
  /\ {"kek", "kek open", "kek write", "kms", "load", "store open", "store write"} \subseteq Stages
BY DEF Stages, Over

\* What a step of one process owes the types.
LEMMA ProcessTypes ==
  ASSUME TypeInv, NEW p \in Procs, NEW s \in Stages, pc' = [pc EXCEPT ![p] = s],
         \/ key' = key /\ (s \in {"kek open", "kek write"} => key[p] \in Procs)
         \/ \E k \in Procs : key' = [key EXCEPT ![p] = k],
         kekFile' \in Unreadable \cup Procs, storeFile' \in StoreFiles,
         doc' = doc \/ \E recs \in Docs : doc' = [doc EXCEPT ![p] = recs],
         UNCHANGED <<arg, srv>>,
         last' \in [Ids -> Procs \cup {NoProc}], recent' \in Procs \cup {NoProc}
  PROVE  TypeInv'
<1>0. TypeOK /\ \A q \in Procs : MadeKey(q)
  BY DEF TypeInv
<1>1. pc \in [Procs -> Stages] /\ key \in [Procs -> Procs \cup {NoProc}] /\ doc \in [Procs -> Docs]
  BY <1>0 DEF TypeOK
<1>2. pc' \in [Procs -> Stages]
  BY <1>1
<1>3. key' \in [Procs -> Procs \cup {NoProc}]
  BY <1>1
<1>4. doc' \in [Procs -> Docs]
  BY <1>1
<1>5. TypeOK'
  BY <1>0, <1>2, <1>3, <1>4 DEF TypeOK
<1>6. ASSUME NEW q \in Procs PROVE MadeKey(q)'
  <2>1. CASE q = p
    <3>1. pc'[p] = s
      BY <1>1
    <3>2. s \in {"kek open", "kek write"} => key'[p] \in Procs
      BY <1>1
    <3> QED
      BY <2>1, <3>1, <3>2 DEF MadeKey
  <2>2. CASE q # p
    <3>1. pc'[q] = pc[q] /\ key'[q] = key[q]
      BY <1>1, <2>2
    <3> QED
      BY <1>0, <3>1 DEF MadeKey
  <2> QED
    BY <2>1, <2>2
<1> QED
  BY <1>5, <1>6 DEF TypeInv

\* What a step of the broker owes them.
LEMMA BrokerTypes ==
  ASSUME TypeInv, srv' \in Brokers,
         UNCHANGED <<kekFile, storeFile, pc, arg, key, doc, last, recent>>
  PROVE  TypeInv'
BY DEF TypeInv, TypeOK, MadeKey

\* TypeInv is inductive.
LEMMA TypeStep == TypeInv /\ [Next]_vars => TypeInv'
<1> SUFFICES ASSUME TypeInv, [Next]_vars PROVE TypeInv'
  OBVIOUS
<1>0. /\ kekFile \in Unreadable \cup Procs /\ storeFile \in StoreFiles /\ srv \in Brokers
      /\ last \in [Ids -> Procs \cup {NoProc}] /\ recent \in Procs \cup {NoProc}
      /\ \A p \in Procs : MadeKey(p)
  BY DEF TypeInv, TypeOK
<1> USE DEF files, history, Goto
<1>1. ASSUME NEW p \in Procs, Refuse(p) PROVE TypeInv'
  BY <1>0, <1>1, StageNames, ProcessTypes DEF Refuse
<1>2. ASSUME NEW p \in Procs, Start(p) PROVE TypeInv'
  <2>1. PICK s \in Stages : pc' = [pc EXCEPT ![p] = s] /\ s \notin {"kek open", "kek write"}
    BY <1>2, StageNames DEF Start
  <2> QED
    BY <1>0, <1>2, <2>1, ProcessTypes DEF Start
<1>3. ASSUME NEW p \in Procs, loadOrCreateKEK(p) PROVE TypeInv'
  <2>1. PICK s \in Stages, k \in Procs : pc' = [pc EXCEPT ![p] = s] /\ key' = [key EXCEPT ![p] = k]
    BY <1>0, <1>3, StageNames DEF loadOrCreateKEK, Generate
  <2> QED
    BY <1>0, <1>3, <2>1, ProcessTypes DEF loadOrCreateKEK
<1>4. ASSUME NEW p \in Procs, OpenKEK(p) PROVE TypeInv'
  <2>1. key[p] \in Procs
    BY <1>0, <1>4 DEF OpenKEK, MadeKey
  <2>2. PICK s \in Stages : pc' = [pc EXCEPT ![p] = s]
    BY <1>4, StageNames DEF OpenKEK
  <2>3. kekFile' \in Unreadable \cup Procs
    BY <1>0, <1>4, FileTypes DEF OpenKEK
  <2> QED
    BY <1>0, <1>4, <2>1, <2>2, <2>3, ProcessTypes DEF OpenKEK
<1>5. ASSUME NEW p \in Procs, WriteKEK(p) PROVE TypeInv'
  <2>1. key[p] \in Procs
    BY <1>0, <1>5 DEF WriteKEK, MadeKey
  <2>2. PICK s \in Stages : pc' = [pc EXCEPT ![p] = s]
    BY <1>5, StageNames DEF WriteKEK
  <2>3. kekFile' \in Unreadable \cup Procs
    BY <1>5, <2>1, FileTypes DEF WriteKEK
  <2> QED
    BY <1>0, <1>5, <2>1, <2>2, <2>3, ProcessTypes DEF WriteKEK
<1>6. ASSUME NEW p \in Procs, sealForEnclave(p) PROVE TypeInv'
  <2>1. PICK s \in Stages : pc' = [pc EXCEPT ![p] = s] /\ s \notin {"kek open", "kek write"}
    BY <1>6, StageNames DEF sealForEnclave
  <2> QED
    BY <1>0, <1>6, <2>1, ProcessTypes DEF sealForEnclave
<1>7. ASSUME NEW p \in Procs, LoadAndPut(p) PROVE TypeInv'
  <2>1. storeFile.recs \in Docs
    BY <1>0 DEF StoreFiles
  <2>2. PICK recs \in Docs : doc' = [doc EXCEPT ![p] = recs]
    BY <1>7, <2>1, PutType, NoRecsType, SealedType DEF LoadAndPut, TypeInv
  <2> QED
    BY <1>0, <1>7, <2>2, StageNames, ProcessTypes DEF LoadAndPut
<1>8. ASSUME NEW p \in Procs, OpenStore(p) PROVE TypeInv'
  <2>1. PICK s \in Stages : pc' = [pc EXCEPT ![p] = s] /\ s \notin {"kek open", "kek write"}
    BY <1>8, StageNames DEF OpenStore
  <2>2. storeFile' \in StoreFiles
    BY <1>0, <1>8, FileTypes DEF OpenStore
  <2> QED
    BY <1>0, <1>8, <2>1, <2>2, ProcessTypes DEF OpenStore
<1>9. ASSUME NEW p \in Procs, WriteStore(p) PROVE TypeInv'
  <2>1. doc[p] \in Docs
    BY DEF TypeInv, TypeOK
  <2>2. storeFile' \in StoreFiles
    BY <1>9, <2>1, FileTypes DEF WriteStore
  <2>3. last' \in [Ids -> Procs \cup {NoProc}] /\ recent' \in Procs \cup {NoProc}
    BY <1>0, <1>9 DEF WriteStore
  <2>4. PICK s \in Stages : pc' = [pc EXCEPT ![p] = s] /\ s \notin {"kek open", "kek write"}
    BY <1>9, StageNames DEF WriteStore
  <2> QED
    BY <1>9, <1>0, <2>2, <2>3, <2>4, ProcessTypes DEF WriteStore
<1>10. ASSUME NEW p \in Procs, Crash(p) PROVE TypeInv'
  BY <1>0, <1>10, StageNames, ProcessTypes DEF Crash
<1>11. ASSUME NEW cfg \in Configs, BootKEK(cfg) PROVE TypeInv'
  <2>1. srv' \in Brokers
    BY <1>0, <1>11, NoRecsType DEF BootKEK, Down, TypeOK, Brokers
  <2> QED
    BY <1>11, <2>1, BrokerTypes DEF BootKEK
<1>12. CASE BootStore \/ BootServe \/ Stop
  <2>1. srv' \in Brokers
    <3>1. Down \in Brokers
      BY NoRecsType DEF Down, Brokers
    <3>2. CASE BootStore
      <4>1. storeFile.recs \in Docs
        BY <1>0 DEF StoreFiles
      <4>2. [srv EXCEPT !.stage = "loaded", !.recs = storeFile.recs] \in Brokers
        BY <1>0, <4>1 DEF Brokers
      <4> QED
        BY <3>1, <3>2, <4>2 DEF BootStore
    <3>3. CASE BootServe
      <4>1. BuildServerTLS(srv.cfg) \in {"plain", "tls", "mtls"}
        BY DEF BuildServerTLS
      <4>2. [srv EXCEPT !.stage = "up", !.tls = BuildServerTLS(srv.cfg)] \in Brokers
        BY <1>0, <4>1 DEF Brokers
      <4> QED
        BY <3>1, <3>3, <4>2 DEF BootServe
    <3> QED
      BY <1>12, <3>1, <3>2, <3>3 DEF Stop
  <2> QED
    BY <1>12, <2>1, BrokerTypes DEF BootStore, BootServe, Stop
<1>13. CASE UNCHANGED vars
  BY <1>13 DEF vars, TypeInv, TypeOK, MadeKey
<1> QED
  BY <1>1, <1>2, <1>3, <1>4, <1>5, <1>6, <1>7, <1>8, <1>9, <1>10, <1>11, <1>12, <1>13
  DEF Next, Step

\* Enrolments, crashes and boots keep the types, and a process that is about to save a KEK has
\* generated one (main.go: loadOrCreateKEK).
THEOREM TypeInvHolds == Spec => []TypeInv
<1>1. Init => TypeInv
  <2>1. Down \in Brokers
    BY NoRecsType DEF Down, Brokers
  <2> QED
    BY <2>1, NoRecsType, FileTypes, StageNames DEF Init, TypeInv, TypeOK, MadeKey
<1> QED
  BY <1>1, TypeStep, PTL DEF Spec

\* The types, for any configurations and any number of enrolments (main.go:
\* runEnroll, runServe).
THEOREM TypeHolds == Spec => []TypeOK
<1>1. TypeInv => TypeOK
  BY DEF TypeInv
<1> QED
  BY <1>1, TypeInvHolds, PTL

-----------------------------------------------------------------------------
\* One process at a time.

\* The process that takes a step is the only one, and nothing is fresh yet.
LEMMA Lone ==
  ASSUME RunInv, ~overlapped, NEW p \in Procs, Active(p)
  PROVE  recent = NoProc /\ Knows(p) /\ \A q \in Procs \ {p} : ~Active(q)
BY DEF RunInv, Sole

\* What a step of the running process owes RunInv: what it knows itself.
LEMMA RunKept ==
  ASSUME TypeInv, RunInv, NEW p \in Procs, Active(p), NEW s, pc' = [pc EXCEPT ![p] = s],
         overlapped' = overlapped, ~overlapped => Knows(p)',
         recent' = recent \/ s \in Over
  PROVE  RunInv'
<1> SUFFICES ASSUME ~overlapped PROVE RunInv'
  BY DEF RunInv
<1>1. recent = NoProc /\ \A q \in Procs \ {p} : ~Active(q)
  BY Lone
<1>2. \A q \in Procs \ {p} : ~Active(q)'
  BY <1>1 DEF Active, TypeInv, TypeOK
<1>3. Sole'
  BY <1>2 DEF Sole
<1>4. \A q \in Procs \ {p} : Knows(q)'
  BY <1>2 DEF Active, Over, Knows, Storing
<1>5. recent' # NoProc => ~Active(p)'
  BY <1>1 DEF Active, TypeInv, TypeOK
<1> QED
  BY <1>2, <1>3, <1>4, <1>5 DEF RunInv

\* Processes that neither move nor see their files change know what they knew.
LEMMA StillKnows ==
  ASSUME NEW p, pc'[p] = pc[p], UNCHANGED <<kekFile, storeFile, arg, key, doc>>, Knows(p)
  PROVE  Knows(p)'
BY DEF Knows, Storing, UsesDevKEK, Sealed

\* RunInv is inductive.
LEMMA RunStep == TypeInv /\ RunInv /\ [Next]_vars => RunInv'
<1> SUFFICES ASSUME TypeInv, RunInv, [Next]_vars PROVE RunInv'
  OBVIOUS
<1> USE DEF files, history, Goto
<1>0. DOMAIN pc = Procs /\ DOMAIN key = Procs /\ DOMAIN doc = Procs
  BY DEF TypeInv, TypeOK
<1>1. ASSUME NEW p \in Procs, Refuse(p) PROVE RunInv'
  <2> SUFFICES ASSUME ~overlapped PROVE RunInv'
    BY <1>1 DEF Refuse, RunInv
  <2>1. pc' = [pc EXCEPT ![p] = "failed"] /\ UNCHANGED <<kekFile, storeFile, arg, key, doc, recent>>
    BY <1>1 DEF Refuse
  <2>2. Knows(p)'
    BY <1>0, <2>1 DEF Knows, Storing
  <2>3. \A q \in Procs : Active(q)' => Active(q) /\ q # p
    BY <1>0, <2>1 DEF Active, Over
  <2>4. \A q \in Procs \ {p} : Knows(q)'
    BY <1>0, <2>1, StillKnows DEF RunInv
  <2> QED
    BY <2>1, <2>2, <2>3, <2>4 DEF RunInv, Sole
<1>2. ASSUME NEW p \in Procs, Start(p) PROVE RunInv'
  <2> SUFFICES ASSUME ~overlapped' PROVE RunInv'
    BY DEF RunInv
  <2>1. ~overlapped /\ recent' = NoProc /\ \A q \in Procs : ~Active(q)
    BY <1>2 DEF Start
  <2>2. PICK s : /\ pc' = [pc EXCEPT ![p] = s] /\ arg' = arg
                 /\ s = "kek" \/ (s = "kms" /\ ~UsesDevKEK(p))
    BY <1>2 DEF Start, UsesDevKEK
  <2>3. \A q \in Procs \ {p} : ~Active(q)'
    BY <1>0, <2>1, <2>2 DEF Active
  <2>4. \A q \in Procs \ {p} : Knows(q)'
    BY <2>3 DEF Active, Over, Knows, Storing
  <2>5. Knows(p)'
    BY <1>0, <2>2 DEF Knows, Storing, UsesDevKEK
  <2> QED
    BY <2>1, <2>3, <2>4, <2>5 DEF RunInv, Sole
<1>3. ASSUME NEW p \in Procs, loadOrCreateKEK(p) PROVE RunInv'
  <2>1. Active(p)
    BY <1>3 DEF loadOrCreateKEK, Active, Over
  <2>2. CASE key' = [key EXCEPT ![p] = kekFile] /\ pc' = [pc EXCEPT ![p] = "load"]
    <3>1. pc'[p] = "load" /\ key'[p] = kekFile /\ kekFile' = kekFile
      BY <1>0, <1>3, <2>2 DEF loadOrCreateKEK
    <3>2. Knows(p)'
      BY <3>1 DEF Knows, Storing
    <3> QED
      BY <1>3, <2>1, <2>2, <3>2, RunKept DEF loadOrCreateKEK
  <2>3. CASE pc' = [pc EXCEPT ![p] = "kek open"]
    <3>1. Knows(p)'
      BY <1>0, <2>3 DEF Knows, Storing
    <3> QED
      BY <1>3, <2>1, <2>3, <3>1, RunKept DEF loadOrCreateKEK
  <2> QED
    BY <1>3, <2>2, <2>3 DEF loadOrCreateKEK
<1>4. ASSUME NEW p \in Procs, OpenKEK(p) PROVE RunInv'
  <2>1. Active(p)
    BY <1>4 DEF OpenKEK, Active, Over
  <2>2. PICK s \in {"failed", "kek write"} :
          pc' = [pc EXCEPT ![p] = s] /\ (s = "kek write" => kekFile' = "empty")
    BY <1>4 DEF OpenKEK
  <2>3. Knows(p)'
    BY <1>0, <2>2 DEF Knows, Storing
  <2> QED
    BY <1>4, <2>1, <2>2, <2>3, RunKept DEF OpenKEK
<1>5. ASSUME NEW p \in Procs, WriteKEK(p) PROVE RunInv'
  <2>1. Active(p)
    BY <1>5 DEF WriteKEK, Active, Over
  <2>2. PICK s \in {"failed", "load"} :
          pc' = [pc EXCEPT ![p] = s] /\ (s = "load" => kekFile' = key[p])
    BY <1>5 DEF WriteKEK
  <2>3. Knows(p)'
    BY <1>0, <1>5, <2>2 DEF WriteKEK, Knows, Storing
  <2> QED
    BY <1>5, <2>1, <2>2, <2>3, RunKept DEF WriteKEK
<1>6. ASSUME NEW p \in Procs, sealForEnclave(p) PROVE RunInv'
  <2>1. Active(p) /\ UNCHANGED <<overlapped, recent>>
    BY <1>6 DEF sealForEnclave, Active, Over
  <2>2. PICK s \in {"load", "failed"} : pc' = [pc EXCEPT ![p] = s]
    BY <1>6 DEF sealForEnclave
  <2>3. ~overlapped => ~UsesDevKEK(p) /\ ~UsesDevKEK(p)'
    BY <1>6, <2>1, Lone DEF sealForEnclave, Knows, UsesDevKEK
  <2>4. ~overlapped => Knows(p)'
    BY <1>0, <2>2, <2>3 DEF Knows, Storing
  <2> QED
    BY <2>1, <2>2, <2>4, RunKept
<1>7. ASSUME NEW p \in Procs, LoadAndPut(p) PROVE RunInv'
  <2>1. Active(p) /\ pc[p] = "load" /\ pc' = [pc EXCEPT ![p] = "store open"]
    BY <1>7 DEF LoadAndPut, Active, Over
  <2>2. UNCHANGED <<kekFile, storeFile, arg, key, overlapped, recent>>
    BY <1>7 DEF LoadAndPut
  <2>3. PICK recs \in Docs : doc' = [doc EXCEPT ![p] = Put(recs, arg[p].id, Sealed(p))]
    <3>1. storeFile.recs \in Docs
      BY DEF TypeInv, TypeOK, StoreFiles
    <3> QED
      BY <1>7, <3>1, NoRecsType DEF LoadAndPut
  <2>4. arg[p].id \in DOMAIN doc'[p] /\ doc'[p][arg[p].id] = Sealed(p)
    <3>1. doc'[p] = Put(recs, arg[p].id, Sealed(p))
      BY <1>0, <2>3
    <3>2. /\ DOMAIN Put(recs, arg[p].id, Sealed(p)) = {arg[p].id} \cup DOMAIN recs
          /\ Put(recs, arg[p].id, Sealed(p))[arg[p].id] = Sealed(p)
      BY PutOwn DEF TypeInv
    <3> QED
      BY <3>1, <3>2
  <2>5. ~overlapped => Knows(p)'
    <3>1. pc'[p] = "store open" /\ Sealed(p)' = Sealed(p)
      BY <1>0, <2>1, <2>2 DEF Sealed
    <3>2. ~overlapped /\ UsesDevKEK(p) => key[p] = kekFile
      BY <2>1, Lone DEF Knows
    <3> QED
      BY <2>2, <2>4, <3>1, <3>2 DEF Knows, UsesDevKEK
  <2> QED
    BY <2>1, <2>2, <2>5, RunKept
<1>8. ASSUME NEW p \in Procs, OpenStore(p) PROVE RunInv'
  <2>1. /\ Active(p) /\ pc[p] = "store open"
        /\ UNCHANGED <<kekFile, arg, key, doc, overlapped, recent>>
    BY <1>8 DEF OpenStore, Active, Over
  <2>2. CASE pc' = [pc EXCEPT ![p] = "failed"]
    <3>1. Knows(p)'
      BY <1>0, <2>2 DEF Knows, Storing
    <3> QED
      BY <2>1, <2>2, <3>1, RunKept
  <2>3. CASE pc' = [pc EXCEPT ![p] = "store write"] /\ storeFile' = Bad("empty")
    <3>1. pc'[p] = "store write" /\ storeFile'.form = "empty" /\ Sealed(p)' = Sealed(p)
      BY <1>0, <2>1, <2>3 DEF Bad, Sealed
    <3>2. ~overlapped => /\ UsesDevKEK(p) => key[p] = kekFile
                         /\ arg[p].id \in DOMAIN doc[p] /\ doc[p][arg[p].id] = Sealed(p)
      BY <2>1, Lone DEF Knows, Storing
    <3>3. ~overlapped => Knows(p)'
      BY <2>1, <3>1, <3>2 DEF Knows, UsesDevKEK
    <3> QED
      BY <2>1, <2>3, <3>3, RunKept
  <2> QED
    BY <1>8, <2>2, <2>3 DEF OpenStore
<1>9. ASSUME NEW p \in Procs, WriteStore(p) PROVE RunInv'
  <2>1. Active(p) /\ overlapped' = overlapped
    BY <1>9 DEF WriteStore, Active, Over
  <2>2. PICK s \in {"done", "failed"} : pc' = [pc EXCEPT ![p] = s]
    BY <1>9 DEF WriteStore
  <2>3. Knows(p)' /\ s \in Over
    BY <1>0, <2>2 DEF Knows, Storing, Over
  <2> QED
    BY <2>1, <2>2, <2>3, RunKept
<1>10. ASSUME NEW p \in Procs, Crash(p) PROVE RunInv'
  <2>1. Active(p) /\ pc' = [pc EXCEPT ![p] = "crashed"] /\ UNCHANGED <<overlapped, recent>>
    BY <1>10 DEF Crash
  <2>2. Knows(p)'
    BY <1>0, <2>1 DEF Knows, Storing
  <2> QED
    BY <2>1, <2>2, RunKept
<1>11. ASSUME UNCHANGED <<files, pc, arg, key, doc, history>> PROVE RunInv'
  <2>1. \A p \in Procs : (Active(p)' <=> Active(p)) /\ (Knows(p) => Knows(p)')
    BY <1>11, StillKnows DEF Active
  <2> QED
    BY <1>11, <2>1 DEF RunInv, Sole
<1> QED
  BY <1>1, <1>2, <1>3, <1>4, <1>5, <1>6, <1>7, <1>8, <1>9, <1>10, <1>11
  DEF Next, Step, BootKEK, BootStore, BootServe, Stop, vars

\* While no two enrolments overlap, one process at a time is at work, and what it read of the
\* files is what is there until it writes (main.go: runEnroll).
THEOREM RunInvHolds == Spec => []RunInv
<1>1. Init => RunInv
  BY DEF Init, RunInv, Sole, Active, Over, Knows, Storing
<1> QED
  BY <1>1, RunStep, TypeInvHolds, PTL DEF Spec

\* What has happened is not forgotten.
Remembered ==
  /\ overlapped' = overlapped \/ overlapped' = (overlapped \/ \E q \in Procs : Active(q))
  /\ \/ misread' = misread \/ misread' = TRUE
     \/ misread' = (misread \/ kekFile \notin Unreadable)
  /\ \/ damaged' = damaged \/ damaged' = TRUE
     \/ \E p \in Procs : damaged' = (damaged \/ pc[p] \in {"kek write", "store write"})

\* What has happened is not forgotten.
LEMMA HistoryStays ==
  ASSUME [Next]_vars
  PROVE  (overlapped => overlapped') /\ (misread => misread') /\ (damaged => damaged')
<1> USE DEF Remembered, history
<1>1. ASSUME NEW p \in Procs, Start(p) PROVE Remembered
  BY <1>1 DEF Start
<1>2. ASSUME NEW p \in Procs, loadOrCreateKEK(p) PROVE Remembered
  BY <1>2 DEF loadOrCreateKEK
<1>3. ASSUME NEW p \in Procs, WriteKEK(p) PROVE Remembered
  BY <1>3 DEF WriteKEK
<1>4. ASSUME NEW p \in Procs, LoadAndPut(p) PROVE Remembered
  BY <1>4 DEF LoadAndPut
<1>5. ASSUME NEW p \in Procs, WriteStore(p) PROVE Remembered
  BY <1>5 DEF WriteStore
<1>6. ASSUME NEW p \in Procs, Crash(p) PROVE Remembered
  BY <1>6 DEF Crash
<1>7. ASSUME NEW p \in Procs, Refuse(p) \/ OpenKEK(p) \/ sealForEnclave(p) \/ OpenStore(p)
      PROVE  Remembered
  BY <1>7 DEF Refuse, OpenKEK, sealForEnclave, OpenStore
<1>8. ASSUME NEW cfg \in Configs, BootKEK(cfg) PROVE Remembered
  BY <1>8 DEF BootKEK
<1>9. ASSUME BootStore \/ BootServe \/ Stop PROVE Remembered
  BY <1>9 DEF BootStore, BootServe, Stop
<1>10. ASSUME UNCHANGED vars PROVE Remembered
  BY <1>10 DEF vars
<1> HIDE DEF Remembered, history
<1>11. Remembered
  BY <1>1, <1>2, <1>3, <1>4, <1>5, <1>6, <1>7, <1>8, <1>9, <1>10, Zenon DEF Next, Step
<1>12. overlapped => overlapped'
  <2>1. overlapped' = overlapped \/ overlapped' = (overlapped \/ \E q \in Procs : Active(q))
    BY <1>11 DEF Remembered
  <2> QED
    BY <2>1, Zenon
<1>13. misread => misread'
  <2>1. \/ misread' = misread \/ misread' = TRUE
        \/ misread' = (misread \/ kekFile \notin Unreadable)
    BY <1>11 DEF Remembered
  <2> QED
    BY <2>1, Zenon
<1>14. damaged => damaged'
  <2>1. \/ damaged' = damaged \/ damaged' = TRUE
        \/ \E p \in Procs : damaged' = (damaged \/ pc[p] \in {"kek write", "store write"})
    BY <1>11 DEF Remembered
  <2> QED
    BY <2>1, Zenon
<1> QED
  BY <1>12, <1>13, <1>14

-----------------------------------------------------------------------------
\* The secret just enrolled.

\* LatestServes is inductive, given RunInv.
LEMMA LatestStep == TypeInv /\ RunInv /\ LatestServes /\ [Next]_vars => LatestServes'
<1> SUFFICES ASSUME TypeInv, RunInv, LatestServes, [Next]_vars, ~overlapped', recent' # NoProc
             PROVE  LatestServes'
  BY DEF LatestServes
<1> USE DEF files, history
<1>1. ASSUME NEW p \in Procs, WriteStore(p), recent' = p PROVE LatestServes'
  <2>1. ~overlapped /\ Active(p) /\ pc[p] = "store write" /\ UNCHANGED <<kekFile, arg>>
    BY <1>1 DEF WriteStore, Active, Over
  <2>2. Knows(p) /\ recent = NoProc
    BY <2>1, Lone
  <2>3. /\ storeFile.form = "empty" /\ (UsesDevKEK(p) => key[p] = kekFile)
        /\ arg[p].id \in DOMAIN doc[p] /\ doc[p][arg[p].id] = Sealed(p)
    BY <2>1, <2>2 DEF Knows, Storing
  <2>4. storeFile'.recs = doc[p]
    <3>1. storeFile' = [form |-> "whole", recs |-> doc[p]]
      BY <1>1, <2>2, <2>3 DEF WriteStore
    <3> QED
      BY <3>1
  <2>5. Sealed(p).by = p /\ Sealed(p).key = key[p] /\ Sealed(p).alg = arg[p].alg
    BY DEF Sealed
  <2> QED
    BY <1>1, <2>1, <2>3, <2>4, <2>5 DEF LatestServes, Opens, UsesDevKEK
<1>2. ASSUME UNCHANGED <<kekFile, storeFile, arg, recent, overlapped>> PROVE LatestServes'
  BY <1>2 DEF LatestServes
<1>3. ASSUME NEW p \in Procs, Active(p), UNCHANGED <<recent, overlapped>> PROVE FALSE
  BY <1>3, Lone
<1>4. ASSUME NEW p \in Procs, Step(p) PROVE LatestServes'
  <2>1. CASE Refuse(p)
    BY <1>2, <2>1 DEF Refuse
  <2>2. CASE Start(p)
    BY <2>2 DEF Start
  <2>3. CASE WriteStore(p)
    <3>1. recent' = p \/ UNCHANGED recent
      BY <2>3 DEF WriteStore
    <3>2. Active(p) /\ UNCHANGED overlapped
      BY <2>3 DEF WriteStore, Active, Over
    <3> QED
      BY <1>1, <1>3, <2>3, <3>1, <3>2
  <2>4. CASE Crash(p)
    BY <1>3, <2>4 DEF Crash
  <2>5. CASE loadOrCreateKEK(p) \/ OpenKEK(p) \/ WriteKEK(p)
    BY <1>3, <2>5 DEF loadOrCreateKEK, OpenKEK, WriteKEK, Active, Over
  <2>6. CASE sealForEnclave(p) \/ LoadAndPut(p) \/ OpenStore(p)
    BY <1>3, <2>6 DEF sealForEnclave, LoadAndPut, OpenStore, Active, Over
  <2> QED
    BY <1>4, <2>1, <2>2, <2>3, <2>4, <2>5, <2>6 DEF Step
<1> QED
  BY <1>2, <1>4 DEF Next, BootKEK, BootStore, BootServe, Stop, vars

\* The secret just enrolled is in the store and opens under the KEK on disk, after
\* any number of crashes, failed writes and failed reads (main.go: runEnroll).
THEOREM LatestServesHolds == Spec => []LatestServes
<1>1. Init => LatestServes
  BY DEF Init, LatestServes
<1> QED
  BY <1>1, LatestStep, TypeInvHolds, RunInvHolds, PTL DEF Spec

-----------------------------------------------------------------------------
\* The KEK on disk.

\* Under a file that holds no KEK, no dev record opens: there is none.
LEMMA NoDevRecord ==
  ASSUME NEW recs \in Docs, NEW k \in Unreadable, Keyed(recs, k), NEW other
  PROVE  Keyed(recs, other)
<1>1. PICK S \in SUBSET Ids : recs \in [S -> Records]
  BY DEF Docs
<1>2. \A id \in DOMAIN recs : recs[id].key # k
  BY <1>1, EnrollAssumption DEF Records
<1> QED
  BY <1>2 DEF Keyed, Opens

\* What a step of a process that leaves the KEK file alone owes KeyInv ...
LEMMA SameKEK ==
  ASSUME KeyInv, ~overlapped, ~misread, NEW p \in Procs, UNCHANGED <<kekFile, srv>>,
         Keyed(storeFile'.recs, kekFile), SealsUnder(p)',
         \A q \in Procs \ {p} : pc'[q] = pc[q] /\ doc'[q] = doc[q]
  PROVE  KeyInv'
<1>1. (\A q \in Procs : SealsUnder(q)) /\ ServesUnder
  BY DEF KeyInv
<1>2. ASSUME NEW q \in Procs, q # p PROVE SealsUnder(q)'
  BY <1>1, <1>2 DEF SealsUnder, Keyed
<1>3. ServesUnder'
  BY <1>1 DEF ServesUnder, Keyed
<1>4. Keyed(storeFile.recs, kekFile)'
  BY DEF Keyed
<1> QED
  BY <1>2, <1>3, <1>4 DEF KeyInv

\* ... and what one that replaces the file does.
LEMMA NewKEK ==
  ASSUME TypeInv, RunInv, KeyInv, ~overlapped, ~misread, NEW p \in Procs, Active(p),
         kekFile \in Unreadable, UNCHANGED <<storeFile, srv>>,
         NEW s, pc' = [pc EXCEPT ![p] = s], s # "kek open", s \notin Storing
  PROVE  KeyInv'
<1>0. storeFile.recs \in Docs /\ DOMAIN pc = Procs
  BY DEF TypeInv, TypeOK, StoreFiles
<1>1. Keyed(storeFile.recs, kekFile) /\ ServesUnder
  BY DEF KeyInv
<1>2. Keyed(storeFile.recs, kekFile')
  BY <1>0, <1>1, NoDevRecord
<1>3. Keyed(storeFile.recs, kekFile)'
  BY <1>2 DEF Keyed
<1>4. ~(srv.stage # "down" /\ Mode(srv.cfg) = "dev")
  BY <1>1, EnrollAssumption DEF ServesUnder
<1>5. ServesUnder'
  BY <1>4 DEF ServesUnder
<1>6. \A q \in Procs \ {p} : ~Active(q) /\ pc'[q] = pc[q]
  BY <1>0, Lone
<1>7. \A q \in Procs \ {p} : SealsUnder(q)'
  BY <1>6 DEF SealsUnder, Active, Over, Storing
<1>8. SealsUnder(p)'
  BY <1>0 DEF SealsUnder
<1> QED
  BY <1>3, <1>5, <1>7, <1>8 DEF KeyInv

\* KeyInv is inductive.
LEMMA KeyStep == TypeInv /\ RunInv /\ KeyInv /\ [Next]_vars => KeyInv'
<1> SUFFICES ASSUME TypeInv, RunInv, KeyInv, [Next]_vars, ~overlapped', ~misread' PROVE KeyInv'
  BY DEF KeyInv
<1> USE DEF files, history, Goto
<1>0. /\ DOMAIN pc = Procs /\ DOMAIN doc = Procs
      /\ kekFile \in Unreadable \cup Procs /\ storeFile.recs \in Docs
  BY DEF TypeInv, TypeOK, StoreFiles
<1>a. ~overlapped /\ ~misread
  BY HistoryStays
<1>b. Keyed(storeFile.recs, kekFile) /\ ServesUnder /\ \A p \in Procs : SealsUnder(p)
  BY <1>a DEF KeyInv
<1>1. ASSUME NEW p \in Procs, NEW s, pc' = [pc EXCEPT ![p] = s], s # "kek open", s \notin Storing,
             UNCHANGED <<kekFile, storeFile, doc, srv>>
      PROVE  KeyInv'
  <2>1. SealsUnder(p)'
    BY <1>0, <1>1 DEF SealsUnder
  <2> QED
    BY <1>0, <1>1, <1>a, <1>b, <2>1, SameKEK
<1>2. ASSUME NEW p \in Procs, Refuse(p) \/ Start(p) \/ sealForEnclave(p) PROVE KeyInv'
  <2>1. PICK s \in {"failed", "kek", "kms", "load"} : pc' = [pc EXCEPT ![p] = s]
    BY <1>2 DEF Refuse, Start, sealForEnclave
  <2>2. s # "kek open" /\ s \notin Storing
    BY DEF Storing
  <2> QED
    BY <1>1, <1>2, <2>1, <2>2 DEF Refuse, Start, sealForEnclave
<1>3. ASSUME NEW p \in Procs, Crash(p) PROVE KeyInv'
  BY <1>1, <1>3 DEF Crash, Storing
<1>4. ASSUME NEW p \in Procs, loadOrCreateKEK(p) PROVE KeyInv'
  <2>1. CASE pc' = [pc EXCEPT ![p] = "load"]
    BY <1>1, <1>4, <2>1 DEF loadOrCreateKEK, Storing
  <2>2. CASE pc' = [pc EXCEPT ![p] = "kek open"] /\ misread' = (misread \/ kekFile \notin Unreadable)
    <3>1. kekFile \in Unreadable /\ UNCHANGED <<kekFile, storeFile, doc, srv>>
      BY <1>4, <2>2 DEF loadOrCreateKEK
    <3>2. SealsUnder(p)'
      BY <1>0, <2>2, <3>1 DEF SealsUnder, Storing
    <3> QED
      BY <1>0, <1>a, <1>b, <2>2, <3>1, <3>2, SameKEK
  <2> QED
    BY <1>4, <2>1, <2>2 DEF loadOrCreateKEK
<1>5. ASSUME NEW p \in Procs, OpenKEK(p) PROVE KeyInv'
  <2>1. Active(p) /\ pc[p] = "kek open" /\ UNCHANGED <<storeFile, doc, srv>>
    BY <1>5 DEF OpenKEK, Active, Over
  <2>2. kekFile \in Unreadable
    BY <1>b, <2>1 DEF SealsUnder
  <2>3. PICK s \in {"failed", "kek write"} : pc' = [pc EXCEPT ![p] = s]
    BY <1>5 DEF OpenKEK
  <2>4. s # "kek open" /\ s \notin Storing
    BY DEF Storing
  <2> QED
    BY <1>a, <2>1, <2>2, <2>3, <2>4, NewKEK
<1>6. ASSUME NEW p \in Procs, WriteKEK(p) PROVE KeyInv'
  <2>1. Active(p) /\ pc[p] = "kek write" /\ UNCHANGED <<storeFile, doc, srv>>
    BY <1>6 DEF WriteKEK, Active, Over
  <2>2. kekFile \in Unreadable
    BY <1>a, <2>1, Lone DEF Knows, Unreadable
  <2>3. PICK s \in {"failed", "load"} : pc' = [pc EXCEPT ![p] = s]
    BY <1>6 DEF WriteKEK
  <2>4. s # "kek open" /\ s \notin Storing
    BY DEF Storing
  <2> QED
    BY <1>a, <2>1, <2>2, <2>3, <2>4, NewKEK
<1>7. ASSUME NEW p \in Procs, LoadAndPut(p) PROVE KeyInv'
  <2>1. /\ Active(p) /\ pc[p] = "load" /\ pc' = [pc EXCEPT ![p] = "store open"]
        /\ UNCHANGED <<kekFile, storeFile, srv>>
    BY <1>7 DEF LoadAndPut, Active, Over
  <2>2. doc' = [doc EXCEPT ![p] = Put(storeFile.recs, arg[p].id, Sealed(p))]
    BY <1>7 DEF LoadAndPut
  <2>3. UsesDevKEK(p) => key[p] = kekFile
    BY <1>a, <2>1, Lone DEF Knows
  <2>4. Sealed(p).alg = "AES-256-GCM-DEV" => Opens(Sealed(p), kekFile)
    BY <2>3 DEF Sealed, Opens, UsesDevKEK
  <2> DEFINE new == Put(storeFile.recs, arg[p].id, Sealed(p))
  <2>5. /\ DOMAIN new = {arg[p].id} \cup DOMAIN storeFile.recs
        /\ new[arg[p].id] = Sealed(p)
        /\ \A i \in DOMAIN storeFile.recs : i # arg[p].id => new[i] = storeFile.recs[i]
    BY <1>0, PutOwn DEF TypeInv
  <2> HIDE DEF new
  <2>6. Keyed(new, kekFile)
    BY <1>b, <2>4, <2>5 DEF Keyed
  <2>7. SealsUnder(p)'
    <3>1. doc'[p] = new /\ pc'[p] = "store open"
      BY <1>0, <2>1, <2>2 DEF new
    <3> QED
      BY <2>1, <2>6, <3>1 DEF SealsUnder, Keyed
  <2> QED
    BY <1>0, <1>a, <1>b, <2>1, <2>2, <2>7, SameKEK
<1>8. ASSUME NEW p \in Procs, OpenStore(p) PROVE KeyInv'
  <2>1. CASE pc' = [pc EXCEPT ![p] = "failed"] /\ UNCHANGED storeFile
    <3>1. UNCHANGED <<kekFile, doc, srv>> /\ "failed" \notin Storing
      BY <1>8 DEF OpenStore, Storing
    <3> QED
      BY <1>1, <2>1, <3>1
  <2>2. CASE pc' = [pc EXCEPT ![p] = "store write"] /\ storeFile' = Bad("empty")
    <3>1. pc[p] = "store open" /\ UNCHANGED <<kekFile, doc, srv>>
      BY <1>8 DEF OpenStore
    <3>2. Keyed(doc[p], kekFile)
      BY <1>b, <3>1 DEF SealsUnder, Storing
    <3>3. SealsUnder(p)'
      BY <1>0, <2>2, <3>1, <3>2 DEF SealsUnder, Keyed
    <3>4. Keyed(storeFile'.recs, kekFile)
      BY <2>2, NoRecsType DEF Bad, Keyed
    <3> QED
      BY <1>0, <1>a, <2>2, <3>1, <3>3, <3>4, SameKEK
  <2> QED
    BY <1>8, <2>1, <2>2 DEF OpenStore
<1>9. ASSUME NEW p \in Procs, WriteStore(p) PROVE KeyInv'
  <2>1. pc[p] = "store write" /\ UNCHANGED <<kekFile, doc, srv>>
    BY <1>9 DEF WriteStore
  <2>2. Keyed(doc[p], kekFile)
    BY <1>b, <2>1 DEF SealsUnder, Storing
  <2>3. storeFile'.recs = doc[p] \/ storeFile'.recs = NoRecs
    <3>1. storeFile' = [form |-> "whole", recs |-> doc[p]] \/ storeFile' = Bad("torn")
      BY <1>9 DEF WriteStore
    <3> QED
      BY <3>1, FileTypes
  <2>4. Keyed(storeFile'.recs, kekFile)
    BY <2>2, <2>3, NoRecsType DEF Keyed
  <2>5. PICK s \in {"done", "failed"} : pc' = [pc EXCEPT ![p] = s]
    BY <1>9 DEF WriteStore
  <2>6. SealsUnder(p)'
    BY <1>0, <2>5 DEF SealsUnder, Storing
  <2> QED
    BY <1>0, <1>a, <2>1, <2>4, <2>5, <2>6, SameKEK
<1>10. ASSUME UNCHANGED <<kekFile, storeFile, pc, doc>>, ServesUnder' PROVE KeyInv'
  <2>1. ASSUME NEW p \in Procs PROVE SealsUnder(p)'
    BY <1>b, <1>10, <2>1 DEF SealsUnder, Keyed
  <2> QED
    BY <1>b, <1>10, <2>1 DEF KeyInv, Keyed
<1>11. ASSUME NEW cfg \in Configs, BootKEK(cfg) PROVE KeyInv'
  <2>1. /\ srv'.cfg = cfg /\ srv'.recs = NoRecs
        /\ Mode(cfg) = "dev" => kekFile \notin Unreadable /\ srv'.kek = kekFile
    BY <1>11 DEF BootKEK, Down
  <2>2. UNCHANGED <<kekFile, storeFile, pc, doc>>
    BY <1>11 DEF BootKEK
  <2>3. ServesUnder'
    BY <1>0, <2>1, <2>2, NoRecsType DEF ServesUnder, Keyed
  <2> QED
    BY <1>10, <2>2, <2>3
<1>12. CASE BootStore \/ BootServe \/ Stop
  <2>1. UNCHANGED <<kekFile, storeFile, pc, doc>>
    BY <1>12 DEF BootStore, BootServe, Stop
  <2>2. CASE srv' = Down
    BY <1>10, <2>1, <2>2 DEF ServesUnder, Down
  <2>3. CASE srv' # Down
    <3>0. srv \in Brokers
      BY DEF TypeInv, TypeOK
    <3>1. /\ srv.stage # "down" /\ srv'.cfg = srv.cfg /\ srv'.kek = srv.kek
          /\ srv'.recs = storeFile.recs \/ srv'.recs = srv.recs
      BY <1>12, <2>3, <3>0 DEF BootStore, BootServe, Stop, Brokers
    <3>2. ServesUnder'
      BY <1>b, <2>1, <3>1 DEF ServesUnder, Keyed
    <3> QED
      BY <1>10, <2>1, <3>2
  <2> QED
    BY <2>2, <2>3
<1>13. CASE UNCHANGED vars
  BY <1>b, <1>10, <1>13 DEF vars, ServesUnder, Keyed
<1> QED
  BY <1>2, <1>3, <1>4, <1>5, <1>6, <1>7, <1>8, <1>9, <1>11, <1>12, <1>13 DEF Next, Step

\* The inductive invariant behind EnrolledOpens and ServerOpens: without overlap and
\* misread files, the records in the store file, in a process and in a broker are under the KEK
\* on file (main.go: loadOrCreateKEK, runEnroll, buildUnwrapper).
THEOREM KeyInvHolds == Spec => []KeyInv
<1>1. Init => KeyInv
  BY NoRecsType DEF Init, KeyInv, Keyed, SealsUnder, Storing, ServesUnder, Bad, Down
<1> QED
  BY <1>1, KeyStep, TypeInvHolds, RunInvHolds, PTL DEF Spec

\* A KEK that has sealed a stored secret is never replaced (main.go:
\* loadOrCreateKEK, SaveFile).
THEOREM EnrolledOpensHolds == Spec => []EnrolledOpens
<1>1. KeyInv => EnrolledOpens
  BY DEF KeyInv, Keyed, EnrolledOpens
<1> QED
  BY <1>1, KeyInvHolds, PTL

\* A broker that booted among enrolments opens every dev record it serves
\* (main.go: buildUnwrapper, LoadFile).
THEOREM ServerOpensHolds == Spec => []ServerOpens
<1>1. KeyInv => ServerOpens
  BY DEF KeyInv, ServesUnder, Keyed, ServerOpens
<1> QED
  BY <1>1, KeyInvHolds, PTL

-----------------------------------------------------------------------------
\* What the operator saw enrolled.

\* A step of a process outside the writing of the store keeps what is there.
LEMMA StoreKept ==
  ASSUME KeepInv, ~overlapped, ~damaged, ~misread, NEW p \in Procs, DOMAIN pc = Procs,
         NEW s, pc' = [pc EXCEPT ![p] = s], s \notin Storing, pc[p] # "store write",
         UNCHANGED <<storeFile, arg, doc, last>>
  PROVE  KeepInv'
<1>1. ~Saving' => ~Saving
  BY DEF Saving
<1>2. Keeps(storeFile.recs, {}) => Keeps(storeFile.recs, {})'
  BY DEF Keeps
<1>3. ASSUME NEW q \in Procs, pc'[q] \in Storing PROVE Keeps(doc[q], {arg[q].id})'
  <2>1. pc[q] \in Storing
    BY <1>3
  <2>2. Keeps(doc[q], {arg[q].id})
    BY <2>1 DEF KeepInv
  <2> QED
    BY <2>2 DEF Keeps
<1> QED
  BY <1>1, <1>2, <1>3 DEF KeepInv

\* KeepInv is inductive.
LEMMA KeepStep == TypeInv /\ RunInv /\ KeepInv /\ [Next]_vars => KeepInv'
<1> SUFFICES ASSUME TypeInv, RunInv, KeepInv, [Next]_vars, ~overlapped', ~damaged', ~misread'
             PROVE  KeepInv'
  BY DEF KeepInv
<1> USE DEF files, history, Goto
<1>0. DOMAIN pc = Procs /\ DOMAIN doc = Procs /\ DOMAIN last = Ids /\ storeFile.recs \in Docs
  BY DEF TypeInv, TypeOK, StoreFiles
<1>a. ~overlapped /\ ~misread /\ ~damaged
  BY HistoryStays
<1>1. ASSUME NEW p \in Procs, Refuse(p) \/ Start(p) \/ sealForEnclave(p) PROVE KeepInv'
  <2>1. PICK s \in {"failed", "kek", "kms", "load"} : pc' = [pc EXCEPT ![p] = s]
    BY <1>1 DEF Refuse, Start, sealForEnclave
  <2>2. s \notin Storing
    BY DEF Storing
  <2>3. pc[p] # "store write" /\ UNCHANGED <<storeFile, arg, doc, last>>
    BY <1>1 DEF Refuse, Start, sealForEnclave
  <2> QED
    BY <1>0, <1>a, <2>1, <2>2, <2>3, StoreKept
<1>2. ASSUME NEW p \in Procs, loadOrCreateKEK(p) \/ OpenKEK(p) \/ WriteKEK(p) PROVE KeepInv'
  <2>1. PICK s \in {"failed", "kek open", "kek write", "load"} : pc' = [pc EXCEPT ![p] = s]
    BY <1>2 DEF loadOrCreateKEK, OpenKEK, WriteKEK
  <2>2. s \notin Storing
    BY DEF Storing
  <2>3. pc[p] # "store write" /\ UNCHANGED <<storeFile, arg, doc, last>>
    BY <1>2 DEF loadOrCreateKEK, OpenKEK, WriteKEK
  <2> QED
    BY <1>0, <1>a, <2>1, <2>2, <2>3, StoreKept
<1>3. ASSUME NEW p \in Procs, Crash(p) PROVE KeepInv'
  <2>1. /\ pc' = [pc EXCEPT ![p] = "crashed"] /\ UNCHANGED <<storeFile, arg, doc, last>>
        /\ damaged' = (damaged \/ pc[p] \in {"kek write", "store write"})
    BY <1>3 DEF Crash
  <2>2. pc[p] \notin {"kek write", "store write"}
    BY <2>1, Zenon
  <2>3. "crashed" \notin Storing
    BY DEF Storing
  <2> QED
    BY <1>0, <1>a, <2>1, <2>2, <2>3, StoreKept
<1>4. ASSUME NEW p \in Procs, Active(p) PROVE \A q \in Procs \ {p} : pc[q] \notin Storing
  BY <1>a, <1>4, Lone DEF Active, Over, Storing
<1>5. ASSUME NEW p \in Procs, LoadAndPut(p) PROVE KeepInv'
  <2>1. /\ Active(p) /\ pc[p] = "load" /\ pc' = [pc EXCEPT ![p] = "store open"]
        /\ UNCHANGED <<storeFile, arg, last>>
    BY <1>5 DEF LoadAndPut, Active, Over
  <2> DEFINE new == Put(storeFile.recs, arg[p].id, Sealed(p))
  <2>2. doc' = [doc EXCEPT ![p] = new]
    BY <1>5 DEF LoadAndPut
  <2>3. ~Saving
    BY <1>4, <2>1 DEF Saving, Storing
  <2>4. Keeps(storeFile.recs, {})
    BY <1>a, <2>3 DEF KeepInv
  <2>5. /\ DOMAIN new = {arg[p].id} \cup DOMAIN storeFile.recs
        /\ \A i \in DOMAIN storeFile.recs : i # arg[p].id => new[i] = storeFile.recs[i]
    BY <1>0, PutOwn DEF TypeInv
  <2> HIDE DEF new
  <2>6. Keeps(new, {arg[p].id})
    BY <2>4, <2>5 DEF Keeps
  <2>7. doc'[p] = new /\ \A q \in Procs \ {p} : pc'[q] \notin Storing
    BY <1>0, <1>4, <2>1, <2>2
  <2>8. Keeps(doc[p], {arg[p].id})'
    BY <2>1, <2>6, <2>7 DEF Keeps
  <2>9. Keeps(storeFile.recs, {})'
    BY <2>1, <2>4 DEF Keeps
  <2> QED
    BY <2>7, <2>8, <2>9 DEF KeepInv
<1>6. ASSUME NEW p \in Procs, OpenStore(p) PROVE KeepInv'
  <2>1. Active(p) /\ pc[p] = "store open" /\ UNCHANGED <<arg, doc, last>>
    BY <1>6 DEF OpenStore, Active, Over
  <2>2. CASE pc' = [pc EXCEPT ![p] = "failed"] /\ UNCHANGED storeFile
    <3>1. "failed" \notin Storing
      BY DEF Storing
    <3> QED
      BY <1>0, <1>a, <2>1, <2>2, <3>1, StoreKept
  <2>3. CASE pc' = [pc EXCEPT ![p] = "store write"]
    <3>1. Keeps(doc[p], {arg[p].id})
      BY <1>a, <2>1 DEF KeepInv, Storing
    <3>2. Keeps(doc[p], {arg[p].id})'
      BY <2>1, <3>1 DEF Keeps
    <3>3. \A q \in Procs \ {p} : pc'[q] \notin Storing
      BY <1>0, <1>4, <2>1, <2>3
    <3>4. Saving'
      BY <1>0, <2>3 DEF Saving
    <3> QED
      BY <3>2, <3>3, <3>4 DEF KeepInv
  <2> QED
    BY <1>6, <2>2, <2>3 DEF OpenStore
<1>7. ASSUME NEW p \in Procs, WriteStore(p) PROVE KeepInv'
  <2>1. Active(p) /\ pc[p] = "store write" /\ UNCHANGED <<arg, doc>>
    BY <1>7 DEF WriteStore, Active, Over
  <2>2. /\ storeFile.form = "empty" /\ arg[p].id \in DOMAIN doc[p] /\ doc[p][arg[p].id] = Sealed(p)
    BY <1>a, <2>1, Lone DEF Knows, Storing
  <2>3. Keeps(doc[p], {arg[p].id})
    BY <1>a, <2>1 DEF KeepInv, Storing
  <2>4. /\ storeFile' = [form |-> "whole", recs |-> doc[p]] /\ pc' = [pc EXCEPT ![p] = "done"]
        /\ last' = [last EXCEPT ![arg[p].id] = p]
    BY <1>7, <2>2 DEF WriteStore
  <2>5. storeFile'.recs = doc[p] /\ Sealed(p).by = p
    BY <2>4 DEF Sealed
  <2>6. Keeps(storeFile.recs, {})'
    BY <1>0, <2>2, <2>3, <2>4, <2>5 DEF Keeps
  <2>7. \A q \in Procs : pc'[q] \notin Storing
    BY <1>0, <1>4, <2>1, <2>4 DEF Storing
  <2> QED
    BY <2>6, <2>7 DEF KeepInv
<1>8. ASSUME UNCHANGED <<files, pc, arg, doc, history>> PROVE KeepInv'
  BY <1>a, <1>8 DEF KeepInv, Keeps, Saving
<1> QED
  BY <1>1, <1>2, <1>3, <1>5, <1>6, <1>7, <1>8
  DEF Next, Step, BootKEK, BootStore, BootServe, Stop, vars

\* The inductive invariant behind EnrolledKept: without overlap, damage and
\* misread files, what was enrolled is in the store file or in the hands of the one process
\* that is writing it (store.go: SaveFile).
THEOREM KeepInvHolds == Spec => []KeepInv
<1>1. Init => KeepInv
  BY DEF Init, KeepInv, Keeps, Saving, Storing
<1> QED
  BY <1>1, KeepStep, TypeInvHolds, RunInvHolds, PTL DEF Spec

\* Enrolments one after the other lose nothing the operator saw enrolled, unless a
\* file is left truncated or a good one is misread (main.go: runEnroll).
THEOREM EnrolledKeptHolds == Spec => []EnrolledKept
<1>1. KeepInv => EnrolledKept
  BY DEF KeepInv, Keeps, EnrolledKept
<1> QED
  BY <1>1, KeepInvHolds, PTL

-----------------------------------------------------------------------------
\* The configuration of the broker that serves.

\* What a broker checked of its configuration stays true while it boots and serves.
LEMMA BootStep == TypeInv /\ BootInv /\ [Next]_vars => BootInv'
<1> SUFFICES ASSUME TypeInv, BootInv, [Next]_vars PROVE BootInv'
  OBVIOUS
<1>0. srv \in Brokers
  BY DEF TypeInv, TypeOK
<1>1. ASSUME srv' = srv PROVE BootInv'
  BY <1>1 DEF BootInv
<1>2. ASSUME srv' = Down PROVE BootInv'
  BY <1>2 DEF BootInv, Down
<1>3. ASSUME NEW cfg \in Configs, BootKEK(cfg) PROVE BootInv'
  <2>1. /\ srv'.stage = "keyed" /\ srv'.cfg = cfg /\ MayServe(cfg)
        /\ Mode(cfg) # "dev" => srv'.kek = NoProc
    BY <1>3 DEF BootKEK, Down
  <2> QED
    BY <2>1 DEF BootInv
<1>4. ASSUME BootStore, srv' # Down PROVE BootInv'
  <2>1. srv.stage = "keyed" /\ srv'.stage = "loaded" /\ srv'.cfg = srv.cfg /\ srv'.kek = srv.kek
    BY <1>0, <1>4 DEF BootStore, Brokers
  <2> QED
    BY <2>1 DEF BootInv
<1>5. ASSUME BootServe, srv' # Down PROVE BootInv'
  <2>1. /\ srv.stage = "loaded" /\ srv'.stage = "up" /\ srv'.cfg = srv.cfg /\ srv'.kek = srv.kek
        /\ srv'.tls = BuildServerTLS(srv.cfg)
    BY <1>0, <1>5 DEF BootServe, Brokers
  <2> QED
    BY <2>1 DEF BootInv
<1>6. ASSUME NEW p \in Procs, Step(p) PROVE srv' = srv
  BY <1>6 DEF Step, Refuse, Start, loadOrCreateKEK, OpenKEK, WriteKEK, sealForEnclave, LoadAndPut,
              OpenStore, WriteStore, Crash
<1> QED
  BY <1>1, <1>2, <1>3, <1>4, <1>5, <1>6 DEF Next, Stop, vars

\* A broker that serves is what its mode says (config.go: ValidateForServe;
\* main.go: buildUnwrapper; tls.go: BuildServerTLS).
THEOREM ServesAsDeclaredHolds == Spec => []ServesAsDeclared
<1>1. Init => BootInv
  BY DEF Init, BootInv, Down
<1>2. TypeInv /\ BootInv => ServesAsDeclared
  <2> SUFFICES ASSUME TypeInv, BootInv, srv.stage = "up" PROVE ServesAsDeclared
    BY DEF ServesAsDeclared
  <2>1. /\ srv.cfg \in Configs /\ MayServe(srv.cfg) /\ srv.tls = BuildServerTLS(srv.cfg)
        /\ Mode(srv.cfg) # "dev" => srv.kek = NoProc
    BY DEF BootInv
  <2>2. srv.tls = "plain" => Mode(srv.cfg) = "dev"
    BY <2>1 DEF MayServe, ValidateForServe, BuildServerTLS
  <2>3. Mode(srv.cfg) = "enclave" =>
          srv.tls = "mtls" /\ srv.kek = NoProc /\ srv.cfg.egress /\ ~srv.cfg.overrides
    BY <2>1 DEF MayServe, ValidateForServe, validateNoGCPEndpointOverrides, BuildServerTLS
  <2>4. Mode(srv.cfg) = "enclave" => Listen(srv.cfg) \in {"interface", "zero"}
    BY <2>1, ConfigsAssumption DEF MayServe, ValidateForServe, validateEnclaveListen
  <2>5. srv.cfg.clientCA /\ srv.tls # "plain" => srv.tls = "mtls"
    BY <2>1 DEF BuildServerTLS
  <2> QED
    BY <2>2, <2>3, <2>4, <2>5 DEF ServesAsDeclared
<1> QED
  BY <1>1, <1>2, BootStep, TypeInvHolds, PTL DEF Spec
=============================================================================
