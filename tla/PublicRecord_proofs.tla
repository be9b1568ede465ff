------------------------- MODULE PublicRecord_proofs -------------------------
(***************************************************************************)
(* Proofs about PublicRecord for any staff, slices, contents and layouts,  *)
(* and every interleaving and failure the properties allow.                *)
(***************************************************************************)
EXTENDS PublicRecord, TLAPS

-----------------------------------------------------------------------------
(* Type correctness.                                                       *)

\* A row there is has bytes.
RowOK(row) == row \in Doc /\ (row.class # "absent" => row.content \in Contents)

FrameOK(f) ==
  /\ f \in Call
  /\ f.pc \notin {"idle", "config"} => f.s \in Slices
  /\ f.pc \in {"stamp", "log"} => f.op \in {"publish", "keep", "unpublish"}
  /\ f.pc = "class" => f.op \in {"publish", "unpublish"}

SyncOK(r) ==
  /\ r \in Sync
  /\ \A s \in Slices : RowOK(r.listing[s])
  /\ r.pc = "upsert" => /\ r.s \in Slices
                        /\ RowOK(r.payload) /\ r.payload.class # "absent"

RowsOK == doc \in [Slices -> Doc] /\ \A s \in Slices : RowOK(doc[s])

FilesOK == /\ ledger \in [Slices -> {"none", "published", "kept_internal", "unpublished"}]
           /\ hold \in [Slices -> {"none", "auto", "human"}]
           /\ reviewSet \in SUBSET Slices
           /\ open \in BOOLEAN

GhostsOK == /\ vouched \in SUBSET Slices
            /\ consented \in [Datasets -> SUBSET Shapes]
            /\ lifted \in SUBSET Slices

CallsOK == call \in [Staff -> Call] /\ \A a \in Staff : FrameOK(call[a])

TypeInv == /\ RowsOK /\ FilesOK /\ GhostsOK /\ CallsOK /\ SyncOK(sync)
           /\ attested \in Attestations
           /\ offer \in [Slices -> Contents \cup {"absent"}]
           /\ env \in Environment

\* A call that stamps, classifies or logs is about a row there is.
Present == \A a \in Staff :
  call[a].pc \in {"stamp", "class", "log"} => Exists(call[a].s)

LEMMA AbsentOK == RowOK(Absent) /\ Absent \in Doc /\ Absent.class = "absent"
BY DEF RowOK, Absent, Doc

LEMMA NoAttestationOK == NoAttestation \in Attestations
BY DEF NoAttestation, Attestations

LEMMA IdleOK == FrameOK(Idle) /\ Idle.pc = "idle" /\ Idle.config = NoAttestation
BY NoAttestationOK DEF FrameOK, Idle, Call

LEMMA NoSyncOK ==
  /\ SyncOK(NoSync) /\ NoSync.pc = "idle" /\ NoSync.config = NoAttestation
  /\ \A s \in Slices : NoSync.listing[s] = Absent
<1>1. NoSync \in Sync BY NoAttestationOK, AbsentOK DEF NoSync, Sync
<1>2. /\ NoSync.pc = "idle" /\ NoSync.config = NoAttestation
      /\ \A s \in Slices : NoSync.listing[s] = Absent
  BY DEF NoSync
<1> QED BY <1>1, <1>2, AbsentOK DEF SyncOK

\* A call moves on,
LEMMA FrameStep ==
  ASSUME TypeInv, NEW a \in Staff, NEW f, FrameOK(f), call' = [call EXCEPT ![a] = f]
  PROVE  CallsOK'
<1>1. call \in [Staff -> Call] /\ \A b \in Staff : FrameOK(call[b])
  BY DEF TypeInv, CallsOK
<1>2. f \in Call BY DEF FrameOK
<1>3. call' \in [Staff -> Call] /\ \A b \in Staff : FrameOK(call'[b])
  BY <1>1, <1>2
<1> QED BY <1>3 DEF CallsOK

\* ends, or starts.
LEMMA FrameEnds ==
  ASSUME TypeInv, NEW a \in Staff, Finish(a)
  PROVE  CallsOK'
BY FrameStep, IdleOK DEF Finish

LEMMA FrameStarts ==
  ASSUME TypeInv, NEW a \in Staff,
         NEW op \in {"publish", "keep", "unpublish", "attest", "revoke", "attach"},
         NEW pc \in {"stamp", "config", "link"}, NEW s \in Slices \cup {0},
         NEW config \in Attestations, Start(a, op, pc, s, config),
         pc # "config" => s \in Slices,
         pc = "stamp" => op \in {"publish", "keep", "unpublish"}
  PROVE  CallsOK' /\ env' \in Environment
<1>1. FrameOK([op |-> op, pc |-> pc, s |-> s, config |-> config])
  BY DEF FrameOK, Call
<1>2. CallsOK' BY <1>1, FrameStep DEF Start
<1>3. env' \in Environment BY DEF Start, TypeInv, Environment
<1> QED BY <1>2, <1>3

\* The steps of the sync.
SyncSteps == \/ SyncStart \/ SyncList \/ SyncUpsert \/ SyncSliceFails
             \/ SyncEnd \/ SyncAborts
             \/ \E s \in Slices : SyncSkip(s) \/ SyncFetch(s)

LEMMA PayloadOK ==
  ASSUME TypeInv, NEW s \in Slices, offer[s] # "absent"
  PROVE  /\ RowOK(Payload(s, offer[s])) /\ Payload(s, offer[s]).class # "absent"
         /\ Payload(s, offer[s]) \in Doc
         /\ Payload(s, offer[s]).content = offer[s]
         /\ sync.listing[s].class # "absent" =>
              /\ Payload(s, offer[s]).class = sync.listing[s].class
              /\ Payload(s, offer[s]).decision = sync.listing[s].decision
         /\ sync.listing[s].class = "absent" =>
              /\ Payload(s, offer[s]).class = Verdict(Live(DatasetOf[s]), offer[s])
              /\ Payload(s, offer[s]).decision =
                   IF Verdict(Live(DatasetOf[s]), offer[s]) = "public"
                   THEN "published" ELSE "none"
<1>1. sync.listing[s] \in Doc /\ offer[s] \in Contents
  BY DEF TypeInv, SyncOK, Sync, RowOK
<1>2. Verdict(Live(DatasetOf[s]), offer[s]) \in {"internal", "public"} BY DEF Verdict
<1>3. CASE sync.listing[s].class # "absent"
  BY <1>1, <1>3 DEF Payload, Doc, RowOK
<1>4. CASE sync.listing[s].class = "absent"
  BY <1>1, <1>2, <1>4 DEF Payload, Doc, RowOK
<1> QED BY <1>3, <1>4

LEMMA SyncTyped ==
  ASSUME TypeInv, SyncSteps
  PROVE  TypeInv'
<1> USE RecordAssumption
<1>0. /\ sync \in Sync /\ \A s \in Slices : RowOK(sync.listing[s])
      /\ attested \in Attestations /\ env \in Environment
      /\ doc \in [Slices -> Doc] /\ \A s \in Slices : RowOK(doc[s])
      /\ offer \in [Slices -> Contents \cup {"absent"}]
      /\ consented \in [Datasets -> SUBSET Shapes]
  BY DEF TypeInv, SyncOK, RowsOK, GhostsOK
<1>1. CASE SyncStart
  <2> DEFINE r == [[NoSync EXCEPT !.pc = "list"] EXCEPT !.config = attested]
  <2>1. r \in Sync BY <1>0, NoSyncOK DEF SyncOK, Sync
  <2>2. r.pc = "list" /\ \A s \in Slices : r.listing[s] = Absent BY DEF NoSync
  <2>3. sync' = r BY <1>1 DEF SyncStart, NoSync
  <2> HIDE DEF r
  <2>4. SyncOK(sync') BY <2>1, <2>2, <2>3, AbsentOK DEF SyncOK
  <2>5. env' \in Environment BY <1>0, <1>1 DEF SyncStart, Environment
  <2> QED BY <1>1, <2>4, <2>5
          DEF TypeInv, SyncStart, RowsOK, FilesOK, GhostsOK, CallsOK, files, ghosts
<1>2. CASE SyncList
  <2> DEFINE r == [[[sync EXCEPT !.pc = "loop"] EXCEPT !.listing = doc] EXCEPT !.todo = Slices]
  <2>1. r \in Sync /\ r.pc = "loop" /\ r.listing = doc BY <1>0 DEF Sync
  <2>2. sync' = r BY <1>0, <1>2 DEF SyncList, Sync
  <2> HIDE DEF r
  <2>3. SyncOK(sync') BY <2>1, <2>2, <1>0 DEF SyncOK
  <2> QED BY <1>2, <2>3
          DEF TypeInv, SyncList, RowsOK, FilesOK, GhostsOK, CallsOK, files, ghosts
<1>3. ASSUME NEW s \in Slices, SyncSkip(s) PROVE TypeInv'
  <2> DEFINE r == [sync EXCEPT !.todo = sync.todo \ {s}]
  <2>1. r \in Sync /\ r.pc = "loop" /\ r.listing = sync.listing
    BY <1>0, <1>3 DEF Sync, SyncSkip
  <2>2. sync' = r BY <1>0, <1>3 DEF SyncSkip
  <2> HIDE DEF r
  <2>3. SyncOK(sync') BY <2>1, <2>2, <1>0 DEF SyncOK
  <2> QED BY <1>3, <2>3
          DEF TypeInv, SyncSkip, RowsOK, FilesOK, GhostsOK, CallsOK, files, ghosts
<1>4. ASSUME NEW s \in Slices, SyncFetch(s) PROVE TypeInv'
  <2>1. PICK p : p = Payload(s, offer[s]) OBVIOUS
  <2>2. RowOK(p) /\ p.class # "absent" /\ p \in Doc
    BY <1>4, <2>1, PayloadOK DEF SyncFetch
  <2>3. PICK D \in SUBSET Datasets :
          sync' = [sync EXCEPT !.pc = "upsert", !.s = s, !.todo = sync.todo \ {s},
                               !.payload = p, !.drifted = D]
    <3>1. sync.drifted \in SUBSET Datasets /\ DatasetOf[s] \in Datasets
      BY <1>0 DEF Sync
    <3>2. sync' = [sync EXCEPT !.pc = "upsert", !.s = s, !.todo = sync.todo \ {s},
                               !.payload = p,
                               !.drifted = IF Drifted(Live(DatasetOf[s]), offer[s])
                                           THEN sync.drifted \cup {DatasetOf[s]}
                                           ELSE sync.drifted]
      BY <1>0, <1>4, <2>1 DEF SyncFetch, Sync
    <3> QED BY <3>1, <3>2
  <2>4. /\ sync' \in Sync /\ sync'.listing = sync.listing /\ sync'.s = s
        /\ sync'.payload = p
    BY <1>0, <2>2, <2>3 DEF Sync
  <2>5. SyncOK(sync') BY <1>0, <2>2, <2>4 DEF SyncOK
  <2> QED BY <1>4, <2>5
          DEF TypeInv, SyncFetch, RowsOK, FilesOK, GhostsOK, CallsOK, files, ghosts
<1>5. CASE SyncUpsert \/ SyncSliceFails
  <2>0. /\ sync.pc = "upsert" /\ sync.s \in Slices
        /\ RowOK(sync.payload) /\ sync.payload \in Doc
    BY <1>5 DEF TypeInv, SyncOK, SyncUpsert, SyncSliceFails, RowOK
  <2>1. sync' = [sync EXCEPT !.pc = "loop"] BY <1>5 DEF SyncUpsert, SyncSliceFails
  <2>2. sync' \in Sync /\ sync'.pc = "loop" /\ sync'.listing = sync.listing
    BY <1>0, <2>1 DEF Sync
  <2>3. SyncOK(sync') BY <2>2, <1>0 DEF SyncOK
  <2>4. RowsOK'
    <3>1. CASE SyncUpsert BY <3>1, <1>0, <2>0 DEF SyncUpsert, RowsOK
    <3>2. CASE SyncSliceFails BY <3>2, <1>0 DEF SyncSliceFails, RowsOK
    <3> QED BY <1>5, <3>1, <3>2
  <2>5. GhostsOK'
    BY <1>5, <2>0 DEF SyncUpsert, SyncSliceFails, TypeInv, GhostsOK, ghosts
  <2> QED BY <1>5, <2>3, <2>4, <2>5
          DEF TypeInv, SyncUpsert, SyncSliceFails, FilesOK, CallsOK, files
<1>6. CASE SyncEnd \/ SyncAborts
  <2>1. attested' \in Attestations
    <3>1. [d \in Datasets |-> Live(d)] \in Attestations
      BY <1>0 DEF Live, Attestations, Sync
    <3> QED BY <1>6, <3>1, <1>0 DEF SyncEnd, SyncAborts
  <2>2. SyncOK(sync') BY <1>6, NoSyncOK DEF SyncEnd, SyncAborts
  <2> QED BY <1>6, <2>1, <2>2
          DEF TypeInv, SyncEnd, SyncAborts, RowsOK, FilesOK, GhostsOK, CallsOK, files, ghosts
<1> QED BY <1>1, <1>2, <1>3, <1>4, <1>5, <1>6 DEF SyncSteps

\* The calls of one person.
LEMMA DecidingTyped ==
  ASSUME TypeInv, Present, NEW a \in Staff, Deciding(a)
  PROVE  TypeInv'
<1>0. /\ call \in [Staff -> Call] /\ FrameOK(call[a])
      /\ doc \in [Slices -> Doc] /\ \A s \in Slices : RowOK(doc[s])
      /\ ledger \in [Slices -> {"none", "published", "kept_internal", "unpublished"}]
  BY DEF TypeInv, CallsOK, RowsOK, FilesOK
<1>1. ASSUME NEW s \in Slices, Publish(a, s) \/ KeepInternal(a, s) \/ Unpublish(a, s)
      PROVE  TypeInv'
  <2>1. PICK op \in {"publish", "keep", "unpublish"} : Start(a, op, "stamp", s, NoAttestation)
    BY <1>1 DEF Publish, KeepInternal, Unpublish
  <2>2. CallsOK' /\ env' \in Environment BY <2>1, NoAttestationOK, FrameStarts
  <2>3. GhostsOK'
    BY <1>1 DEF TypeInv, GhostsOK, Publish, KeepInternal, Unpublish, ghosts
  <2> QED BY <1>1, <2>2, <2>3
          DEF TypeInv, Publish, KeepInternal, Unpublish, RowsOK, FilesOK, files
<1>2. ASSUME NEW pc \in {"log", "class"}, GoTo(a, pc), call[a].pc \in {"stamp", "class"},
             pc = "class" => call[a].op \in {"publish", "unpublish"}
      PROVE  CallsOK'
  <2>1. call' = [call EXCEPT ![a] = [call[a] EXCEPT !.pc = pc]]
    BY <1>0, <1>2 DEF GoTo
  <2>2. FrameOK([call[a] EXCEPT !.pc = pc]) BY <1>0, <1>2 DEF FrameOK, Call
  <2> QED BY <2>1, <2>2, FrameStep
<1>3. CASE Stamp(a)
  <2>1. call[a].pc = "stamp" /\ call[a].op \in {"publish", "keep", "unpublish"}
    BY <1>0, <1>3 DEF Stamp, FrameOK
  <2>2. CallsOK' BY <2>1, <1>2, <1>3 DEF Stamp
  <2>3. RowsOK'
    <3>1. StampOf[call[a].op] \in {"none", "internal", "published"} BY <2>1 DEF StampOf
    <3>2. \A s \in Slices : RowOK([doc[s] EXCEPT !.decision = StampOf[call[a].op]])
      BY <1>0, <3>1 DEF RowOK, Doc
    <3>3. \A s \in Slices : [doc[s] EXCEPT !.decision = StampOf[call[a].op]] \in Doc
      BY <3>2 DEF RowOK
    <3>4. doc' = [doc EXCEPT ![call[a].s] = [doc[call[a].s] EXCEPT !.decision = StampOf[call[a].op]]]
      BY <1>0, <1>3 DEF Stamp
    <3> QED BY <1>0, <3>2, <3>3, <3>4 DEF RowsOK
  <2> QED BY <1>3, <2>2, <2>3 DEF TypeInv, Stamp, FilesOK, GhostsOK, files, ghosts
<1>4. CASE Classify(a)
  <2>1. call[a].pc = "class" /\ call[a].op \in {"publish", "unpublish"} /\ call[a].s \in Slices
    BY <1>0, <1>4 DEF Classify, FrameOK
  <2>2. CallsOK' BY <2>1, <1>2, <1>4 DEF Classify
  <2>3. RowsOK'
    <3>0. PICK class \in {"internal", "public"} : class = ClassOf[call[a].op]
      BY <2>1 DEF ClassOf
    <3>1. doc' = [doc EXCEPT ![call[a].s] = [doc[call[a].s] EXCEPT !.class = class]]
      BY <1>0, <1>4, <3>0 DEF Classify
    <3>2. doc[call[a].s].content \in Contents
      BY <1>0, <2>1 DEF RowOK, Present, Exists
    <3>3. RowOK([doc[call[a].s] EXCEPT !.class = class])
      BY <1>0, <2>1, <3>2 DEF RowOK, Doc
    <3>4. [doc[call[a].s] EXCEPT !.class = class] \in Doc BY <3>3 DEF RowOK
    <3> QED BY <1>0, <3>1, <3>3, <3>4 DEF RowsOK
  <2> QED BY <1>4, <2>2, <2>3 DEF TypeInv, Classify, FilesOK, GhostsOK, files, ghosts
<1>5. CASE Log(a)
  <2>1. CallsOK' BY <1>5, FrameEnds DEF Log
  <2>2. call[a].op \in {"publish", "keep", "unpublish"} BY <1>0, <1>5 DEF Log, FrameOK
  <2>3. RecordOf[call[a].op] \in {"published", "kept_internal", "unpublished"}
    BY <2>2 DEF RecordOf
  <2>4. ledger' \in [Slices -> {"none", "published", "kept_internal", "unpublished"}]
    BY <1>0, <1>5, <2>3 DEF Log
  <2> QED BY <1>5, <2>1, <2>4 DEF TypeInv, Log, RowsOK, FilesOK, GhostsOK, files, ghosts
<1> QED BY <1>1, <1>3, <1>4, <1>5 DEF Deciding

LEMMA AttestingTyped ==
  ASSUME TypeInv, NEW a \in Staff, Attesting(a) \/ CallAborts(a)
  PROVE  TypeInv'
<1> USE RecordAssumption
<1>0. /\ call \in [Staff -> Call] /\ FrameOK(call[a]) /\ attested \in Attestations
      /\ \A s \in Slices : RowOK(doc[s]) /\ consented \in [Datasets -> SUBSET Shapes]
  BY DEF TypeInv, CallsOK, RowsOK, GhostsOK
<1>1. ASSUME NEW op \in {"attest", "revoke"}, NEW config \in Attestations,
             Start(a, op, "config", 0, config)
      PROVE  CallsOK' /\ env' \in Environment
  BY <1>1, FrameStarts
<1>2. ASSUME NEW d \in Datasets, Attest(a, d) PROVE TypeInv'
  <2>1. PICK s \in Held(d) :
          /\ Start(a, "attest", "config", 0,
                   [attested EXCEPT ![d] = ShapeOf[doc[s].content]])
          /\ consented' = [consented EXCEPT
                             ![d] = consented[d] \cup {ShapeOf[doc[s].content]}]
          /\ UNCHANGED <<doc, files, attested, offer, sync, vouched, lifted>>
    BY <1>2, <1>0 DEF Attest
  <2>2. ShapeOf[doc[s].content] \in Shapes
    BY <1>0, <2>1 DEF Held, Exists, RowOK
  <2>3. [attested EXCEPT ![d] = ShapeOf[doc[s].content]] \in Attestations
    BY <1>0, <2>2 DEF Attestations
  <2>4. CallsOK' /\ env' \in Environment BY <2>1, <2>3, <1>1
  <2>5. GhostsOK' BY <1>0, <2>1, <2>2 DEF TypeInv, GhostsOK
  <2> QED BY <2>1, <2>4, <2>5 DEF TypeInv, RowsOK, FilesOK, files
<1>3. ASSUME NEW d \in Datasets, Revoke(a, d) PROVE TypeInv'
  <2>1. [attested EXCEPT ![d] = "none"] \in Attestations BY <1>0 DEF Attestations
  <2>2. CallsOK' /\ env' \in Environment BY <1>3, <2>1, <1>1 DEF Revoke
  <2> QED BY <1>3, <2>2 DEF TypeInv, Revoke, RowsOK, FilesOK, GhostsOK, files, ghosts
<1>4. CASE Configure(a)
  <2>1. CallsOK' BY <1>4, FrameEnds DEF Configure
  <2>2. attested' \in Attestations BY <1>0, <1>4 DEF Configure, FrameOK, Call
  <2> QED BY <1>4, <2>1, <2>2 DEF TypeInv, Configure, RowsOK, FilesOK, GhostsOK, files, ghosts
<1>5. CASE CallAborts(a)
  <2>1. CallsOK' BY <1>5, FrameEnds DEF CallAborts
  <2> QED BY <1>5, <2>1 DEF TypeInv, CallAborts, RowsOK, FilesOK, GhostsOK, files, ghosts
<1> QED BY <1>2, <1>3, <1>4, <1>5 DEF Attesting

LEMMA AttachingTyped ==
  ASSUME TypeInv, NEW a \in Staff, Attaching(a)
  PROVE  TypeInv'
<1>0. /\ call \in [Staff -> Call] /\ FrameOK(call[a])
      /\ hold \in [Slices -> {"none", "auto", "human"}]
  BY DEF TypeInv, CallsOK, FilesOK
<1>1. ASSUME NEW s \in Slices, Attach(a, s) PROVE TypeInv'
  <2>1. CallsOK' /\ env' \in Environment
    BY <1>1, NoAttestationOK, FrameStarts DEF Attach
  <2> QED BY <1>1, <2>1 DEF TypeInv, Attach, RowsOK, FilesOK, GhostsOK, files, ghosts
<1>2. ASSUME NEW pc \in {"look", "hold"}, GoTo(a, pc), call[a].pc \in {"link", "look"}
      PROVE  CallsOK'
  <2>1. call' = [call EXCEPT ![a] = [call[a] EXCEPT !.pc = pc]]
    BY <1>0, <1>2 DEF GoTo
  <2>2. FrameOK([call[a] EXCEPT !.pc = pc]) BY <1>0, <1>2 DEF FrameOK, Call
  <2> QED BY <2>1, <2>2, FrameStep
<1>3. CASE Link(a)
  <2>1. CallsOK' BY <1>2, <1>3 DEF Link
  <2>2. reviewSet' \in SUBSET Slices BY <1>0, <1>3 DEF TypeInv, FilesOK, Link, FrameOK
  <2> QED BY <1>3, <2>1, <2>2 DEF TypeInv, Link, RowsOK, FilesOK, GhostsOK, ghosts
<1>4. CASE Look(a)
  <2>1. CallsOK' BY <1>2, <1>4, FrameEnds DEF Look
  <2> QED BY <1>4, <2>1 DEF TypeInv, Look, RowsOK, FilesOK, GhostsOK, files, ghosts
<1>5. CASE HoldIt(a)
  <2>1. CallsOK' BY <1>5, FrameEnds DEF HoldIt
  <2>2. hold' \in [Slices -> {"none", "auto", "human"}] BY <1>0, <1>5 DEF HoldIt
  <2> QED BY <1>5, <2>1, <2>2 DEF TypeInv, HoldIt, RowsOK, FilesOK, GhostsOK, ghosts
<1> QED BY <1>1, <1>3, <1>4, <1>5 DEF Attaching

LEMMA OthersTyped ==
  ASSUME TypeInv,
         \/ Close
         \/ \E s \in Slices : SourceChanges(s) \/ \E on \in BOOLEAN : SetLegalHold(s, on)
  PROVE  TypeInv'
<1>1. CASE Close
  <2>1. env' \in Environment BY <1>1 DEF Close, TypeInv, Environment
  <2> QED BY <1>1, <2>1 DEF TypeInv, Close, RowsOK, FilesOK, GhostsOK, CallsOK, ghosts
<1>2. ASSUME NEW s \in Slices, SourceChanges(s) PROVE TypeInv'
  <2>1. env' \in Environment BY <1>2 DEF SourceChanges, TypeInv, Environment
  <2>2. offer' \in [Slices -> Contents \cup {"absent"}]
    BY <1>2 DEF SourceChanges, TypeInv
  <2> QED BY <1>2, <2>1, <2>2
          DEF TypeInv, SourceChanges, RowsOK, FilesOK, GhostsOK, CallsOK, files, ghosts
<1>3. ASSUME NEW s \in Slices, NEW on \in BOOLEAN, SetLegalHold(s, on) PROVE TypeInv'
  <2>1. env' \in Environment BY <1>3 DEF SetLegalHold, TypeInv, Environment
  <2>2. hold' \in [Slices -> {"none", "auto", "human"}] /\ lifted' \in SUBSET Slices
    BY <1>3 DEF SetLegalHold, TypeInv, FilesOK, GhostsOK
  <2> QED BY <1>3, <2>1, <2>2
          DEF TypeInv, SetLegalHold, RowsOK, FilesOK, GhostsOK, CallsOK
<1> QED BY <1>1, <1>2, <1>3

LEMMA TypeStep == TypeInv /\ Present /\ [Next]_vars => TypeInv'
<1> SUFFICES ASSUME TypeInv, Present, [Next]_vars PROVE TypeInv' OBVIOUS
<1>1. CASE Syncing BY <1>1, SyncTyped DEF Syncing, SyncSteps
<1>2. ASSUME NEW a \in Staff, Deciding(a) PROVE TypeInv' BY <1>2, DecidingTyped
<1>3. ASSUME NEW a \in Staff, Attesting(a) \/ CallAborts(a) PROVE TypeInv'
  BY <1>3, AttestingTyped
<1>4. ASSUME NEW a \in Staff, Attaching(a) PROVE TypeInv' BY <1>4, AttachingTyped
<1>5. CASE UNCHANGED vars
  BY <1>5 DEF vars, files, ghosts, TypeInv, RowsOK, FilesOK, GhostsOK, CallsOK
<1> QED BY <1>1, <1>2, <1>3, <1>4, <1>5, OthersTyped DEF Next

\* A row there is stays; its visibility is changed by two writes.
LEMMA RowsStay ==
  ASSUME TypeInv, Present, [Next]_vars, NEW s \in Slices, Exists(s)
  PROVE  Exists(s)'
<1>0. /\ doc \in [Slices -> Doc] /\ call \in [Staff -> Call]
      /\ \A a \in Staff : FrameOK(call[a])
  BY DEF TypeInv, RowsOK, CallsOK
<1>1. CASE doc' = doc BY <1>1 DEF Exists
<1>2. CASE SyncUpsert
  BY <1>2, <1>0 DEF SyncUpsert, Exists, TypeInv, SyncOK
<1>3. ASSUME NEW a \in Staff, Stamp(a) PROVE Exists(s)'
  BY <1>3, <1>0 DEF Stamp, Exists, Doc
<1>4. ASSUME NEW a \in Staff, Classify(a) PROVE Exists(s)'
  <2>1. ClassOf[call[a].op] # "absent"
    BY <1>0, <1>4 DEF Classify, FrameOK, ClassOf
  <2> QED BY <2>1, <1>4, <1>0 DEF Classify, Exists, Doc
<1>5. CASE Syncing
  BY <1>5, <1>1, <1>2 DEF Syncing, SyncStart, SyncList, SyncSliceFails, SyncEnd,
                          SyncAborts, SyncSkip, SyncFetch
<1>6. ASSUME NEW a \in Staff, Deciding(a) PROVE Exists(s)'
  BY <1>6, <1>1, <1>3, <1>4 DEF Deciding, Log, Publish, KeepInternal, Unpublish
<1>7. ASSUME NEW a \in Staff, Attesting(a) \/ Attaching(a) \/ CallAborts(a)
      PROVE  Exists(s)'
  BY <1>7, <1>1 DEF Attesting, Attaching, CallAborts, Configure, Attest, Revoke,
                    Link, Look, HoldIt, Attach
<1>8. ASSUME NEW r \in Slices,
             SourceChanges(r) \/ \E on \in BOOLEAN : SetLegalHold(r, on)
      PROVE  Exists(s)'
  BY <1>8, <1>1 DEF SourceChanges, SetLegalHold
<1>9. CASE Close \/ UNCHANGED vars BY <1>9, <1>1 DEF Close, vars
<1> QED BY <1>5, <1>6, <1>7, <1>8, <1>9 DEF Next

\* The calls others are in stay as they are.
LEMMA OneCall ==
  ASSUME TypeInv, NEW a \in Staff,
         Deciding(a) \/ Attesting(a) \/ Attaching(a) \/ CallAborts(a)
  PROVE  /\ \A b \in Staff \ {a} : call'[b] = call[b]
         /\ sync' = sync /\ offer' = offer
<1>0. call \in [Staff -> Call] BY DEF TypeInv, CallsOK
<1>1. CASE Deciding(a)
  BY <1>0, <1>1 DEF Deciding, Stamp, Classify, Log, Publish, KeepInternal, Unpublish,
                    Start, GoTo, Finish
<1>2. CASE Attesting(a) \/ CallAborts(a)
  BY <1>0, <1>2 DEF Attesting, CallAborts, Configure, Attest, Revoke, Start, Finish
<1>3. CASE Attaching(a)
  BY <1>0, <1>3 DEF Attaching, Link, Look, HoldIt, Attach, Start, GoTo, Finish
<1> QED BY <1>1, <1>2, <1>3

LEMMA PresentStep == TypeInv /\ Present /\ [Next]_vars => Present'
<1> SUFFICES ASSUME TypeInv, Present, [Next]_vars PROVE Present' OBVIOUS
<1>0. call \in [Staff -> Call] /\ \A a \in Staff : FrameOK(call[a])
  BY DEF TypeInv, CallsOK
<1>1. CASE call' = call
  <2> SUFFICES ASSUME NEW b \in Staff, call'[b].pc \in {"stamp", "class", "log"}
               PROVE  doc'[call'[b].s].class # "absent"
    BY DEF Present, Exists
  <2>1. PICK s \in Slices : s = call[b].s /\ s = call'[b].s
    BY <1>0, <1>1 DEF FrameOK
  <2>2. Exists(s)' BY <2>1, <1>1, RowsStay DEF Present
  <2> QED BY <2>1, <2>2 DEF Exists
<1>2. ASSUME NEW a \in Staff, Deciding(a) \/ Attesting(a) \/ Attaching(a) \/ CallAborts(a)
      PROVE  Present'
  <2>1. ASSUME NEW s \in Slices, call'[a].s = s, Exists(s) PROVE Present'
    <3> SUFFICES ASSUME NEW b \in Staff, call'[b].pc \in {"stamp", "class", "log"}
                 PROVE  doc'[call'[b].s].class # "absent"
      BY DEF Present, Exists
    <3>1. CASE b = a
      <4>1. Exists(s)' BY <2>1, RowsStay
      <4> QED BY <4>1, <2>1, <3>1 DEF Exists
    <3>2. CASE b # a
      <4>1. call'[b] = call[b] BY <1>2, <3>2, OneCall
      <4>2. PICK r \in Slices : r = call[b].s /\ r = call'[b].s
        BY <1>0, <4>1 DEF FrameOK
      <4>3. Exists(r)' BY <4>1, <4>2, RowsStay DEF Present
      <4> QED BY <4>2, <4>3 DEF Exists
    <3> QED BY <3>1, <3>2
  <2>2. ASSUME call'[a].pc \notin {"stamp", "class", "log"} PROVE Present'
    <3> SUFFICES ASSUME NEW b \in Staff, call'[b].pc \in {"stamp", "class", "log"}
                 PROVE  doc'[call'[b].s].class # "absent"
      BY DEF Present, Exists
    <3>1. call'[b] = call[b] BY <1>2, <2>2, OneCall
    <3>2. PICK r \in Slices : r = call[b].s /\ r = call'[b].s
      BY <1>0, <3>1 DEF FrameOK
    <3>3. Exists(r)' BY <3>1, <3>2, RowsStay DEF Present
    <3> QED BY <3>2, <3>3 DEF Exists
  <2>3. CASE Stamp(a) \/ Classify(a)
    <3>1. call[a].s \in Slices /\ Exists(call[a].s) /\ call'[a].s = call[a].s
      BY <1>0, <2>3 DEF Stamp, Classify, GoTo, FrameOK, Call, Present
    <3> QED BY <3>1, <2>1
  <2>4. ASSUME NEW s \in Slices, Publish(a, s) \/ KeepInternal(a, s) \/ Unpublish(a, s)
        PROVE  Present'
    <3>1. Exists(s) /\ call'[a].s = s
      BY <1>0, <2>4 DEF Publish, KeepInternal, Unpublish, Start, Exists, Public
    <3> QED BY <3>1, <2>1
  <2>5. CASE Log(a) \/ Attesting(a) \/ Attaching(a) \/ CallAborts(a)
    <3>1. call'[a].pc \notin {"stamp", "class", "log"}
      BY <1>0, <2>5, IdleOK
      DEF Log, Attesting, Attaching, CallAborts, Configure, Attest, Revoke, Link, Look,
          HoldIt, Attach, Start, GoTo, Finish, Call
    <3> QED BY <3>1, <2>2
  <2> QED BY <1>2, <2>3, <2>4, <2>5 DEF Deciding
<1>3. CASE Syncing
  BY <1>3, <1>1 DEF Syncing, SyncStart, SyncList, SyncSliceFails, SyncEnd, SyncUpsert,
                    SyncAborts, SyncSkip, SyncFetch
<1>4. ASSUME NEW r \in Slices,
             SourceChanges(r) \/ \E on \in BOOLEAN : SetLegalHold(r, on)
      PROVE  Present'
  BY <1>4, <1>1 DEF SourceChanges, SetLegalHold
<1>5. CASE Close \/ UNCHANGED vars BY <1>5, <1>1 DEF Close, vars
<1> QED BY <1>2, <1>3, <1>4, <1>5 DEF Next

LEMMA TypeInit == Init => TypeInv
<1> SUFFICES ASSUME Init PROVE TypeInv OBVIOUS
<1>1. RowsOK /\ FilesOK /\ GhostsOK BY AbsentOK DEF Init, RowsOK, FilesOK, GhostsOK
<1>2. CallsOK BY IdleOK DEF Init, CallsOK, FrameOK
<1>3. SyncOK(sync) /\ attested \in Attestations
  BY NoSyncOK, NoAttestationOK DEF Init
<1> QED BY <1>1, <1>2, <1>3, RecordAssumption DEF Init, TypeInv

LEMMA Typed == Spec => [](TypeInv /\ Present)
<1>1. Init => Present BY IdleOK DEF Init, Present
<1> QED BY <1>1, TypeInit, TypeStep, PresentStep, PTL DEF Spec

\* TypeOK, for any staff, slices, datasets, contents, layouts and bounds.
THEOREM RecordTypeCorrect == Spec => []TypeOK
<1>1. TypeInv => TypeOK
  BY DEF TypeInv, TypeOK, RowsOK, FilesOK, GhostsOK, CallsOK, SyncOK
<1> QED BY <1>1, Typed, PTL

-----------------------------------------------------------------------------
(* What the public sees.                                                   *)

\* Whoever attested it, every attestation anybody holds was given by a person.
Agreed(config) == \A d \in Datasets : config[d] # "none" => config[d] \in consented[d]
Consents == Agreed(attested) /\ Agreed(sync.config) /\ \A a \in Staff : Agreed(call[a].config)

\* What the sync read as public, and what people are about to publish, is
\* answered for.
Listed == \A s \in Slices : sync.listing[s].class = "public" => s \in vouched
Publishing == \A a \in Staff :
  call[a].pc \in {"stamp", "class"} /\ call[a].op = "publish" => call[a].s \in vouched

\* The rows the sync still takes for new are new: it alone makes rows.
Unlisted == \A s \in sync.todo : sync.listing[s].class = "absent" => ~Exists(s)

\* A row it is about to write as public is answered for, or born of an attestation.
Landing == sync.pc = "upsert" =>
  /\ sync.s \notin sync.todo
  /\ sync.payload.class = "public" =>
       \/ sync.s \in vouched
       \/ ~Exists(sync.s) /\ Covered(sync.s, sync.payload.content)

Knows == Listed /\ Publishing /\ Unlisted /\ Landing

VouchInv == NothingPublicUnvouched /\ Consents /\ Knows

\* What people answer for and attest only grows.
LEMMA Grow ==
  ASSUME TypeInv, [Next]_vars
  PROVE  vouched \subseteq vouched' /\ \A d \in Datasets : consented[d] \subseteq consented'[d]
<1>0. consented \in [Datasets -> SUBSET Shapes] BY DEF TypeInv, GhostsOK
<1>1. CASE Syncing
  BY <1>1 DEF Syncing, SyncStart, SyncList, SyncUpsert, SyncSliceFails, SyncEnd,
              SyncAborts, SyncSkip, SyncFetch, ghosts
<1>2. ASSUME NEW a \in Staff, Deciding(a) \/ CallAborts(a)
      PROVE  vouched \subseteq vouched' /\ consented' = consented
  BY <1>2 DEF Deciding, CallAborts, Stamp, Classify, Log, Publish, KeepInternal,
              Unpublish, ghosts
<1>3. ASSUME NEW a \in Staff, Attesting(a)
      PROVE  vouched' = vouched /\ \A d \in Datasets : consented[d] \subseteq consented'[d]
  <2>1. ASSUME NEW e \in Datasets, Attest(a, e)
        PROVE  vouched' = vouched /\ \A d \in Datasets : consented[d] \subseteq consented'[d]
    BY <2>1, <1>0 DEF Attest
  <2> QED BY <1>3, <2>1 DEF Attesting, Configure, Revoke, ghosts
<1>4. ASSUME NEW a \in Staff, Attaching(a)
      PROVE  vouched' = vouched /\ consented' = consented
  BY <1>4 DEF Attaching, Link, Look, HoldIt, Attach, ghosts
<1>5. CASE Close \/ \E s \in Slices : \/ SourceChanges(s)
                                      \/ \E on \in BOOLEAN : SetLegalHold(s, on)
  BY <1>5 DEF Close, SourceChanges, SetLegalHold, ghosts
<1>6. CASE UNCHANGED vars BY <1>6 DEF vars, ghosts
<1> QED BY <1>1, <1>2, <1>3, <1>4, <1>5, <1>6 DEF Next

LEMMA ConsentsStep == TypeInv /\ Consents /\ [Next]_vars => Consents'
<1> SUFFICES ASSUME TypeInv, Consents, [Next]_vars PROVE Consents' OBVIOUS
<1> DEFINE Given(config) == \A d \in Datasets : config[d] # "none" => config[d] \in consented'[d]
<1>0. /\ call \in [Staff -> Call] /\ sync \in Sync /\ attested \in Attestations
      /\ consented \in [Datasets -> SUBSET Shapes]
  BY DEF TypeInv, CallsOK, SyncOK, GhostsOK
<1>1. \A config : Agreed(config) => Given(config) BY Grow DEF Agreed
<1>2. Given(attested) /\ Given(sync.config) /\ \A a \in Staff : Given(call[a].config)
  BY <1>1 DEF Consents
<1>3. Given(NoAttestation) BY DEF NoAttestation
<1>4. ASSUME Given(attested'), Given(sync'.config), \A a \in Staff : Given(call'[a].config)
      PROVE  Consents'
  BY <1>4 DEF Consents, Agreed
<1> HIDE DEF Given
<1>5. CASE Syncing
  <2>1. call' = call
    BY <1>5 DEF Syncing, SyncStart, SyncList, SyncUpsert, SyncSliceFails, SyncEnd,
                SyncAborts, SyncSkip, SyncFetch
  <2>2. CASE SyncEnd
    <3>1. Given([d \in Datasets |-> Live(d)]) BY <1>2 DEF Live, Given
    <3>2. sync'.config = NoAttestation BY <2>2, NoSyncOK DEF SyncEnd
    <3>3. Given(attested') BY <2>2, <3>1, <1>2 DEF SyncEnd
    <3> QED BY <2>1, <3>2, <3>3, <1>2, <1>3, <1>4
  <2>3. CASE ~SyncEnd
    <3>1. attested' = attested
      BY <1>5, <2>3 DEF Syncing, SyncStart, SyncList, SyncUpsert, SyncSliceFails,
                        SyncAborts, SyncSkip, SyncFetch
    <3>2. sync'.config \in {attested, sync.config, NoAttestation}
      BY <1>5, <2>3, <1>0, NoSyncOK
      DEF Syncing, SyncStart, SyncList, SyncUpsert, SyncSliceFails, SyncAborts, SyncSkip,
          SyncFetch, Sync, NoSync
    <3> QED BY <2>1, <3>1, <3>2, <1>2, <1>3, <1>4
  <2> QED BY <2>2, <2>3
<1>6. ASSUME NEW a \in Staff, Deciding(a) \/ Attesting(a) \/ Attaching(a) \/ CallAborts(a),
             Given(attested'), Given(call'[a].config)
      PROVE  Consents'
  <2>1. sync' = sync /\ \A b \in Staff : Given(call'[b].config) BY <1>2, <1>6, OneCall
  <2> QED BY <2>1, <1>2, <1>4, <1>6
<1>7. ASSUME NEW a \in Staff, Deciding(a) \/ Attaching(a) \/ CallAborts(a) PROVE Consents'
  <2>1. attested' = attested /\ call'[a].config \in {call[a].config, NoAttestation}
    BY <1>7, <1>0, IdleOK
    DEF Deciding, Attaching, CallAborts, Stamp, Classify, Log, Publish, KeepInternal,
        Unpublish, Link, Look, HoldIt, Attach, Start, GoTo, Finish, Call
  <2> QED BY <2>1, <1>2, <1>3, <1>6, <1>7
<1>8. ASSUME NEW a \in Staff, NEW d \in Datasets, Attest(a, d) PROVE Consents'
  <2>1. PICK s \in Held(d) :
          /\ Start(a, "attest", "config", 0,
                   [attested EXCEPT ![d] = ShapeOf[doc[s].content]])
          /\ consented' = [consented EXCEPT
                             ![d] = consented[d] \cup {ShapeOf[doc[s].content]}]
          /\ UNCHANGED <<doc, files, attested, offer, sync, vouched, lifted>>
    BY <1>8, <1>0 DEF Attest
  <2>2. call'[a].config = [attested EXCEPT ![d] = ShapeOf[doc[s].content]]
    BY <2>1, <1>0 DEF Start
  <2>3. Given(call'[a].config) BY <2>1, <2>2, <1>0, <1>2 DEF Given, Attestations
  <2> QED BY <2>1, <2>3, <1>2, <1>6, <1>8 DEF Attesting
<1>9. ASSUME NEW a \in Staff, NEW d \in Datasets, Revoke(a, d) PROVE Consents'
  <2>1. call'[a].config = [attested EXCEPT ![d] = "none"] /\ attested' = attested
    BY <1>9, <1>0 DEF Revoke, Start
  <2>2. Given(call'[a].config) BY <2>1, <1>0, <1>2 DEF Given, Attestations
  <2> QED BY <2>1, <2>2, <1>2, <1>6, <1>9 DEF Attesting
<1>10. ASSUME NEW a \in Staff, Configure(a) PROVE Consents'
  <2>1. call'[a].config = NoAttestation /\ attested' = call[a].config
    BY <1>10, <1>0, IdleOK DEF Configure, Finish
  <2> QED BY <2>1, <1>2, <1>3, <1>6, <1>10 DEF Attesting
<1>11. CASE Close \/ \E s \in Slices : \/ SourceChanges(s)
                                       \/ \E on \in BOOLEAN : SetLegalHold(s, on)
  BY <1>11, <1>2, <1>4 DEF Close, SourceChanges, SetLegalHold
<1>12. CASE UNCHANGED vars BY <1>12, <1>2, <1>4 DEF vars
<1> QED BY <1>5, <1>7, <1>8, <1>9, <1>10, <1>11, <1>12 DEF Next, Attesting

\* Rows are written in three places, and made in one.
LEMMA DocSteps ==
  ASSUME [Next]_vars
  PROVE  doc' = doc \/ SyncUpsert \/ \E a \in Staff : Stamp(a) \/ Classify(a)
<1>1. CASE Syncing
  BY <1>1 DEF Syncing, SyncStart, SyncList, SyncSliceFails, SyncEnd, SyncAborts,
              SyncSkip, SyncFetch
<1>2. ASSUME NEW a \in Staff, Deciding(a) \/ Attesting(a) \/ Attaching(a) \/ CallAborts(a)
      PROVE  doc' = doc \/ Stamp(a) \/ Classify(a)
  BY <1>2 DEF Deciding, Log, Publish, KeepInternal, Unpublish, Attesting, Attaching,
              CallAborts, Configure, Attest, Revoke, Link, Look, HoldIt, Attach
<1>3. CASE Close \/ \E s \in Slices : \/ SourceChanges(s)
                                      \/ \E on \in BOOLEAN : SetLegalHold(s, on)
  BY <1>3 DEF Close, SourceChanges, SetLegalHold
<1>4. CASE UNCHANGED vars BY <1>4 DEF vars
<1> QED BY <1>1, <1>2, <1>3, <1>4 DEF Next

LEMMA NoNewRows ==
  ASSUME TypeInv, Present, [Next]_vars, NEW s \in Slices, ~Exists(s),
         SyncUpsert => s # sync.s
  PROVE  ~Exists(s)'
<1>0. doc \in [Slices -> Doc] BY DEF TypeInv, RowsOK
<1>1. CASE doc' = doc BY <1>1 DEF Exists
<1>2. CASE SyncUpsert BY <1>0, <1>2 DEF SyncUpsert, Exists
<1>3. ASSUME NEW a \in Staff, Stamp(a) \/ Classify(a) PROVE ~Exists(s)'
  <2>1. Exists(call[a].s) BY <1>3 DEF Present, Stamp, Classify
  <2>2. s # call[a].s BY <2>1
  <2> QED BY <1>0, <1>3, <2>2 DEF Stamp, Classify, Exists
<1> QED BY <1>1, <1>2, <1>3, DocSteps

LEMMA PublicStep ==
  TypeInv /\ VouchInv /\ [Next]_vars => NothingPublicUnvouched'
<1> SUFFICES ASSUME TypeInv, VouchInv, [Next]_vars, NEW s \in Slices, doc'[s].class = "public"
             PROVE  s \in vouched'
  BY DEF NothingPublicUnvouched, Public
<1>0. doc \in [Slices -> Doc] /\ \A a \in Staff : FrameOK(call[a])
  BY DEF TypeInv, RowsOK, CallsOK
<1>1. ASSUME doc'[s].class = doc[s].class PROVE s \in vouched'
  BY <1>1, Grow DEF VouchInv, NothingPublicUnvouched, Public
<1>2. CASE SyncUpsert
  <2>1. CASE s = sync.s
    <3>1. sync.payload.class = "public" BY <1>0, <1>2, <2>1 DEF SyncUpsert
    <3> QED BY <3>1, <1>2, <2>1 DEF SyncUpsert, VouchInv, Knows, Landing
  <2>2. CASE s # sync.s BY <1>0, <1>1, <1>2, <2>2 DEF SyncUpsert
  <2> QED BY <2>1, <2>2
<1>3. ASSUME NEW a \in Staff, Stamp(a) PROVE s \in vouched'
  BY <1>0, <1>1, <1>3 DEF Stamp, Doc
<1>4. ASSUME NEW a \in Staff, Classify(a) PROVE s \in vouched'
  <2>1. CASE s = call[a].s
    <3>1. ClassOf[call[a].op] = "public" BY <1>0, <1>4, <2>1 DEF Classify, Doc
    <3>2. call[a].op = "publish" BY <3>1, <1>0, <1>4 DEF Classify, FrameOK, ClassOf
    <3>3. s \in vouched BY <3>2, <1>4, <2>1 DEF Classify, VouchInv, Knows, Publishing
    <3> QED BY <3>3, Grow
  <2>2. CASE s # call[a].s BY <1>0, <1>1, <1>4, <2>2 DEF Classify
  <2> QED BY <2>1, <2>2
<1> QED BY <1>1, <1>2, <1>3, <1>4, DocSteps

\* Steps outside the sync leave what it knows true.
LEMMA KnowsKept ==
  ASSUME TypeInv, Present, VouchInv, [Next]_vars, sync' = sync, ~SyncUpsert
  PROVE  Listed' /\ Unlisted' /\ Landing'
<1>0. sync \in Sync /\ (sync.pc = "upsert" => sync.s \in Slices) BY DEF TypeInv, SyncOK
<1>1. Listed' BY Grow DEF VouchInv, Knows, Listed
<1>2. Unlisted'
  <2> SUFFICES ASSUME NEW s \in sync.todo, sync.listing[s].class = "absent"
               PROVE  doc'[s].class # "absent" => FALSE
    BY DEF Unlisted, Exists
  <2>1. s \in Slices /\ ~Exists(s) BY <1>0 DEF Sync, VouchInv, Knows, Unlisted
  <2>2. ~Exists(s)' BY <2>1, NoNewRows
  <2> QED BY <2>2 DEF Exists
<1>3. Landing'
  <2> SUFFICES ASSUME sync.pc = "upsert"
               PROVE  /\ sync.s \notin sync.todo
                      /\ sync.payload.class = "public" =>
                           \/ sync.s \in vouched'
                           \/ /\ doc'[sync.s].class = "absent"
                              /\ sync.payload.content \notin Leaky
                              /\ ShapeOf[sync.payload.content]
                                   \in consented'[DatasetOf[sync.s]]
    BY DEF Landing, Exists, Covered
  <2>1. sync.s \notin sync.todo BY DEF VouchInv, Knows, Landing
  <2>2. ASSUME ~Exists(sync.s) PROVE doc'[sync.s].class = "absent"
    <3>1. PICK s \in Slices : s = sync.s BY <1>0
    <3>2. ~Exists(s)' BY <3>1, <2>2, NoNewRows
    <3> QED BY <3>1, <3>2 DEF Exists
  <2>3. DatasetOf[sync.s] \in Datasets BY <1>0, RecordAssumption
  <2> QED BY <2>1, <2>2, <2>3, Grow DEF VouchInv, Knows, Landing, Covered
<1> QED BY <1>1, <1>2, <1>3

LEMMA PublishingStep == TypeInv /\ VouchInv /\ [Next]_vars => Publishing'
<1> SUFFICES ASSUME TypeInv, VouchInv, [Next]_vars PROVE Publishing' OBVIOUS
<1>0. call \in [Staff -> Call] /\ Publishing BY DEF TypeInv, CallsOK, VouchInv, Knows
<1>1. CASE call' = call BY <1>0, <1>1, Grow DEF Publishing
<1>2. ASSUME NEW a \in Staff, Deciding(a) \/ Attesting(a) \/ Attaching(a) \/ CallAborts(a),
             /\ call'[a].pc \in {"stamp", "class"} /\ call'[a].op = "publish"
             => call'[a].s \in vouched'
      PROVE  Publishing'
  <2> SUFFICES ASSUME NEW b \in Staff, call'[b].pc \in {"stamp", "class"},
                      call'[b].op = "publish"
               PROVE  call'[b].s \in vouched'
    BY DEF Publishing
  <2>1. CASE b = a BY <1>2, <2>1
  <2>2. CASE b # a
    <3>1. call'[b] = call[b] BY <1>2, <2>2, OneCall
    <3> QED BY <3>1, <1>0, Grow DEF Publishing
  <2> QED BY <2>1, <2>2
<1>3. ASSUME NEW a \in Staff, Stamp(a) \/ Classify(a) PROVE Publishing'
  <2>1. /\ call[a].pc \in {"stamp", "class"}
        /\ call'[a].op = call[a].op /\ call'[a].s = call[a].s
    BY <1>0, <1>3 DEF Stamp, Classify, GoTo, Call
  <2>2. call'[a].pc \in {"stamp", "class"} /\ call'[a].op = "publish" => call'[a].s \in vouched'
    BY <2>1, <1>0, Grow DEF Publishing
  <2> QED BY <2>2, <1>2, <1>3 DEF Deciding
<1>4. ASSUME NEW a \in Staff, NEW s \in Slices,
             Publish(a, s) \/ KeepInternal(a, s) \/ Unpublish(a, s)
      PROVE  Publishing'
  <2>1. call'[a].pc \in {"stamp", "class"} /\ call'[a].op = "publish" => call'[a].s \in vouched'
    BY <1>0, <1>4 DEF Publish, KeepInternal, Unpublish, Start
  <2> QED BY <2>1, <1>2, <1>4 DEF Deciding
<1>5. ASSUME NEW a \in Staff, Log(a) \/ Attesting(a) \/ Attaching(a) \/ CallAborts(a)
      PROVE  Publishing'
  <2>1. call'[a].pc \notin {"stamp", "class"}
    BY <1>0, <1>5, IdleOK
    DEF Log, Attesting, Attaching, CallAborts, Configure, Attest, Revoke, Link, Look,
        HoldIt, Attach, Start, GoTo, Finish, Call
  <2> QED BY <2>1, <1>2, <1>5 DEF Deciding
<1>6. CASE Syncing
  BY <1>6, <1>1 DEF Syncing, SyncStart, SyncList, SyncSliceFails, SyncEnd, SyncUpsert,
                    SyncAborts, SyncSkip, SyncFetch
<1>7. CASE Close \/ UNCHANGED vars \/ \E s \in Slices :
             SourceChanges(s) \/ \E on \in BOOLEAN : SetLegalHold(s, on)
  BY <1>7, <1>1 DEF Close, SourceChanges, SetLegalHold, vars
<1> QED BY <1>3, <1>4, <1>5, <1>6, <1>7 DEF Next, Deciding

\* The steps of the sync.
LEMMA KnowsSync ==
  ASSUME TypeInv, Present, VouchInv, [Next]_vars, Syncing
  PROVE  Listed' /\ Unlisted' /\ Landing'
<1> USE RecordAssumption
<1>0. /\ sync \in Sync /\ (sync.pc = "upsert" => sync.s \in Slices)
      /\ doc \in [Slices -> Doc] /\ vouched \subseteq vouched'
      /\ Listed /\ Unlisted /\ Landing
  BY Grow DEF TypeInv, SyncOK, RowsOK, VouchInv, Knows
<1>1. CASE SyncStart \/ SyncEnd \/ SyncAborts
  <2>1. /\ sync'.pc \in {"idle", "list"} /\ sync'.todo = {}
        /\ sync'.listing = [s \in Slices |-> Absent]
    <3>1. CASE SyncStart BY <3>1 DEF SyncStart, NoSync
    <3>2. CASE SyncEnd BY <3>2 DEF SyncEnd, NoSync
    <3>3. CASE SyncAborts BY <3>3 DEF SyncAborts, NoSync
    <3> QED BY <1>1, <3>1, <3>2, <3>3
  <2>2. \A s \in Slices : sync'.listing[s].class = "absent" BY <2>1, AbsentOK
  <2> QED BY <2>1, <2>2 DEF Listed, Unlisted, Landing
<1>2. CASE SyncList
  <2>1. sync'.pc = "loop" /\ sync'.listing = doc /\ doc' = doc /\ sync'.todo = Slices
    BY <1>0, <1>2 DEF SyncList, Sync
  <2> QED BY <1>0, <2>1
          DEF Listed, Unlisted, Landing, Exists, VouchInv, NothingPublicUnvouched, Public
<1>3. ASSUME NEW s \in Slices, SyncSkip(s) PROVE Listed' /\ Unlisted' /\ Landing'
  <2>1. /\ sync'.pc = "loop" /\ sync'.listing = sync.listing
        /\ sync'.todo = sync.todo \ {s} /\ doc' = doc
    BY <1>0, <1>3 DEF SyncSkip, Sync
  <2> QED BY <1>0, <2>1 DEF Listed, Unlisted, Landing, Exists
<1>4. ASSUME NEW s \in Slices, SyncFetch(s) PROVE Listed' /\ Unlisted' /\ Landing'
  <2>1. PICK p : p = Payload(s, offer[s]) OBVIOUS
  <2>2. /\ sync'.pc = "upsert" /\ sync'.listing = sync.listing /\ sync'.s = s
        /\ sync'.payload = p /\ sync'.todo = sync.todo \ {s}
        /\ doc' = doc /\ vouched' = vouched /\ consented' = consented
    BY <1>0, <1>4, <2>1 DEF SyncFetch, Sync, ghosts
  <2>3. Listed' /\ Unlisted' BY <1>0, <2>2 DEF Listed, Unlisted, Exists
  <2>4. ASSUME p.class = "public", sync.listing[s].class = "absent"
        PROVE  doc[s].class = "absent" /\ Covered(s, p.content)
    <3>1. doc[s].class = "absent" BY <1>0, <1>4, <2>4 DEF SyncFetch, Unlisted, Exists
    <3>2. /\ Verdict(Live(DatasetOf[s]), offer[s]) = "public"
          /\ p.content = offer[s]
      BY <1>4, <2>1, <2>4, PayloadOK DEF SyncFetch
    <3>3. /\ offer[s] \notin Leaky /\ Live(DatasetOf[s]) # "none"
          /\ Live(DatasetOf[s]) = ShapeOf[offer[s]]
      BY <3>2 DEF Verdict, Drifted
    <3>4. Live(DatasetOf[s]) \in consented[DatasetOf[s]]
      BY <3>3 DEF Live, VouchInv, Consents, Agreed
    <3> QED BY <3>1, <3>2, <3>3, <3>4 DEF Covered
  <2>5. ASSUME p.class = "public", sync.listing[s].class # "absent" PROVE s \in vouched
    <3>1. p.class = sync.listing[s].class BY <1>4, <2>1, <2>5, PayloadOK DEF SyncFetch
    <3> QED BY <1>0, <2>5, <3>1 DEF Listed
  <2>6. Landing' BY <2>2, <2>4, <2>5 DEF Landing, Exists, Covered
  <2> QED BY <2>3, <2>6
<1>5. CASE SyncUpsert \/ SyncSliceFails
  <2>1. /\ sync'.pc = "loop" /\ sync'.listing = sync.listing /\ sync'.todo = sync.todo
        /\ sync.s \notin sync.todo
    BY <1>0, <1>5 DEF SyncUpsert, SyncSliceFails, Sync, Landing
  <2>2. \A s \in sync.todo : doc'[s] = doc[s]
    BY <1>0, <1>5, <2>1 DEF SyncUpsert, SyncSliceFails, Sync
  <2> QED BY <1>0, <2>1, <2>2 DEF Listed, Unlisted, Landing, Exists
<1> QED BY <1>1, <1>2, <1>3, <1>4, <1>5 DEF Syncing

LEMMA KnowsStep ==
  TypeInv /\ Present /\ VouchInv /\ [Next]_vars => Knows'
<1> SUFFICES ASSUME TypeInv, Present, VouchInv, [Next]_vars PROVE Knows' OBVIOUS
<1>0. Publishing' BY PublishingStep
<1>1. CASE Syncing BY <1>0, <1>1, KnowsSync DEF Knows
<1>2. CASE sync' = sync
  <2>1. ~SyncUpsert BY <1>2 DEF SyncUpsert, TypeInv, SyncOK, Sync
  <2> QED BY <1>0, <1>2, <2>1, KnowsKept DEF Knows
<1>3. ASSUME NEW a \in Staff, Deciding(a) \/ Attesting(a) \/ Attaching(a) \/ CallAborts(a)
      PROVE  Knows'
  BY <1>2, <1>3, OneCall
<1>4. CASE Close \/ UNCHANGED vars \/ \E s \in Slices :
             SourceChanges(s) \/ \E on \in BOOLEAN : SetLegalHold(s, on)
  BY <1>2, <1>4 DEF Close, SourceChanges, SetLegalHold, vars
<1> QED BY <1>1, <1>3, <1>4 DEF Next

LEMMA VouchInit == Init => VouchInv
<1> SUFFICES ASSUME Init PROVE VouchInv OBVIOUS
<1>1. NothingPublicUnvouched
  BY AbsentOK DEF Init, NothingPublicUnvouched, Public
<1>2. Consents
  BY IdleOK, NoSyncOK DEF Init, Consents, Agreed, NoAttestation
<1>3. Knows
  BY IdleOK, NoSyncOK, AbsentOK
  DEF Init, Knows, Listed, Publishing, Unlisted, Landing, NoSync
<1> QED BY <1>1, <1>2, <1>3 DEF VouchInv

\* NothingPublicUnvouched, for every interleaving and failure: the sync's stale
\* listing and stale attestations included, nothing is public that no named
\* human answers for.
THEOREM PublicMeansVouched == Spec => []NothingPublicUnvouched
<1>1. TypeInv /\ Present /\ VouchInv /\ [Next]_vars => VouchInv'
  BY PublicStep, ConsentsStep, KnowsStep DEF VouchInv
<1>2. VouchInv => NothingPublicUnvouched BY DEF VouchInv
<1> QED BY <1>1, <1>2, VouchInit, Typed, PTL DEF Spec

-----------------------------------------------------------------------------
(* One call at a time.                                                     *)

Alone ==
  /\ sync.pc # "idle" => \A a \in Staff : call[a].pc = "idle"
  /\ \A a, b \in Staff : call[a].pc # "idle" /\ call[b].pc # "idle" => a = b

Marks(row) == <<row.class, row.decision>>

\* What the sync knows of the rows it has still to write is what they are.
Current ==
  /\ sync.pc \in {"idle", "list"} => sync.todo = {}
  /\ \A s \in sync.todo : Marks(sync.listing[s]) = Marks(doc[s])
  /\ sync.pc = "upsert" =>
       /\ sync.s \notin sync.todo
       /\ Exists(sync.s) => Marks(sync.payload) = Marks(doc[sync.s])
       /\ ~Exists(sync.s) => sync.payload.decision =
            IF sync.payload.class = "public" THEN "published" ELSE "none"

Unreviewed == \A a \in Staff :
  call[a].pc \in {"stamp", "class"} /\ call[a].op = "publish" => call[a].s \notin reviewSet

SerialInv == Serial => Alone /\ Current /\ Unreviewed

\* What a behaviour may meet does not change in it.
LEMMA SameEnv ==
  ASSUME TypeInv, [Next]_vars
  PROVE  env'.overlap = env.overlap /\ env'.fail = env.fail
<1>0. env \in Environment BY DEF TypeInv
<1>1. CASE Syncing
  BY <1>0, <1>1 DEF Syncing, SyncStart, SyncList, SyncUpsert, SyncSliceFails, SyncEnd,
                    SyncAborts, SyncSkip, SyncFetch, Environment
<1>2. ASSUME NEW a \in Staff, Deciding(a) \/ CallAborts(a)
      PROVE  env'.overlap = env.overlap /\ env'.fail = env.fail
  BY <1>0, <1>2 DEF Deciding, CallAborts, Stamp, Classify, Log, Publish, KeepInternal,
                    Unpublish, Start, Environment
<1>3. ASSUME NEW a \in Staff, Attesting(a) \/ Attaching(a)
      PROVE  env'.overlap = env.overlap /\ env'.fail = env.fail
  BY <1>0, <1>3 DEF Attesting, Attaching, Configure, Attest, Revoke, Link, Look, HoldIt,
                    Attach, Start, Environment
<1>4. CASE Close \/ \E s \in Slices : \/ SourceChanges(s)
                                      \/ \E on \in BOOLEAN : SetLegalHold(s, on)
  BY <1>0, <1>4 DEF Close, SourceChanges, SetLegalHold, Environment
<1>5. CASE UNCHANGED vars BY <1>5 DEF vars
<1> QED BY <1>1, <1>2, <1>3, <1>4, <1>5 DEF Next

\* A call that is one of two at work started in overlapping circumstances.
LEMMA BusyOrQuiet ==
  ASSUME Serial, NEW a \in Staff,
         Deciding(a) \/ Attesting(a) \/ Attaching(a) \/ CallAborts(a)
  PROVE  call[a].pc # "idle" \/ Quiet
<1>1. CASE Deciding(a)
  BY <1>1 DEF Deciding, Stamp, Classify, Log, Publish, KeepInternal, Unpublish, Start,
              Serial
<1>2. CASE Attesting(a) \/ CallAborts(a)
  BY <1>2 DEF Attesting, CallAborts, Configure, Attest, Revoke, Start, Serial
<1>3. CASE Attaching(a)
  BY <1>3 DEF Attaching, Link, Look, HoldIt, Attach, Start, Serial
<1> QED BY <1>1, <1>2, <1>3

LEMMA AloneStep ==
  ASSUME TypeInv, Serial, Alone, [Next]_vars
  PROVE  Alone'
<1>1. ASSUME NEW a \in Staff, Deciding(a) \/ Attesting(a) \/ Attaching(a) \/ CallAborts(a)
      PROVE  Alone'
  <2>1. /\ sync.pc = "idle" /\ sync' = sync
        /\ \A b \in Staff \ {a} : call[b].pc = "idle" /\ call'[b] = call[b]
    BY <1>1, BusyOrQuiet, OneCall DEF Alone, Quiet
  <2> QED BY <2>1 DEF Alone
<1>2. CASE Syncing
  <2>1. \A a \in Staff : call[a].pc = "idle"
    BY <1>2 DEF Alone, Serial, Syncing, Quiet, SyncStart, SyncList, SyncUpsert,
                SyncSliceFails, SyncEnd, SyncAborts, SyncSkip, SyncFetch
  <2>2. call' = call
    BY <1>2 DEF Syncing, SyncStart, SyncList, SyncUpsert, SyncSliceFails, SyncEnd,
                SyncAborts, SyncSkip, SyncFetch
  <2> QED BY <2>1, <2>2 DEF Alone
<1>3. CASE Close \/ UNCHANGED vars \/ \E s \in Slices :
             SourceChanges(s) \/ \E on \in BOOLEAN : SetLegalHold(s, on)
  BY <1>3 DEF Alone, Close, SourceChanges, SetLegalHold, vars
<1> QED BY <1>1, <1>2, <1>3 DEF Next

\* A person's call meets a sync that is not running.
LEMMA NoSyncMet ==
  ASSUME TypeInv, Serial, Alone, Current, NEW a \in Staff,
         Deciding(a) \/ Attesting(a) \/ Attaching(a) \/ CallAborts(a)
  PROVE  sync' = sync /\ sync.pc = "idle" /\ sync.todo = {}
BY BusyOrQuiet, OneCall DEF Alone, Quiet, Current

LEMMA CurrentStep ==
  ASSUME TypeInv, Serial, Alone, Current, [Next]_vars
  PROVE  Current'
<1>0. /\ sync \in Sync /\ (sync.pc = "upsert" => sync.s \in Slices)
      /\ doc \in [Slices -> Doc]
  BY DEF TypeInv, SyncOK, RowsOK
<1>1. ASSUME NEW a \in Staff, Deciding(a) \/ Attesting(a) \/ Attaching(a) \/ CallAborts(a)
      PROVE  Current'
  BY <1>1, NoSyncMet DEF Current
<1>2. CASE Close \/ UNCHANGED vars \/ \E s \in Slices :
             SourceChanges(s) \/ \E on \in BOOLEAN : SetLegalHold(s, on)
  <2>1. sync' = sync /\ doc' = doc
    BY <1>2 DEF Close, SourceChanges, SetLegalHold, vars
  <2> QED BY <2>1 DEF Current, Exists
<1>3. CASE SyncStart \/ SyncEnd \/ SyncAborts
  <2>1. sync'.pc \in {"idle", "list"} /\ sync'.todo = {}
    <3>1. CASE SyncStart BY <3>1 DEF SyncStart, NoSync
    <3>2. CASE SyncEnd BY <3>2 DEF SyncEnd, NoSync
    <3>3. CASE SyncAborts BY <3>3 DEF SyncAborts, NoSync
    <3> QED BY <1>3, <3>1, <3>2, <3>3
  <2> QED BY <2>1 DEF Current
<1>4. CASE SyncList
  <2>1. sync'.pc = "loop" /\ sync'.listing = doc /\ doc' = doc
    BY <1>0, <1>4 DEF SyncList, Sync
  <2> QED BY <2>1 DEF Current
<1>5. ASSUME NEW s \in Slices, SyncSkip(s) PROVE Current'
  <2>1. /\ sync'.pc = "loop" /\ sync'.listing = sync.listing
        /\ sync'.todo = sync.todo \ {s} /\ doc' = doc
    BY <1>0, <1>5 DEF SyncSkip, Sync
  <2> QED BY <2>1 DEF Current
<1>6. ASSUME NEW s \in Slices, SyncFetch(s) PROVE Current'
  <2>1. PICK p : p = Payload(s, offer[s]) OBVIOUS
  <2>2. /\ sync'.pc = "upsert" /\ sync'.listing = sync.listing /\ sync'.s = s
        /\ sync'.payload = p /\ sync'.todo = sync.todo \ {s} /\ doc' = doc
    BY <1>0, <1>6, <2>1 DEF SyncFetch, Sync
  <2>3. offer[s] # "absent" /\ Marks(sync.listing[s]) = Marks(doc[s])
    BY <1>6 DEF SyncFetch, Current
  <2>4. doc[s].class # "absent" => Marks(p) = Marks(doc[s])
    BY <2>1, <2>3, PayloadOK DEF Marks
  <2>5. doc[s].class = "absent" =>
          p.decision = IF p.class = "public" THEN "published" ELSE "none"
    BY <2>1, <2>3, PayloadOK DEF Marks
  <2> QED BY <2>2, <2>4, <2>5 DEF Current, Exists
<1>7. CASE SyncUpsert \/ SyncSliceFails
  <2>1. /\ sync'.pc = "loop" /\ sync'.listing = sync.listing /\ sync'.todo = sync.todo
        /\ sync.s \notin sync.todo
    BY <1>0, <1>7 DEF SyncUpsert, SyncSliceFails, Sync, Current
  <2>2. \A s \in sync.todo : doc'[s] = doc[s]
    BY <1>0, <1>7, <2>1 DEF SyncUpsert, SyncSliceFails, Sync
  <2> QED BY <2>1, <2>2 DEF Current
<1> QED BY <1>1, <1>2, <1>3, <1>4, <1>5, <1>6, <1>7 DEF Next, Syncing

LEMMA UnreviewedStep ==
  ASSUME TypeInv, Serial, Alone, Unreviewed, [Next]_vars
  PROVE  Unreviewed'
<1>0. call \in [Staff -> Call] BY DEF TypeInv, CallsOK
<1>1. CASE call' = call /\ reviewSet' = reviewSet BY <1>1 DEF Unreviewed
<1>2. ASSUME NEW a \in Staff, Deciding(a) \/ Attesting(a) \/ Attaching(a) \/ CallAborts(a),
             /\ call'[a].pc \in {"stamp", "class"} /\ call'[a].op = "publish"
             => call'[a].s \notin reviewSet'
      PROVE  Unreviewed'
  <2>1. \A b \in Staff \ {a} : call'[b].pc = "idle"
    BY <1>2, BusyOrQuiet, OneCall DEF Alone, Quiet
  <2> QED BY <1>2, <2>1 DEF Unreviewed
<1>3. ASSUME NEW a \in Staff, Stamp(a) \/ Classify(a) PROVE Unreviewed'
  <2>1. /\ call[a].pc \in {"stamp", "class"} /\ reviewSet' = reviewSet
        /\ call'[a].op = call[a].op /\ call'[a].s = call[a].s
    BY <1>0, <1>3 DEF Stamp, Classify, GoTo, Call, files
  <2> QED BY <2>1, <1>2, <1>3 DEF Unreviewed, Deciding
<1>4. ASSUME NEW a \in Staff, NEW s \in Slices,
             Publish(a, s) \/ KeepInternal(a, s) \/ Unpublish(a, s)
      PROVE  Unreviewed'
  <2>1. /\ call'[a].pc \in {"stamp", "class"} /\ call'[a].op = "publish"
        => call'[a].s \notin reviewSet'
    BY <1>0, <1>4 DEF Publish, KeepInternal, Unpublish, Start, files
  <2> QED BY <2>1, <1>2, <1>4 DEF Deciding
<1>5. ASSUME NEW a \in Staff, Log(a) \/ Attesting(a) \/ Attaching(a) \/ CallAborts(a)
      PROVE  Unreviewed'
  <2>1. call'[a].pc \notin {"stamp", "class"}
    BY <1>0, <1>5, IdleOK
    DEF Log, Attesting, Attaching, CallAborts, Configure, Attest, Revoke, Link, Look,
        HoldIt, Attach, Start, GoTo, Finish, Call
  <2> QED BY <2>1, <1>2, <1>5 DEF Deciding
<1>6. CASE Syncing
  BY <1>6, <1>1 DEF Syncing, SyncStart, SyncList, SyncSliceFails, SyncEnd, SyncUpsert,
                    SyncAborts, SyncSkip, SyncFetch, files
<1>7. CASE Close \/ UNCHANGED vars \/ \E s \in Slices :
             SourceChanges(s) \/ \E on \in BOOLEAN : SetLegalHold(s, on)
  BY <1>7, <1>1 DEF Close, SourceChanges, SetLegalHold, vars, files
<1> QED BY <1>3, <1>4, <1>5, <1>6, <1>7 DEF Next, Deciding

LEMMA SerialStep == TypeInv /\ SerialInv /\ [Next]_vars => SerialInv'
<1> SUFFICES ASSUME TypeInv, SerialInv, [Next]_vars, Serial
             PROVE  Alone' /\ Current' /\ Unreviewed'
  BY SameEnv DEF SerialInv, Serial
<1> QED BY AloneStep, CurrentStep, UnreviewedStep DEF SerialInv

LEMMA SerialInit == Init => SerialInv
<1> SUFFICES ASSUME Init PROVE Alone /\ Current /\ Unreviewed BY DEF SerialInv
<1>1. sync.pc = "idle" /\ sync.todo = {} BY DEF Init, NoSync
<1>2. \A a \in Staff : call[a].pc = "idle" BY IdleOK DEF Init
<1> QED BY <1>1, <1>2 DEF Alone, Current, Unreviewed

LEMMA SerialAlways == Spec => []SerialInv
BY SerialInit, SerialStep, Typed, PTL DEF Spec

\* OnlyPeopleReclassify: one call at a time, whatever fails, a document there is
\* changes its visibility in a person's call to publish it, outside any review
\* set, or to take it down.
THEOREM PeopleReclassify == Spec => OnlyPeopleReclassify
<1>1. TypeInv /\ SerialInv /\ [Next]_vars =>
        [Serial => \A s \in Slices : Reclassified(s) =>
           \E a \in Staff :
             /\ call[a].s = s
             /\ call[a].op = IF Public(s) THEN "unpublish" ELSE "publish"
             /\ call[a].op = "publish" => s \notin reviewSet]_doc
  <2> SUFFICES ASSUME TypeInv, SerialInv, [Next]_vars, doc' # doc, Serial,
                      NEW s \in Slices, Reclassified(s)
               PROVE  \E a \in Staff :
                        /\ call[a].s = s
                        /\ call[a].op = IF Public(s) THEN "unpublish" ELSE "publish"
                        /\ call[a].op = "publish" => s \notin reviewSet
    OBVIOUS
  <2>0. /\ doc \in [Slices -> Doc] /\ \A a \in Staff : FrameOK(call[a])
        /\ Current /\ Unreviewed
    BY DEF TypeInv, RowsOK, CallsOK, SerialInv
  <2>1. CASE SyncUpsert
    BY <2>0, <2>1 DEF SyncUpsert, Reclassified, Current, Marks
  <2>2. ASSUME NEW a \in Staff, Stamp(a) PROVE FALSE
    BY <2>0, <2>2 DEF Stamp, Reclassified, Doc
  <2>3. ASSUME NEW a \in Staff, Classify(a)
        PROVE  /\ call[a].s = s
               /\ call[a].op = IF Public(s) THEN "unpublish" ELSE "publish"
               /\ call[a].op = "publish" => s \notin reviewSet
    <3>1. call[a].s = s BY <2>0, <2>3 DEF Classify, Reclassified
    <3>2. /\ doc'[s].class = ClassOf[call[a].op]
          /\ call[a].op \in {"publish", "unpublish"}
      BY <2>0, <2>3, <3>1 DEF Classify, FrameOK, Doc
    <3>3. doc[s].class \in {"internal", "public"} BY <2>0 DEF Reclassified, Exists, Doc
    <3>4. call[a].op = IF Public(s) THEN "unpublish" ELSE "publish"
      BY <3>2, <3>3 DEF Reclassified, Public, ClassOf
    <3>5. call[a].op = "publish" => s \notin reviewSet
      BY <2>0, <2>3, <3>1 DEF Classify, Unreviewed
    <3> QED BY <3>1, <3>4, <3>5
  <2> QED BY <2>1, <2>2, <2>3, DocSteps
<1> QED BY <1>1, Typed, SerialAlways, PTL DEF Spec, OnlyPeopleReclassify

-----------------------------------------------------------------------------
(* One call at a time, and none fails.                                     *)

\* No decision on slice s is under way.
Settled(s) == \A a \in Staff : call[a].pc \in {"stamp", "class", "log"} => call[a].s # s

\* Agrees, of a row and the decision on file.
Fits(row, mark) ==
  /\ mark = "published" => row.class = "public" /\ row.decision = "published"
  /\ mark \in {"kept_internal", "unpublished"} =>
       row.class # "public" /\ row.decision = "internal"
  /\ mark = "none" => row.decision = IF row.class = "public" THEN "published" ELSE "none"

LEMMA AgreesIs ==
  ASSUME TypeInv, NEW s \in Slices
  PROVE  Agrees(s) <=> Fits(doc[s], ledger[s])
<1>1. ledger[s] \in {"none", "published", "kept_internal", "unpublished"}
  BY DEF TypeInv, FilesOK
<1> QED BY <1>1 DEF Agrees, Fits, Public

\* Where each call leaves the document it decides on, step by step.
Deciders == {"stamp", "class", "log"}
UnderIs(f, row, mark) ==
  /\ f.pc = "stamp" => Fits(row, mark) /\ (row.class = "public" <=> f.op = "unpublish")
  /\ f.pc \in {"class", "log"} => row.decision = StampOf[f.op]
  /\ f.pc = "log" => (row.class = "public" <=> f.op = "publish")

AgreeParts ==
  /\ \A s \in Slices : ~Exists(s) => ledger[s] = "none"
  /\ \A s \in Slices : Settled(s) => Fits(doc[s], ledger[s])
  /\ \A a \in Staff : call[a].pc \in Deciders =>
       UnderIs(call[a], doc[call[a].s], ledger[call[a].s])
AgreeInv == Serial /\ Faultless => AgreeParts

\* A step that touches no row, no decision on file and no deciding call.
LEMMA AgreeKept ==
  ASSUME AgreeParts, doc' = doc, ledger' = ledger,
         \A a \in Staff : \/ call'[a] = call[a]
                          \/ call'[a].pc \notin Deciders /\ call[a].pc \notin Deciders
  PROVE  AgreeParts'
<1>1. \A s \in Slices : Settled(s)' => Settled(s) BY DEF Settled, Deciders
<1>2. \A a \in Staff : call'[a].pc \in Deciders => call'[a] = call[a] OBVIOUS
<1>3. \A s \in Slices : Exists(s)' <=> Exists(s) BY DEF Exists
<1>4. \A s \in Slices : doc'[s].class = "absent" => ledger'[s] = "none"
  BY DEF AgreeParts, Exists
<1>5. \A s \in Slices : Settled(s)' => Fits(doc'[s], ledger'[s])
  BY <1>1 DEF AgreeParts
<1>6. \A a \in Staff : call'[a].pc \in Deciders =>
        UnderIs(call'[a], doc'[call'[a].s], ledger'[call'[a].s])
  BY <1>2 DEF AgreeParts
<1> QED BY <1>4, <1>5, <1>6 DEF AgreeParts, Exists

LEMMA AgreeSync ==
  ASSUME TypeInv, Serial, Alone, Current, AgreeParts, SyncUpsert
  PROVE  AgreeParts'
<1>0. /\ doc \in [Slices -> Doc] /\ sync.s \in Slices /\ call' = call /\ ledger' = ledger
      /\ doc' = [doc EXCEPT ![sync.s] = sync.payload] /\ sync.payload.class # "absent"
      /\ sync.pc = "upsert"
  BY DEF TypeInv, RowsOK, SyncOK, SyncUpsert, files
<1>1. \A a \in Staff : call[a].pc = "idle" BY <1>0 DEF Alone
<1>2. \A s \in Slices : Settled(s) BY <1>1 DEF Settled
<1>3. \A s \in Slices \ {sync.s} : doc'[s] = doc[s] BY <1>0
<1>4. doc'[sync.s] = sync.payload BY <1>0
<1>5. Fits(sync.payload, ledger[sync.s])
  <2>1. CASE Exists(sync.s)
    <3>1. Marks(sync.payload) = Marks(doc[sync.s]) BY <1>0, <2>1 DEF Current
    <3>2. Fits(doc[sync.s], ledger[sync.s]) BY <1>0, <1>2 DEF AgreeParts
    <3> QED BY <3>1, <3>2 DEF Fits, Marks
  <2>2. CASE ~Exists(sync.s)
    BY <1>0, <2>2 DEF AgreeParts, Current, Fits
  <2> QED BY <2>1, <2>2
<1>6. \A s \in Slices : Fits(doc'[s], ledger'[s])
  BY <1>0, <1>2, <1>3, <1>4, <1>5 DEF AgreeParts
<1>7. \A s \in Slices : doc'[s].class = "absent" => ledger'[s] = "none"
  BY <1>0, <1>3, <1>4 DEF AgreeParts, Exists
<1>8. \A a \in Staff : call'[a].pc \notin Deciders BY <1>0, <1>1 DEF Deciders
<1> QED BY <1>6, <1>7, <1>8 DEF AgreeParts, Exists

\* A person's decision, with no other call about.
LEMMA AgreeDeciding ==
  ASSUME TypeInv, Present, Serial, Alone, AgreeParts, NEW a \in Staff, Deciding(a)
  PROVE  AgreeParts'
<1>0. /\ doc \in [Slices -> Doc] /\ call \in [Staff -> Call] /\ FrameOK(call[a])
      /\ ledger \in [Slices -> {"none", "published", "kept_internal", "unpublished"}]
  BY DEF TypeInv, RowsOK, CallsOK, FilesOK
<1>1. \A b \in Staff \ {a} : call[b].pc = "idle" /\ call'[b].pc = "idle"
  BY BusyOrQuiet, OneCall DEF Alone, Quiet
<1>2. ASSUME NEW r \in Slices, call'[a].s = r,
             /\ \A s \in Slices : doc'[s].class = "absent" => ledger'[s] = "none"
             /\ \A s \in Slices \ {r} : Fits(doc'[s], ledger'[s])
             /\ call'[a].pc \in Deciders
             /\ UnderIs(call'[a], doc'[r], ledger'[r])
      PROVE  AgreeParts'
  <2>1. \A s \in Slices : Settled(s)' => Fits(doc'[s], ledger'[s])
    BY <1>2 DEF Settled, Deciders
  <2>2. \A b \in Staff : call'[b].pc \in Deciders =>
          UnderIs(call'[b], doc'[call'[b].s], ledger'[call'[b].s])
    BY <1>1, <1>2 DEF Deciders
  <2> QED BY <1>2, <2>1, <2>2 DEF AgreeParts, Exists
<1>3. ASSUME NEW s \in Slices, Publish(a, s) \/ KeepInternal(a, s) \/ Unpublish(a, s)
      PROVE  AgreeParts'
  <2>1. PICK op \in {"publish", "keep", "unpublish"} :
          /\ Start(a, op, "stamp", s, NoAttestation)
          /\ doc[s].class = "public" <=> op = "unpublish"
    BY <1>3 DEF Publish, KeepInternal, Unpublish, Public
  <2>2. doc' = doc /\ ledger' = ledger
    BY <1>3 DEF Publish, KeepInternal, Unpublish, files
  <2>3. call[a].pc = "idle" BY <2>1 DEF Start
  <2>4. \A t \in Slices : Fits(doc[t], ledger[t])
    BY <1>1, <2>3 DEF AgreeParts, Settled
  <2>5. call'[a].pc = "stamp" /\ call'[a].op = op /\ call'[a].s = s
    BY <1>0, <2>1 DEF Start
  <2>6. UnderIs(call'[a], doc'[s], ledger'[s])
    BY <2>1, <2>2, <2>4, <2>5 DEF UnderIs
  <2>7. \A t \in Slices : doc'[t].class = "absent" => ledger'[t] = "none"
    BY <2>2 DEF AgreeParts, Exists
  <2>8. \A t \in Slices \ {s} : Fits(doc'[t], ledger'[t]) BY <2>2, <2>4
  <2> QED BY <1>2, <2>5, <2>6, <2>7, <2>8 DEF Deciders
<1>4. ASSUME call[a].pc \in Deciders
      PROVE  /\ call[a].s \in Slices
             /\ call[a].op \in {"publish", "keep", "unpublish"}
             /\ doc[call[a].s].class # "absent"
             /\ UnderIs(call[a], doc[call[a].s], ledger[call[a].s])
             /\ \A s \in Slices \ {call[a].s} : Fits(doc[s], ledger[s])
  <2>1. \A s \in Slices \ {call[a].s} : Settled(s)
    BY <1>1 DEF Settled
  <2> QED BY <1>0, <1>4, <2>1 DEF AgreeParts, FrameOK, Deciders, Present, Exists
<1>5. CASE Stamp(a)
  <2>1. PICK r \in Slices : r = call[a].s BY <1>4, <1>5 DEF Stamp, Deciders
  <2>2. /\ call[a].pc = "stamp" /\ call[a].op \in {"publish", "keep", "unpublish"}
        /\ doc[r].class # "absent" /\ UnderIs(call[a], doc[r], ledger[r])
        /\ \A s \in Slices \ {r} : Fits(doc[s], ledger[s])
    BY <1>4, <1>5, <2>1 DEF Stamp, Deciders
  <2>3. /\ doc' = [doc EXCEPT ![r] = [doc[r] EXCEPT !.decision = StampOf[call[a].op]]]
        /\ ledger' = ledger
    BY <1>0, <1>5, <2>1 DEF Stamp, files
  <2>4. /\ doc'[r].class = doc[r].class /\ doc'[r].decision = StampOf[call[a].op]
        /\ \A s \in Slices \ {r} : doc'[s] = doc[s]
    BY <1>0, <2>3 DEF Doc
  <2>5. /\ call'[a].op = call[a].op /\ call'[a].s = r
        /\ call'[a].pc = IF call[a].op = "keep" THEN "log" ELSE "class"
    BY <1>0, <1>5, <2>1 DEF Stamp, GoTo, Call
  <2>6. UnderIs(call'[a], doc'[r], ledger'[r])
    BY <2>2, <2>4, <2>5 DEF UnderIs
  <2>7. \A t \in Slices : doc'[t].class = "absent" => ledger'[t] = "none"
    BY <2>2, <2>3, <2>4 DEF AgreeParts, Exists
  <2>8. \A s \in Slices \ {r} : Fits(doc'[s], ledger'[s]) BY <2>2, <2>3, <2>4
  <2> QED BY <1>2, <2>5, <2>6, <2>7, <2>8 DEF Deciders
<1>6. CASE Classify(a)
  <2>1. PICK r \in Slices : r = call[a].s BY <1>4, <1>6 DEF Classify, Deciders
  <2>2. /\ call[a].pc = "class" /\ call[a].op \in {"publish", "unpublish"}
        /\ doc[r].class # "absent" /\ UnderIs(call[a], doc[r], ledger[r])
        /\ \A s \in Slices \ {r} : Fits(doc[s], ledger[s])
    BY <1>0, <1>4, <1>6, <2>1 DEF Classify, Deciders, FrameOK
  <2>3. /\ doc' = [doc EXCEPT ![r] = [doc[r] EXCEPT !.class = ClassOf[call[a].op]]]
        /\ ledger' = ledger
    BY <1>0, <1>6, <2>1 DEF Classify, files
  <2>4. /\ doc'[r].class = ClassOf[call[a].op] /\ doc'[r].decision = doc[r].decision
        /\ \A s \in Slices \ {r} : doc'[s] = doc[s]
    BY <1>0, <2>3 DEF Doc
  <2>5. call'[a].op = call[a].op /\ call'[a].s = r /\ call'[a].pc = "log"
    BY <1>0, <1>6, <2>1 DEF Classify, GoTo, Call
  <2>6. UnderIs(call'[a], doc'[r], ledger'[r])
    BY <2>2, <2>4, <2>5 DEF UnderIs, ClassOf
  <2>7. \A t \in Slices : doc'[t].class = "absent" => ledger'[t] = "none"
    BY <2>2, <2>3, <2>4 DEF AgreeParts, Exists, ClassOf
  <2>8. \A s \in Slices \ {r} : Fits(doc'[s], ledger'[s]) BY <2>2, <2>3, <2>4
  <2> QED BY <1>2, <2>5, <2>6, <2>7, <2>8 DEF Deciders
<1>7. CASE Log(a)
  <2>1. PICK r \in Slices : r = call[a].s BY <1>4, <1>7 DEF Log, Deciders
  <2>2. /\ call[a].pc = "log" /\ call[a].op \in {"publish", "keep", "unpublish"}
        /\ doc[r].class # "absent" /\ UnderIs(call[a], doc[r], ledger[r])
        /\ \A s \in Slices \ {r} : Fits(doc[s], ledger[s])
    BY <1>4, <1>7, <2>1 DEF Log, Deciders
  <2>3. /\ doc' = doc /\ ledger'[r] = RecordOf[call[a].op]
        /\ \A s \in Slices \ {r} : ledger'[s] = ledger[s]
    BY <1>0, <1>7, <2>1 DEF Log
  <2>4. call'[a].pc = "idle" BY <1>0, <1>7, IdleOK DEF Log, Finish
  <2>5. Fits(doc'[r], ledger'[r])
    BY <2>2, <2>3 DEF UnderIs, Fits, StampOf, RecordOf
  <2>6. \A s \in Slices : Fits(doc'[s], ledger'[s]) BY <2>2, <2>3, <2>5
  <2>7. \A t \in Slices : doc'[t].class = "absent" => ledger'[t] = "none"
    BY <2>2, <2>3 DEF AgreeParts, Exists
  <2>8. \A b \in Staff : call'[b].pc \notin Deciders BY <1>1, <2>4 DEF Deciders
  <2> QED BY <2>6, <2>7, <2>8 DEF AgreeParts, Exists
<1> QED BY <1>3, <1>5, <1>6, <1>7 DEF Deciding

LEMMA AgreeStep ==
  ASSUME TypeInv, Present, Serial, Faultless, Alone, Current, AgreeParts, [Next]_vars
  PROVE  AgreeParts'
<1>0. call \in [Staff -> Call] BY DEF TypeInv, CallsOK
<1>1. CASE Syncing
  BY <1>1, AgreeSync, AgreeKept
  DEF Syncing, SyncStart, SyncList, SyncSliceFails, SyncEnd, SyncAborts, SyncSkip,
      SyncFetch, files
<1>2. ASSUME NEW a \in Staff, Deciding(a) PROVE AgreeParts' BY <1>2, AgreeDeciding
<1>3. ASSUME NEW a \in Staff, Attesting(a) \/ Attaching(a) PROVE AgreeParts'
  <2>1. doc' = doc /\ ledger' = ledger
    BY <1>3 DEF Attesting, Attaching, Configure, Attest, Revoke, Link, Look, HoldIt,
                Attach, files
  <2>2. call'[a].pc \notin Deciders /\ call[a].pc \notin Deciders
    BY <1>0, <1>3, IdleOK
    DEF Deciders, Attesting, Attaching, Configure, Attest, Revoke, Link, Look, HoldIt,
        Attach, Start, GoTo, Finish, Call
  <2>3. \A b \in Staff \ {a} : call'[b] = call[b] BY <1>3, OneCall
  <2> QED BY <2>1, <2>2, <2>3, AgreeKept
<1>4. CASE Close \/ UNCHANGED vars \/ \E s \in Slices :
             SourceChanges(s) \/ \E on \in BOOLEAN : SetLegalHold(s, on)
  BY <1>4, AgreeKept DEF Close, SourceChanges, SetLegalHold, vars, files
<1>5. ASSUME NEW a \in Staff, CallAborts(a) PROVE FALSE
  BY <1>5 DEF CallAborts, Faultless
<1> QED BY <1>1, <1>2, <1>3, <1>4, <1>5 DEF Next

\* DecisionsAgree: between calls that neither overlap nor fail, visibility, the
\* cached decision and the decision on file agree, through any number of syncs.
THEOREM DecisionsStand == Spec => []DecisionsAgree
<1>1. Init => AgreeInv
  <2> SUFFICES ASSUME Init PROVE AgreeParts BY DEF AgreeInv
  <2>1. /\ \A s \in Slices : doc[s] = Absent /\ ledger[s] = "none"
        /\ \A a \in Staff : call[a].pc = "idle"
    BY IdleOK DEF Init
  <2>2. Fits(Absent, "none") BY DEF Fits, Absent
  <2> QED BY <2>1, <2>2 DEF AgreeParts, Deciders
<1>2. TypeInv /\ Present /\ SerialInv /\ AgreeInv /\ [Next]_vars => AgreeInv'
  <2> SUFFICES ASSUME TypeInv, Present, SerialInv, AgreeInv, [Next]_vars,
                      Serial, Faultless
               PROVE  AgreeParts'
    BY SameEnv DEF AgreeInv, Serial, Faultless
  <2> QED BY AgreeStep DEF SerialInv, AgreeInv
<1>3. TypeInv /\ AgreeInv => DecisionsAgree
  <2> SUFFICES ASSUME TypeInv, AgreeParts, Quiet, NEW s \in Slices PROVE Agrees(s)
    BY DEF DecisionsAgree, AgreeInv
  <2>1. Settled(s) BY DEF Quiet, Settled
  <2> QED BY <2>1, AgreesIs DEF AgreeParts
<1> QED BY <1>1, <1>2, <1>3, Typed, SerialAlways, PTL DEF Spec

-----------------------------------------------------------------------------
(* The review set.                                                         *)

\* A document being attached is held, or its call is about to see to it.
HeldOrSeenTo(s) == \/ hold[s] # "none" \/ s \in lifted
                   \/ \E a \in Staff : call[a].pc \in {"look", "hold"} /\ call[a].s = s
HeldInv == Faultless /\ open => \A s \in reviewSet : HeldOrSeenTo(s)

\* Holds, links, the request and the attaching calls are changed by these only.
LEMMA HoldSteps ==
  ASSUME TypeInv, [Next]_vars, Faultless
  PROVE  \/ /\ hold' = hold /\ reviewSet' = reviewSet /\ lifted' = lifted
            /\ open' => open
            /\ \A b \in Staff : call[b].pc \in {"look", "hold"} => call'[b] = call[b]
         \/ \E a \in Staff : Link(a) \/ Look(a) \/ HoldIt(a)
         \/ \E s \in Slices, on \in BOOLEAN : SetLegalHold(s, on)
<1>0. call \in [Staff -> Call] BY DEF TypeInv, CallsOK
<1>1. CASE Syncing
  BY <1>1 DEF Syncing, SyncStart, SyncList, SyncUpsert, SyncSliceFails, SyncEnd,
              SyncAborts, SyncSkip, SyncFetch, files, ghosts
<1>2. ASSUME NEW a \in Staff, Deciding(a) \/ Attesting(a) \/ \E s \in Slices : Attach(a, s)
      PROVE  /\ hold' = hold /\ reviewSet' = reviewSet /\ lifted' = lifted
             /\ open' => open
             /\ \A b \in Staff : call[b].pc \in {"look", "hold"} => call'[b] = call[b]
  <2>1. hold' = hold /\ reviewSet' = reviewSet /\ lifted' = lifted /\ open' = open
    BY <1>2 DEF Deciding, Attesting, Stamp, Classify, Log, Publish, KeepInternal,
                Unpublish, Configure, Attest, Revoke, Attach, files, ghosts
  <2>2. call[a].pc \notin {"look", "hold"}
    BY <1>2 DEF Deciding, Attesting, Stamp, Classify, Log, Publish, KeepInternal,
                Unpublish, Configure, Attest, Revoke, Attach, Start
  <2>3. \A b \in Staff \ {a} : call'[b] = call[b]
    BY <1>2, OneCall DEF Attaching
  <2> QED BY <2>1, <2>2, <2>3
<1>3. CASE Close \/ UNCHANGED vars \/ \E s \in Slices : SourceChanges(s)
  BY <1>3 DEF Close, SourceChanges, vars, files, ghosts
<1>4. ASSUME NEW a \in Staff, CallAborts(a) PROVE FALSE
  BY <1>4 DEF CallAborts, Faultless
<1> QED BY <1>1, <1>2, <1>3, <1>4 DEF Next, Attaching

LEMMA HeldStep ==
  ASSUME TypeInv, HeldInv, [Next]_vars
  PROVE  HeldInv'
<1> SUFFICES ASSUME Faultless, open', NEW s \in reviewSet'
             PROVE  \/ hold'[s] # "none" \/ s \in lifted'
                    \/ \E a \in Staff : call'[a].pc \in {"look", "hold"} /\ call'[a].s = s
  BY SameEnv DEF HeldInv, HeldOrSeenTo, Faultless
<1>0. /\ call \in [Staff -> Call] /\ hold \in [Slices -> {"none", "auto", "human"}]
      /\ \A a \in Staff : FrameOK(call[a]) /\ call[a] \in Call
      /\ reviewSet \subseteq Slices
  BY DEF TypeInv, CallsOK, FilesOK
<1>1. ASSUME open, s \in reviewSet PROVE HeldOrSeenTo(s) BY <1>1 DEF HeldInv
<1>2. CASE /\ hold' = hold /\ reviewSet' = reviewSet /\ lifted' = lifted
           /\ open' => open
           /\ \A b \in Staff : call[b].pc \in {"look", "hold"} => call'[b] = call[b]
  BY <1>1, <1>2 DEF HeldOrSeenTo
<1>3. ASSUME NEW a \in Staff, Link(a) \/ Look(a) \/ HoldIt(a)
      PROVE  \/ hold'[s] # "none" \/ s \in lifted'
             \/ \E b \in Staff : call'[b].pc \in {"look", "hold"} /\ call'[b].s = s
  <2>1. /\ open' = open /\ lifted' = lifted
        /\ \A b \in Staff \ {a} : call'[b] = call[b]
    BY <1>3, OneCall DEF Attaching, Link, Look, HoldIt, ghosts, files
  <2>2. CASE Link(a)
    <3>1. /\ reviewSet' = reviewSet \cup {call[a].s} /\ hold' = hold
          /\ call'[a].pc = "look" /\ call'[a].s = call[a].s /\ call[a].pc = "link"
      BY <1>0, <2>2 DEF Link, GoTo, Call
    <3>2. CASE s = call[a].s BY <3>1, <3>2
    <3>3. CASE s # call[a].s
      BY <1>1, <2>1, <3>1, <3>3 DEF HeldOrSeenTo
    <3> QED BY <3>2, <3>3
  <2>3. CASE Look(a)
    <3>1. /\ reviewSet' = reviewSet /\ hold' = hold /\ call[a].pc = "look"
          /\ \/ call'[a].pc = "hold" /\ call'[a].s = call[a].s
             \/ ~open \/ hold[call[a].s] # "none"
      BY <1>0, <2>3 DEF Look, GoTo, Finish, files, Call
    <3>2. CASE s = call[a].s BY <2>1, <3>1, <3>2
    <3>3. CASE s # call[a].s
      BY <1>1, <2>1, <3>1, <3>3 DEF HeldOrSeenTo
    <3> QED BY <3>2, <3>3
  <2>4. CASE HoldIt(a)
    <3>1. /\ reviewSet' = reviewSet /\ hold' = [hold EXCEPT ![call[a].s] = "auto"]
          /\ call[a].pc = "hold" /\ s \in Slices
      BY <1>0, <2>4 DEF HoldIt
    <3>2. CASE s = call[a].s BY <1>0, <3>1, <3>2
    <3>3. CASE s # call[a].s
      BY <1>0, <1>1, <2>1, <3>1, <3>3 DEF HeldOrSeenTo
    <3> QED BY <3>2, <3>3
  <2> QED BY <1>3, <2>2, <2>3, <2>4
<1>4. ASSUME NEW r \in Slices, NEW on \in BOOLEAN, SetLegalHold(r, on)
      PROVE  \/ hold'[s] # "none" \/ s \in lifted'
             \/ \E b \in Staff : call'[b].pc \in {"look", "hold"} /\ call'[b].s = s
  <2>1. /\ open' = open /\ reviewSet' = reviewSet /\ call' = call
        /\ hold' = [hold EXCEPT ![r] = IF on THEN "human" ELSE "none"]
        /\ lifted' = IF on THEN lifted ELSE lifted \cup {r}
    BY <1>4 DEF SetLegalHold
  <2>2. CASE s = r BY <1>0, <2>1, <2>2
  <2>3. CASE s # r BY <1>0, <1>1, <2>1, <2>3 DEF HeldOrSeenTo
  <2> QED BY <2>2, <2>3
<1> QED BY <1>2, <1>3, <1>4, HoldSteps

\* ReviewSetIsHeld: with calls that do not fail, a document in the review set of
\* an open request is held until a person lifts its hold, overlaps included.
THEOREM ReviewHeld == Spec => []ReviewSetIsHeld
<1>1. Init => HeldInv BY DEF Init, HeldInv
<1>2. TypeInv /\ HeldInv /\ [Next]_vars => HeldInv' BY HeldStep
<1>3. HeldInv => ReviewSetIsHeld
  <2> SUFFICES ASSUME HeldInv, Faultless, Quiet, open, NEW s \in reviewSet
               PROVE  hold[s] # "none" \/ s \in lifted
    BY DEF ReviewSetIsHeld
  <2>1. HeldOrSeenTo(s) BY DEF HeldInv
  <2> QED BY <2>1 DEF HeldOrSeenTo, Quiet
<1> QED BY <1>1, <1>2, <1>3, Typed, PTL DEF Spec
=============================================================================
