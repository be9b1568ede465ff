----------------------------- MODULE PublicRecord -----------------------------
(***************************************************************************)
(* The slices of one connected source and who may see them: the sync that  *)
(* lands them (services/connectedSourceService.ts), the people who         *)
(* publish, keep or take them down (services/publicationService.ts), and   *)
(* the review set of one request that holds them against the retention     *)
(* schedule (services/recordsSearchService.ts, retentionService.ts).       *)
(*                                                                         *)
(* The sync works for minutes on what it read when it started: the         *)
(* attestations in the source row and a listing of the documents.  People  *)
(* read a document and write it a call later; every write is an update by  *)
(* id with no condition.  One action is one awaited write, together with   *)
(* the reads before it that nothing depends on in between.                 *)
(*                                                                         *)
(* Left out: a second sync while one is under way, admin events, the       *)
(* dataset row store and its backfill (which writes back the metadata it   *)
(* listed), the sync's status fields, pausing, deleting and registering a  *)
(* source, metadata other than the decision, documents pushed or imported. *)
(***************************************************************************)
EXTENDS Naturals, FiniteSets

CONSTANTS
  Staff,        \* people's calls that may be under way
  Slices,       \* document ids, numbered in the order of their periods
  Datasets,
  DatasetOf,    \* the dataset of each slice
  Contents,     \* what a slice's bytes may be
  Leaky,        \* the contents in which the PII scan finds something
  Shapes,       \* column layouts
  ShapeOf,      \* the layout of each content
  Environments  \* the circumstances a behaviour may start in: one per behaviour

\* How many calls, syncs and changes at the source are still to come (bounds),
\* whether a call may start while another is under way, whether calls fail.
Environment == [calls : Nat, syncs : Nat, changes : Nat,
                overlap : BOOLEAN, fail : BOOLEAN]

ASSUME RecordAssumption ==
  /\ Slices \subseteq Nat
  /\ DatasetOf \in [Slices -> Datasets]
  /\ ShapeOf \in [Contents -> Shapes]
  /\ Leaky \subseteq Contents
  /\ "absent" \notin Contents
  /\ "none" \notin Shapes
  /\ Environments \subseteq Environment

VARIABLES
  doc,        \* the documents rows: classification, cached decision, bytes
  ledger,     \* the latest publication_decisions row of each document
  hold,       \* legal_hold_reason: none, the automatic one, a person's
  reviewSet,  \* the documents linked to the request
  open,       \* whether that request is open
  attested,   \* the attestations in the source row: the layout, per dataset
  offer,      \* what the source holds for each slice
  call,       \* per person: what the call they are in does next
  sync,       \* the sync run: what it read and where it is
  vouched,    \* history: slices a named human answers for
  consented,  \* history: the layouts people attested, per dataset
  lifted,     \* history: slices whose hold a person lifted
  env         \* the circumstances, and what they still allow

ghosts == <<vouched, consented, lifted>>
files  == <<ledger, hold, reviewSet, open>>
vars   == <<doc, files, attested, offer, call, sync, ghosts, env>>

Doc == [class : {"absent", "internal", "public"},
        decision : {"none", "internal", "published"},
        content : Contents \cup {"absent"}]
Absent == [class |-> "absent", decision |-> "none", content |-> "absent"]

Attestations  == [Datasets -> Shapes \cup {"none"}]
NoAttestation == [d \in Datasets |-> "none"]

Call == [op : {"none", "publish", "keep", "unpublish", "attest", "revoke", "attach"},
         pc : {"idle", "stamp", "class", "log", "config", "link", "look", "hold"},
         s : Slices \cup {0}, config : Attestations]
Idle == [op |-> "none", pc |-> "idle", s |-> 0, config |-> NoAttestation]

Sync == [pc : {"idle", "list", "loop", "upsert"},
         config : Attestations, drifted : SUBSET Datasets,
         listing : [Slices -> Doc], todo : SUBSET Slices,
         s : Slices \cup {0}, payload : Doc]
NoSync == [pc |-> "idle", config |-> NoAttestation, drifted |-> {},
           listing |-> [s \in Slices |-> Absent], todo |-> {},
           s |-> 0, payload |-> Absent]

\* A source registered in reviewed mode, nothing pulled yet.
Init ==
  /\ doc = [s \in Slices |-> Absent]
  /\ ledger = [s \in Slices |-> "none"]
  /\ hold = [s \in Slices |-> "none"]
  /\ reviewSet = {}
  /\ open = TRUE
  /\ attested = NoAttestation
  /\ offer \in [Slices -> Contents \cup {"absent"}]
  /\ call = [a \in Staff |-> Idle]
  /\ sync = NoSync
  /\ vouched = {}
  /\ consented = [d \in Datasets |-> {}]
  /\ lifted = {}
  /\ env \in Environments

-----------------------------------------------------------------------------
Quiet     == sync.pc = "idle" /\ \A a \in Staff : call[a].pc = "idle"
Exists(s) == doc[s].class # "absent"
Public(s) == doc[s].class = "public"

GoTo(a, pc) == call' = [call EXCEPT ![a].pc = pc]
Finish(a)   == call' = [call EXCEPT ![a] = Idle]

\* A person's call starts, on slice s or with the source row it will write.
Start(a, op, pc, s, config) ==
  /\ call[a].pc = "idle"
  /\ env.overlap \/ Quiet
  /\ env.calls > 0
  /\ call' = [call EXCEPT ![a] = [op |-> op, pc |-> pc, s |-> s, config |-> config]]
  /\ env' = [env EXCEPT !.calls = @ - 1]

-----------------------------------------------------------------------------
(* syncConnectedSource.                                                    *)

\* getConnectedSource: the attestations of the whole run are read here.
SyncStart ==
  /\ sync.pc = "idle"
  /\ env.overlap \/ Quiet
  /\ env.syncs > 0
  /\ sync' = [NoSync EXCEPT !.pc = "list", !.config = attested]
  /\ env' = [env EXCEPT !.syncs = @ - 1]
  /\ UNCHANGED <<doc, files, attested, offer, call, ghosts>>

\* listDocuments, and the connector's datasets and periods.
SyncList ==
  /\ sync.pc = "list"
  /\ sync' = [sync EXCEPT !.pc = "loop", !.listing = doc, !.todo = Slices]
  /\ UNCHANGED <<doc, files, attested, offer, call, ghosts, env>>

\* Mutant of Drifted: the layout is not compared.
DriftedNever(attestation, content) == FALSE
Drifted(attestation, content) ==
  attestation # "none" /\ content \notin Leaky /\ attestation # ShapeOf[content]

\* classifyNewSlice: born public only clean and in the attested layout.
Verdict(attestation, content) ==
  IF attestation = "none" \/ content \in Leaky \/ Drifted(attestation, content)
  THEN "internal" ELSE "public"

\* liveAttestations: a dataset that drifted in this run has none.
Live(d) == IF d \in sync.drifted THEN "none" ELSE sync.config[d]

\* Mutant of Payload: a refreshed slice that names somebody is taken down.
PayloadDemotes(s, content) ==
  LET class == Verdict(Live(DatasetOf[s]), content)
  IN  IF sync.listing[s].class # "absent"
      THEN [sync.listing[s] EXCEPT
              !.content = content,
              !.class = IF content \in Leaky THEN "internal" ELSE @]
      ELSE [class |-> class, content |-> content,
            decision |-> IF class = "public" THEN "published" ELSE "none"]

\* Mutant of Payload: the decision is not carried forward.
PayloadForgetful(s, content) ==
  LET class == Verdict(Live(DatasetOf[s]), content)
  IN  IF sync.listing[s].class # "absent"
      THEN [sync.listing[s] EXCEPT !.content = content, !.decision = "none"]
      ELSE [class |-> class, content |-> content,
            decision |-> IF class = "public" THEN "published" ELSE "none"]

\* The row the sync will write.  A listed document keeps the classification
\* and decision it was listed with.
Payload(s, content) ==
  LET class == Verdict(Live(DatasetOf[s]), content)
  IN  IF sync.listing[s].class # "absent"
      THEN [sync.listing[s] EXCEPT !.content = content]
      ELSE [class |-> class, content |-> content,
            decision |-> IF class = "public" THEN "published" ELSE "none"]

\* A slice the source has withdrawn, one whose checksum is the listed one, or
\* one the virus scan or an error refuses: the next.
SyncSkip(s) ==
  /\ sync.pc = "loop"
  /\ s \in sync.todo
  /\ offer[s] \in {"absent", sync.listing[s].content} \/ env.fail
  /\ sync' = [sync EXCEPT !.todo = @ \ {s}]
  /\ UNCHANGED <<doc, files, attested, offer, call, ghosts, env>>

\* A slice that is new or has changed is fetched and classified.
SyncFetch(s) ==
  LET d == DatasetOf[s]
  IN  /\ sync.pc = "loop"
      /\ s \in sync.todo
      /\ offer[s] \notin {"absent", sync.listing[s].content}
      /\ sync' = [sync EXCEPT
                    !.pc = "upsert", !.s = s, !.todo = @ \ {s},
                    !.payload = Payload(s, offer[s]),
                    !.drifted = IF Drifted(Live(d), offer[s])
                                THEN @ \cup {d} ELSE @]
      /\ UNCHANGED <<doc, files, attested, offer, call, ghosts, env>>

\* An attestation covers the birth of a clean slice in a layout somebody
\* attested for its dataset.
Covered(s, content) ==
  content \notin Leaky /\ ShapeOf[content] \in consented[DatasetOf[s]]

\* Mutant of SyncUpsert: the columns the sync does not know about are reset.
SyncUpsertWhole ==
  LET s == sync.s
  IN  /\ sync.pc = "upsert"
      /\ doc' = [doc EXCEPT ![s] = sync.payload]
      /\ hold' = [hold EXCEPT ![s] = "none"]
      /\ vouched' = IF ~Exists(s) /\ Covered(s, sync.payload.content)
                    THEN vouched \cup {s} ELSE vouched
      /\ sync' = [sync EXCEPT !.pc = "loop"]
      /\ UNCHANGED <<ledger, reviewSet, open, attested, offer, call,
                     consented, lifted, env>>

\* upsertDocumentByExternalId: inserts or updates; the hold is no column of it.
SyncUpsert ==
  LET s == sync.s
  IN  /\ sync.pc = "upsert"
      /\ doc' = [doc EXCEPT ![s] = sync.payload]
      /\ vouched' = IF ~Exists(s) /\ Covered(s, sync.payload.content)
                    THEN vouched \cup {s} ELSE vouched
      /\ sync' = [sync EXCEPT !.pc = "loop"]
      /\ UNCHANGED <<files, attested, offer, call, consented, lifted, env>>

\* The catch around one slice: the others go on.
SyncSliceFails ==
  /\ env.fail
  /\ sync.pc = "upsert"
  /\ sync' = [sync EXCEPT !.pc = "loop"]
  /\ UNCHANGED <<doc, files, attested, offer, call, ghosts, env>>

\* The end: drifted datasets lose their attestation, in the source row as it
\* was read at the start.
SyncEnd ==
  /\ sync.pc = "loop"
  /\ sync.todo = {}
  /\ attested' = IF sync.drifted = {} THEN attested
                 ELSE [d \in Datasets |-> Live(d)]
  /\ sync' = NoSync
  /\ UNCHANGED <<doc, files, offer, call, ghosts, env>>

\* An error outside the loop, or the process dies.
SyncAborts ==
  /\ env.fail
  /\ sync.pc # "idle"
  /\ sync' = NoSync
  /\ UNCHANGED <<doc, files, attested, offer, call, ghosts, env>>

\* The source gets a new slice, changes one, or withdraws it.
SourceChanges(s) ==
  /\ env.changes > 0
  /\ env.overlap \/ Quiet
  /\ \E content \in Contents \cup {"absent"} :
       offer' = [offer EXCEPT ![s] = content]
  /\ env' = [env EXCEPT !.changes = @ - 1]
  /\ UNCHANGED <<doc, files, attested, call, sync, ghosts>>

-----------------------------------------------------------------------------
(* publishDocument, keepDocumentInternal, unpublishDocument.               *)

\* Not a document in a review set, and not one that is already public.
Publish(a, s) ==
  /\ Exists(s) /\ ~Public(s)
  /\ s \notin reviewSet
  /\ Start(a, "publish", "stamp", s, NoAttestation)
  /\ vouched' = vouched \cup {s}
  /\ UNCHANGED <<doc, files, attested, offer, sync, consented, lifted>>

KeepInternal(a, s) ==
  /\ Exists(s) /\ ~Public(s)
  /\ Start(a, "keep", "stamp", s, NoAttestation)
  /\ UNCHANGED <<doc, files, attested, offer, sync, ghosts>>

Unpublish(a, s) ==
  /\ Public(s)
  /\ Start(a, "unpublish", "stamp", s, NoAttestation)
  /\ UNCHANGED <<doc, files, attested, offer, sync, ghosts>>

\* What each decision stamps, what it makes of the document, what it records.
StampOf  == [publish |-> "published", keep |-> "internal", unpublish |-> "internal"]
ClassOf  == [publish |-> "public", unpublish |-> "internal"]
RecordOf == [publish |-> "published", keep |-> "kept_internal",
             unpublish |-> "unpublished"]

\* updateDocument: the decision is stamped into the metadata.
Stamp(a) ==
  /\ call[a].pc = "stamp"
  /\ doc' = [doc EXCEPT ![call[a].s].decision = StampOf[call[a].op]]
  /\ GoTo(a, IF call[a].op = "keep" THEN "log" ELSE "class")
  /\ UNCHANGED <<files, attested, offer, sync, ghosts, env>>

\* setDocumentClassification.
Classify(a) ==
  /\ call[a].pc = "class"
  /\ doc' = [doc EXCEPT ![call[a].s].class = ClassOf[call[a].op]]
  /\ GoTo(a, "log")
  /\ UNCHANGED <<files, attested, offer, sync, ghosts, env>>

\* appendPublicationDecision.
Log(a) ==
  /\ call[a].pc = "log"
  /\ ledger' = [ledger EXCEPT ![call[a].s] = RecordOf[call[a].op]]
  /\ Finish(a)
  /\ UNCHANGED <<doc, hold, reviewSet, open, attested, offer, sync, ghosts, env>>

-----------------------------------------------------------------------------
(* attestDataset, revokeDatasetAttestation.                                *)

\* The documents of a dataset.
Held(d) == {s \in Slices : DatasetOf[s] = d /\ Exists(s)}

\* The attested layout is that of the most recent slice there is.
Attest(a, d) ==
  \E s \in Held(d) :
    LET shape == ShapeOf[doc[s].content]
    IN  /\ \A t \in Held(d) : t <= s
        /\ Start(a, "attest", "config", 0, [attested EXCEPT ![d] = shape])
        /\ consented' = [consented EXCEPT ![d] = @ \cup {shape}]
        /\ UNCHANGED <<doc, files, attested, offer, sync, vouched, lifted>>

Revoke(a, d) ==
  /\ attested[d] # "none"
  /\ Start(a, "revoke", "config", 0, [attested EXCEPT ![d] = "none"])
  /\ UNCHANGED <<doc, files, attested, offer, sync, ghosts>>

\* updateSource writes the attestations of all datasets as the call read them.
Configure(a) ==
  /\ call[a].pc = "config"
  /\ attested' = call[a].config
  /\ Finish(a)
  /\ UNCHANGED <<doc, files, offer, sync, ghosts, env>>

-----------------------------------------------------------------------------
(* attachDocumentToRequest and holdForOpenRequest; setLegalHold.           *)

\* A document that is in the review set already is left as it is.
Attach(a, s) ==
  /\ Exists(s)
  /\ s \notin reviewSet
  /\ Start(a, "attach", "link", s, NoAttestation)
  /\ UNCHANGED <<doc, files, attested, offer, sync, ghosts>>

Link(a) ==
  /\ call[a].pc = "link"
  /\ reviewSet' = reviewSet \cup {call[a].s}
  /\ GoTo(a, "look")
  /\ UNCHANGED <<doc, ledger, hold, open, attested, offer, sync, ghosts, env>>

\* A closed request holds nothing, and a hold that is there stays.
Look(a) ==
  /\ call[a].pc = "look"
  /\ IF open /\ hold[call[a].s] = "none" THEN GoTo(a, "hold") ELSE Finish(a)
  /\ UNCHANGED <<doc, files, attested, offer, sync, ghosts, env>>

HoldIt(a) ==
  /\ call[a].pc = "hold"
  /\ hold' = [hold EXCEPT ![call[a].s] = "auto"]
  /\ Finish(a)
  /\ UNCHANGED <<doc, ledger, reviewSet, open, attested, offer, sync, ghosts, env>>

\* setLegalHold is one write.
SetLegalHold(s, on) ==
  /\ Exists(s)
  /\ env.overlap \/ Quiet
  /\ env.calls > 0
  /\ hold' = [hold EXCEPT ![s] = IF on THEN "human" ELSE "none"]
  /\ lifted' = IF on THEN lifted ELSE lifted \cup {s}
  /\ env' = [env EXCEPT !.calls = @ - 1]
  /\ UNCHANGED <<doc, ledger, reviewSet, open, attested, offer, call, sync,
                 vouched, consented>>

\* releaseRequest, or another determination, closes the request.  No hold is lifted:
\* releaseHoldsForClosedRequest, which would, has no caller.
Close ==
  /\ open
  /\ env.overlap \/ Quiet
  /\ env.calls > 0
  /\ open' = FALSE
  /\ env' = [env EXCEPT !.calls = @ - 1]
  /\ UNCHANGED <<doc, ledger, hold, reviewSet, attested, offer, call, sync, ghosts>>

\* A write throws, or the process dies: the call ends between two writes.
CallAborts(a) ==
  /\ env.fail
  /\ call[a].pc # "idle"
  /\ Finish(a)
  /\ UNCHANGED <<doc, files, attested, offer, sync, ghosts, env>>

-----------------------------------------------------------------------------
Syncing == \/ SyncStart \/ SyncList \/ SyncUpsert \/ SyncSliceFails
           \/ SyncEnd \/ SyncAborts
           \/ \E s \in Slices : SyncSkip(s) \/ SyncFetch(s)

Deciding(a) == \/ Stamp(a) \/ Classify(a) \/ Log(a)
               \/ \E s \in Slices : \/ Publish(a, s) \/ KeepInternal(a, s)
                                     \/ Unpublish(a, s)

Attesting(a) == \/ Configure(a)
                \/ \E d \in Datasets : Attest(a, d) \/ Revoke(a, d)

Attaching(a) == \/ Link(a) \/ Look(a) \/ HoldIt(a)
                \/ \E s \in Slices : Attach(a, s)

Next == \/ Syncing
        \/ \E a \in Staff : \/ Deciding(a) \/ Attesting(a) \/ Attaching(a)
                             \/ CallAborts(a)
        \/ \E s \in Slices : \/ SourceChanges(s)
                              \/ \E on \in BOOLEAN : SetLegalHold(s, on)
        \/ Close

Spec == Init /\ [][Next]_vars

-----------------------------------------------------------------------------
(* What the code promises.                                                 *)

TypeOK ==
  /\ doc \in [Slices -> Doc]
  /\ ledger \in [Slices -> {"none", "published", "kept_internal", "unpublished"}]
  /\ hold \in [Slices -> {"none", "auto", "human"}]
  /\ reviewSet \in SUBSET Slices
  /\ open \in BOOLEAN
  /\ attested \in Attestations
  /\ offer \in [Slices -> Contents \cup {"absent"}]
  /\ call \in [Staff -> Call]
  /\ sync \in Sync
  /\ vouched \in SUBSET Slices
  /\ consented \in [Datasets -> SUBSET Shapes]
  /\ lifted \in SUBSET Slices
  /\ env \in Environment

\* However calls, syncs and failures interleave, whatever the public can see
\* was either published by a named human or born clean in a layout that a
\* named human attested for its dataset.
NothingPublicUnvouched == \A s \in Slices : Public(s) => s \in vouched

\* What follows needs calls that do not overlap, or that do not fail.
Serial    == ~env.overlap
Faultless == ~env.fail

\* A document's visibility, the decision cached on it and the decision on file.
Agrees(s) ==
  CASE ledger[s] = "published" ->
         Public(s) /\ doc[s].decision = "published"
    [] ledger[s] \in {"kept_internal", "unpublished"} ->
         ~Public(s) /\ doc[s].decision = "internal"
    [] OTHER ->
         doc[s].decision = IF Public(s) THEN "published" ELSE "none"

\* Between calls the three agree, through any number of syncs that refresh the
\* document: the last decision of a named human stands until the next one.
DecisionsAgree == Serial /\ Faultless /\ Quiet => \A s \in Slices : Agrees(s)

\* Nobody but a person changes the visibility of a document there is: it goes
\* public in a call that publishes it and found it in no review set, and goes
\* internal in a call that takes it down, failures included.
Reclassified(s) == Exists(s) /\ doc'[s].class # doc[s].class
OnlyPeopleReclassify ==
  [][Serial => \A s \in Slices : Reclassified(s) =>
       \E a \in Staff :
         /\ call[a].s = s
         /\ call[a].op = IF Public(s) THEN "unpublish" ELSE "publish"
         /\ call[a].op = "publish" => s \notin reviewSet]_doc

\* A document in the review set of an open request is held, whatever syncs
\* and people do in between, until a person lifts its hold.
ReviewSetIsHeld ==
  Faultless /\ Quiet /\ open =>
    \A s \in reviewSet : hold[s] # "none" \/ s \in lifted
=============================================================================
