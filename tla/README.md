# Clerk: TLA+ models, model checks and proofs

Clerk is a multi-tenant platform for public-records (FOIA) requests. Residents
file requests, an agency's coordinators triage them, send tasks to departments,
review and redact documents, and answer: by a release, a denial, a referral or
a pointer to what is public already. Around that sit a durable job queue, agent
runs that staff steer, connected data sources and a public archive.

Nothing in the code is transactional above a single statement, except the claim
of a job. A use-case in `src/services` is a sequence of awaited repository
calls: it reads rows, decides on what it read, and updates by id with no
condition. Whoever else runs between two awaits, and whatever fails between
them, is what these models are about.

Paths below are relative to the repository root; `src/…` is its source folder.

## 1. Inventory

| Component | State it keeps | Operations | Interacts with | What is hard | What makes it correct |
|---|---|---|---|---|---|
| Request lifecycle (`domain/requestLifecycle.ts`) | none: a table of edges | `canTransition`, `assertTransition` | every writer of `requests.status` | it guards a read, not a write | the status moves along edges only; a determination stops the clock |
| Request case (`services/requestService`, `releaseService`, `referralService`, `messageService`, `redactionService`, `jobs/triageJob`, the request page's actions) | `requests` row, `request_events`, messages, reviews, releases, artifacts | submit, transition, approve triage, extend, deny, answer by reference, refer, forward, clarify, reply, dispatch, review, redact, release | calls each other; the triage job comes from the queue; staff tabs run side by side | stale reads across awaits, partial failure, two routes to a final letter | lifecycle kept, trail tells the status, one extension, one final letter, releases honour the decisions |
| Job queue (`jobs/queue.ts`, `jobs/register.ts`) | `jobs` table; per process: handlers, `ticking`, `polling` | enqueue, tick, run, recover and start | services enqueue; several processes share the table | crashes, recovery against live workers, failing bookkeeping, dropped nudges | one worker a job, verdicts earned and final, retries bounded, nothing stuck |
| Agent runs (`agents/runHarness.ts`, `steering.ts`, `budget.ts`, `actionTiers.ts`) | `agent_runs` row (plan, cursor, spend, status), the trail of `agent_action` events | run, approve, skip, cancel | started by a service or a sweep, steered from `/app/agents` | each caller works on its own copy of the row; effects outside the database | gated steps need their own approval, effects once and audited, budget kept, cancelled is cancelled |
| Department tasks (`services/taskService`, `domain/taskWorkflow`, `services/inboundEmailService`, `app/task/[token]`) | `tasks`, their uploads, review-set documents | dispatch, start, submit, push back, return, reassign, accept, cancel, remind, auto-dispatch | tasks move a request; uploads become documents; email is a second entrance | lost updates of uploads, status written before documents, two auto-dispatchers | submitted records all arrive, a finished task handed something over, automatic dispatch comes first or not at all |
| Publication (`services/publicationService`) | `documents.classification`, decision history | publish, keep internal, unpublish, source policy | attachments to requests, syncs | three writes a decision, check of attachments against attach | internal to public only by a named human, takedowns stay down, the three places that record a decision agree |
| Connected sources (`services/connectedSourceService`, `dataplane`) | `sources` config and attestations, documents, dataset rows | sync, attest, revoke, ingest | jobs run syncs; publication changes the same rows | a sync works on a snapshot of documents and attestations | never reclassifies, a slice is one document, drift revokes |
| Retention (`services/retentionService`, `domain/retention`) | `documents.legalHoldReason` | hold on attach, release on close, human holds, sweep | attachments and closings | who lifts an automatic hold | nothing an open request needs is destroyed; holds end |
| Statute clock (`statute/`) | none: pure functions of profile, calendar, dates | business days, due dates, extensions | requests, deadline agent | boundaries, holidays, pauses | deterministic, monotone, never earlier than the profile says |
| Accounts (`services/accountService`, `auth/`) | users, requesters, tokens, login failures | register, verify, reset, invite, change role, revoke | every guarded action; a filing creates requesters | a token is looked up, then burned; other admins are looked for, then one is revoked; filed rows are claimed later | a token works once, some admin can sign in, filed history is shown to who opened its mail |
| Learning and network plays (`services/learningService`, `networkPlaysService`, the sweep in `jobs/register`) | consent in `agencies.settings`, `network_aggregates` rows, consent and rebuild events | opt in, opt out, save other settings, weekly sweep, rebuild with floors and stability rule | all tenants' histories, the settings pages | settings are saved whole, rows are deleted and then inserted, rows held back a cycle, a cadence that is looked for in one agency's log | no row below the floors, who left is gone after the next rebuild, consent as recorded, numbers move together, a week between rebuilds |
| Status API and webhooks (`services/statusApiService`) | none; enqueues deliveries | read status, emit webhook | request case, job queue | order of independent retries | the last delivery tells the last status |
| Notifications (`services/notifications`) | `deliveries` outbox | send, relay | everyone | the provider fails after the row is written | every letter has its row |
| Redaction (`domain/redaction`, `app/_components/RedactionStudio`, `services/redactionService`, `ai/redaction`, `services/visualRedactionService`) | in the browser: bars, undo and redo stacks; burned copies | select, double-click, redact everywhere, undo, redo, accept, reject, remove, burn, reopen | the request case takes the burned copy; syncs replace texts | three ways to count columns, ids of acts that recur, a page that outlives its text | what a person sees covered is gone from what is released |
| Intake, deflection, search, imports, reporting, AI pipelines, adapters, web pages, MCP | events and documents they create | mostly reads, ranking, parsing, I/O | the components above | data more than control | see section 8 |

The hazards found on this survey, each at its line, are listed in
`PROJECT.json`, with the properties that cover them, or the reason why none
does.

## 2. Modules

| Module | What it is |
|---|---|
| `LifecycleGraph` | the status graph, as a function |
| `RequestLifecycle` | abstract: a status that moves along the graph, and a clock that stops with a determination for good |
| `RequestCase` | one request and every use-case that changes it |
| `MCRequestCase` | its instances for TLC |
| `RequestCase_proofs` | theorems about `RequestCase`, and about the deadlines it asks for (`StatuteClock`) |
| `JobLedger` | abstract: a job is pending until one final verdict |
| `JobQueue` | the queue over the jobs table, any number of processes |
| `MCJobQueue` | its instances for TLC |
| `JobQueue_proofs` | theorems about `JobQueue` |
| `AgentRun` | one persisted agent run, its harness and its steering |
| `MCAgentRun` | its instances for TLC |
| `AgentRun_proofs` | theorems about `AgentRun` |
| `TaskFlow` | the department tasks of one request |
| `MCTaskFlow` | its instances for TLC |
| `TaskFlow_proofs` | theorems about `TaskFlow` |
| `PublicRecord` | the slices of a connected source: sync, decisions, attestations, review set and holds |
| `MCPublicRecord` | its instances for TLC |
| `PublicRecord_proofs` | theorems about `PublicRecord` |
| `StaffAccounts` | the staff and residents of one agency, and the links mailed to them |
| `MCStaffAccounts` | its instances for TLC |
| `StaffAccounts_proofs` | theorems about `StaffAccounts` |
| `NetworkPlays` | the benchmarks computed across agencies: consent, sweep, rebuild |
| `MCNetworkPlays` | its instances for TLC |
| `NetworkPlays_proofs` | theorems about `NetworkPlays` |
| `StatuteClock` | a statutory deadline, walked over the calendar as the code does |
| `RedactionStudio` | redacting one document: geometry, page, burn |
| `MCRedactionStudio` | its instances for TLC |
| `RedactionStudio_proofs` | theorems about `RedactionStudio` |

### RequestCase

| Variable | Code |
|---|---|
| `request` | the `requests` row: status, `closedAt` set or not, length of `extensionHistory`, who wrote the scope, `forwardedTo` |
| `trail` | the `request_events` of kind status_change, with both statuses, extension, and release approval, which tells whether something was withheld |
| `thread` | the kinds of letters and messages that reached the thread |
| `filings`, `tasks` | requests filed with the peer agency, tasks dispatched |
| `attached`, `reviews`, `artifacts` | review set, decisions, burned copies |
| `releases`, `archive` | releases rows, public archive entries |
| `frame` | per caller: the use-case under way, what it has read, what it does next |

A call is a frame with a program counter. The first action of a use-case reads
the row and takes the guards of the code (an early return or a throw before the
first write is a call that does not start); then one action per await that
writes shared state. `transitionRequest` is shared, as in the code: use-cases
that call it put the target statuses in `todo`. What the code computes from a
row read earlier is computed from `frame[a].request`, never from `request`. The
two reads that `releaseRequest` has under way at a time come in either order. A
triage job may go on to dispatch its own suggestions (`AutoDispatch`), by the same
steps as a dispatch by hand.

A behaviour starts in one of the circumstances in `Environments`, kept in
`env`: how many use-cases may still be called and which documents there are to
review (the bounds), whether a call may
start while another is under way (`overlap`), and whether one may end between
two awaits (`fail`). One run thus tells what holds one call at a time, what
survives failures, and what survives interleaving; a property that needs order
says so (`Serial`, `Orderly`).

### JobQueue

| Variable | Code |
|---|---|
| `jobs` | the `jobs` table: status, attempts, `runAfter` passed or not |
| `asked` | order of enqueueing, the `createdAt` order of `claimNextJob` |
| `inflight`, `nudge` | pending `persist` promises and the `.then(tick)` behind them |
| `polling` | the poll timer is on |
| `worker` | `ticking`, the loop of `tick` and the body of `run` |
| `worked`, `reset` | history: handlers that returned; rows recovery took from a live worker |
| `crashes`, `errors`, `env` | how much went wrong so far; which processes and jobs there are and how much may go wrong |

`claimNextJob` is one action, since it is one transaction; every other await is
its own. `recoverAndStart` is not awaited by `registerJobs`, so a nudge may
claim before it. A crash loses a process's inserts that were not answered, its
nudges, timer and worker, and leaves the row running. A database call that throws
may have written all the same, its answer lost: each failing call has both
outcomes. So a job can be marked done and then, since its worker takes the lost
answer for a failure, be queued again.

### AgentRun

| Variable | Code |
|---|---|
| `row` | the `agent_runs` row: status, plan steps, cursor, tool calls spent |
| `frame` | per caller (the process that created the run, staff tabs): its copy of the run and what it does next |
| `ran`, `audited` | effects of each step's capability, and `agent_action` events that say it was executed |
| `consent`, `skips` | history of human decisions |
| `env` | the circumstances, as in `RequestCase`; the calls are steering calls |

Steps have a kind: `read` (autonomous), `gated` (requires a human: Tier 3, or
Tier 2 without opt-in), `forbidden`, and `revise` (a `plan_update` that splices
new steps behind the cursor; a plan may hold any number, and that a spliced step
is itself no revision is a bound). `executeStep`'s effect, the event, and the save of
the plan are three actions, in the code's order; the catch that turns any error
of the three into a failed run is in `CapabilityThrows`, `EmitThrows` and
`SaveThrows`. An approval or a skip writes the plan alone (`PlanWrite`), which
is why the row stays `awaiting_checkpoint` during the first resumed step. The
plan a run starts with is the first so many steps of `Plan`, so that one
instance holds plans of every length.

### TaskFlow

| Variable | Code |
|---|---|
| `request` | the status of the request the tasks belong to |
| `tasks` | the `tasks` rows in the order of creation: dispatched by a person (0) or by which automatic dispatch, status, uploads listed |
| `docs` | the document of each file a responder handed in: none, created, attached |
| `drawn` | how many files were handed in |
| `call` | per caller: what it read of the task and which writes are to come |
| `env` | the circumstances |

A responder comes through the link's page (`Submit`) or by answering the mail
(`Mail`, which starts the task first, as `inboundEmailService` does). Every
change of a task is `Read`, which asserts the edge of `domain/taskWorkflow`, and
`Write`, which updates by id; a submission then creates and links one document
a file. A dispatch moves the request over the edges of `LifecycleGraph` before
it creates its tasks, each move a read and a write; an automatic one looks for
tasks first. Circumstances say which calls may overlap: none, those about
different tasks (or the request), or any.

### PublicRecord

| Variable | Code |
|---|---|
| `doc` | the `documents` rows of the source's slices: classification, decision in the metadata, content |
| `ledger` | the latest `publication_decisions` row of each |
| `hold`, `reviewSet`, `open` | `legal_hold_reason`, the documents linked to one request, whether that request is open |
| `attested` | the attested layout per dataset, in the `sources` row |
| `offer` | what the source holds now |
| `call`, `sync` | people's calls and the sync run, with what each has read |
| `vouched`, `consented`, `lifted` | history: slices a person answers for, layouts a person attested, holds a person lifted |
| `env` | the circumstances |

`SyncStart` reads the attestations and `SyncList` the documents, once for the
whole run; `SyncFetch` computes the row from that snapshot and `SyncUpsert`
writes it. A decision is three writes (`Stamp`, `Classify`, `Log`), an
attachment a link, a look and a hold. One sync is under way at a time, and the
backfill of dataset rows at its end is left out: so is what two syncs, or that
backfill and a decision, write over one another. `Close` lifts no hold, as in the
code.

### StaffAccounts

| Variable | Code |
|---|---|
| `account` | `users` and `requesters` rows by email: role, password set, email verified |
| `links` | `auth_tokens` rows: kind, whose, used, expired |
| `redeemed`, `filed`, `proven` | history: effects of each link, residents a filing created, residents who opened a verification link |
| `call`, `env` | as above |

Rows are unique per email in the database, so a second `Insert` ends the call.
A resident's email is kept as typed by a filing and lower-cased by a
registration; `Lower` relates the spellings.

### NetworkPlays

| Variable | Code |
|---|---|
| `optedIn` | `settings.networkPlays.enabled` of each agency |
| `recorded` | what its latest `network_consent_changed` event says |
| `age` | days since its latest `network_rebuild` event that a sweep finds |
| `snapshot` | the `network_aggregates` rows |
| `tab` | per settings page: the save under way, with the settings it read |
| `sweep` | per process: the sweep and rebuild under way, with what they read |
| `listed`, `counts`, `shown`, `receipted`, `days` | history of the last rebuild: who consented, agencies counted in it and before, what each group showed, who holds its event, how long ago |
| `env` | the circumstances |

A row is told by `from`, the episodes each agency contributed to it: its number
of agencies and of episodes, its buckets and routes are functions of that, and a
held row keeps the `from` it had. A rebuild lists who consents
(`RebuildList`), reads the rows there are (`ReadCurrent`), deletes them all
(`DeleteRows`), inserts the new ones (`InsertRows`), and writes one event per
agency (`Receipt`). A save of any setting writes the settings whole.

### StatuteClock

`computeDueDate` as a state machine: `cursor` and `counted` are the loop
variables of `addBusinessDays` and `rollForwardToBusinessDay`, `phase` says which
it is in (start of the clock, initial deadline, extension). It depends on nothing
but the question in `ask`. What it should come to is defined without a loop:
`NthBusinessDay` counts the business days of an interval, `FirstBusinessDay`
names the first from a day on.

### RedactionStudio

| Variable | Code |
|---|---|
| `text`, `shown` | `documents.extractedText`; the `lines` the page was given |
| `redactions` | the page's bars: span, suggested or accepted, id, group |
| `undo`, `redo`, `offer`, `finalized` | `undoStack`, `redoStack`, `wordOffer`, `finalized` |
| `artifact` | the burned copy, the text it was made of, the spans of its log |
| `past`, `future` | history: the bars as they would be without each act and those after it, and as they were before each undo, with every edit made since |
| `env` | the text, what a sync may bring, what is suggested, the acts still to come |

A line is a sequence of characters and a column a UTF-16 unit, so the operators
of `domain/redaction.ts` are here with their own way of counting each. `Lower` takes
characters one by one: that `toLowerCase` writes a Greek sigma at the end of a
word differently is left out. `AddAct`
replaces what has the ids of the new act, as the code does. A burn is one step,
from the click to the refreshed page: the page cannot burn twice at a time, and
what is drawn while the server is at work is left out. With the first artifact
the page's key changes, and the refreshed page is a new one.

## 3. Runs that pass

| Run | Instance | What it shows |
|---|---|---|
| `Case` | 2 callers, all use-cases; on two documents 3 calls in order, or 2 in order that may fail; on one document 2 calls that overlap and may fail | see below |
| `Jobs` | a handled job and one nobody handles; 1 process and both jobs, 2 crashes, 2 database errors; 2 processes and one job, 2 crashes, 2 errors; 2 processes and both jobs, 1 crash; fair | exclusion unless recovery took the row; failed was earned; attempts stay within the retry budget plus one per fault; verdicts are final and the table implements `JobLedger`; an enqueued job settles unless a fault lost it |
| `AgentSteering` | the runner and 2 tabs; plans of 1 to 4 steps (a gate, two revisions that each insert another gate and a read, a forbidden step), budget 4; 4 steering calls in order, 4 in order that may fail, 3 that overlap, 2 that overlap and fail; fair | see below |
| `Task` | 2 callers, 3 files, batches of 2 suggestions; 6 calls in order, 4 on different tasks (also failing), 3 of any kind that overlap and fail | see below |
| `Record` | 2 people, 2 slices of one dataset, contents that are clean, that name somebody, that have another layout; in order 3 calls, 2 syncs and 1 change at the source or 2, 3 and 2, in order and failing 2, 2 and 1, overlapping 2, 2 and 1 | see below |
| `Accounts` | 2 callers, 2 staff, a resident with two spellings of the address; 5 calls in order, 4 in order that fail, 4 that overlap unless alike, 3 of these that fail, 3 of any kind that overlap and fail | see below |
| `Network` | 4 agencies, one group, a settings page, a process, floors of 2 agencies and 2 episodes, a week of 2 days; 1 save with 3 sweeps and 4 days, 2 with 2 and 2, 1 with 3 sweeps on one day that may fail | see below |
| `Studio` | all texts of one line of up to 5 characters (3 with a wide one, and one whose lower case is longer), two of up to 2, three of up to 1; four acts on a word that occurs twice; three acts and a suggestion on two lines, with a sync; an act behind a wide character | selections cover what lies between their ends, in either direction; a word is found wherever it stands alone; undo leads to the page without the last act and redo to the page before the undo, but for bars whose ids a later act took |

`Case`, by circumstance:

| Calls | Properties |
|---|---|
| any, also overlapping and failing | `LoggedEdgesLegal`, `RedactedShipsBurned`, `ToldIsClosed` |
| in order, also failing (`Serial`) | `LifecycleKept` (the row implements `RequestLifecycle`), `ReleaseHonoursDecisions`, `OneExtension` |
| in order and not failing (`Orderly`) | `TrailExplainsStatus`, `OneFinalLetter`, `NoOrphanFiling` |

`AgentSteering`, by circumstance:

| Calls | Properties |
|---|---|
| any, also overlapping and failing | `HumanGate` |
| in order, also failing | `CursorForward`, `CancelSticks` |
| not failing, also overlapping | `EveryStepAudited`; `RunStops` (with failures: or nobody is on it for good) |
| in order and not failing | `RunsOnce`, `SkippedNeverRuns` |

`Task`, by circumstance:

| Calls | Properties |
|---|---|
| any, also overlapping and failing | `AcceptedWasHandedOver` |
| on different tasks at a time (`Apart`), also failing | `AutoNeverSecondGuesses`; between calls, half of `WorkIsFiled`: nothing is attached that no task lists |
| apart and not failing | between calls, all of `WorkIsFiled` |

`Record`, by circumstance:

| Calls and syncs | Properties |
|---|---|
| any, also overlapping and failing | `NothingPublicUnvouched` |
| in order, also failing (`Serial`) | `OnlyPeopleReclassify` |
| not failing, also overlapping | between calls, `ReviewSetIsHeld` |
| in order and not failing | between calls, `DecisionsAgree` |

`Accounts`, by circumstance:

| Calls | Properties |
|---|---|
| any, also overlapping and failing | `HistoryNeedsProof` |
| no two removals of an admin, no two redemptions of one link at a time (`Unlike`), also failing | `SomeAdminCanSignIn`, `LinkWorksOnce` (that a burned link had its effect: not failing, between calls) |

`Network`, by circumstance (a save and a sweep may always overlap):

| Saves and sweeps | Properties |
|---|---|
| any, also overlapping and failing | `WeekBetweenRebuilds` |
| one save and one sweep at a time, also failing | `RevokedLeaves` |
| one at a time and not failing | between saves, `ConsentIsRecorded`; `NumbersMoveTogether` |

`TypeOK` of every module, `DeterminedIsClosed` and `LetterIsAudited` of the
request case, `AuditNeverInvents` and `SpendWithinBudget` of the agent runs,
`DoneWasWorked` of the queue, `BenchmarksClearFloors`
and all of `StatuteClock` are proved for every instance (section 6), so no run
checks them.

Where a property needs a condition, the condition is needed: section 4 says what
the code does without it.

Bounds and why they are enough. A call is a straight line of at most nine
actions, and every disagreement below needs two calls, so two overlapping calls
reach every pair of use-cases in every relative order; three calls one after the
other reach the statuses of the graph that the code writes, including a second
call after a determination. Two documents are one that ships and one that does
not; where calls overlap there is one, which is all a race over a document
needs, and what must survive overlapping calls is proved for any number
(section 6). Two attempts per job are a retry and a terminal failure; two processes are
one that works and one that boots, two jobs one that is claimed and one that waits;
crashes and errors are counted because each buys one more attempt, which `RetryBudget`
states, and two of each are one and one more after the recovery from it. The plans of `MCAgentRun`
hold each kind of step, with a gated one both planned and inserted; four
steering calls decide both gates, with one to be refused and one to cancel; the
budget is one short of what the longest plan would execute, so that a run may
finish (a shorter plan, or a skip) or run out. Six calls on tasks are a dispatch, a submission, a return, a resubmission
and an acceptance with one to spare; three files are two in one submission and
one in the next. Two slices of one dataset are the older one, whose layout was
attested, and a newer one that drifts; three syncs land a slice, refresh it and
refresh it again after a takedown. Five calls on accounts are what it takes to
lose an admin in order: invite, redeem, promote, revoke and a last removal that
has to be refused; two spellings make two rows of one resident. Three rebuilds
are one that publishes a row, one that holds it and one that moves it; four
agencies, two of which make a row, let the count and the membership change apart
from each other; a week of two days has a day within it. Five characters
of letter, hyphen and blank hold a word twice, next to itself, within another
and overlapping itself; three lines have one between the ends of a selection;
four acts are two done, undone or redone in any order.

Symmetry is used in runs of invariants and step properties only, over callers,
documents, staff and agencies, which the modules never tell
apart; the runs with a liveness property use none.
Slices and spellings are told apart, and are not symmetric.

Deadlock is not checked for `RequestCase`, `AgentRun`, `TaskFlow`,
`PublicRecord`, `StaffAccounts`, `NetworkPlays` and `RedactionStudio`: a request, a
run, a record, an account, a benchmark or a page is at rest when nobody calls. In `JobQueue` a live process always polls, so
deadlock is checked.

Every property of these runs is matched by a mutant, a variant of one action
with a plausible bug (a dropped assertion, an off-by-one, a forgotten field),
that makes the same run fail. The variants stand before the action they change,
marked as mutants, and are used by nothing else.

## 4. Where the code and its documentation differ

Four runs check one sentence of a comment, message or test against the model,
and TLC finds a counterexample. `PROJECT.json` quotes the sentences.

| Run | Counterexample |
|---|---|
| `CaseWithheldShips` | a review changed, or a document attached, during a release is not honoured by it |
| `JobTwoRunners` | a second process that boots re-queues a live job: two run it |
| `AgentTwice` | two tabs approve the same step: it is executed twice |
| `StudioCovered` | a bar behind an emoji is burned a character late: its first character stays in the artifact |

The other conditions in section 3 stand for disagreements of the same kind.
Dropping the condition from the property and checking it again shows each:

- `LifecycleKept` with overlap: two use-cases make a status jump that the graph
  does not have, though `requestLifecycle.ts:5` says it "is impossible". The edge
  is asserted against a row read earlier, and the update is by id only.
- `OneExtension` with overlap: two `extendRequest` calls both pass the "One
  extension per request" check.
- `NoOrphanFiling` with overlap or failure: `forwardRequest` files with the peer
  before it marks the source, so two calls file twice, and a failure in between
  leaves a filing nothing points to.
- `TrailExplainsStatus` with failure: a status write that is not followed by its
  event. Counting `status_change` events alone it fails even in order: the
  release path logs an approval instead.
- `OneFinalLetter` with overlap: a denial and a referral both reach the
  requester; with failure: a letter by reference without its determination,
  followed by another.
- A clarification or a triage draft is written to the row after a wait: the
  request may be determined, or its scope approved by a coordinator, meanwhile.
  The draft then replaces the approved scope.
- `releaseRequest` creates the releases row before it asserts the transition: in
  a status from which no release is possible, the row stays behind.
- `JobsSettle` names its two exceptions: `enqueue` returns before the insert is
  answered, and a failed `retryJob` or `markJobFailed` leaves the row running,
  which no poll claims and the health page, listing failed rows, does not show.
- `VerdictStands` and `ExclusiveUnlessReset` name theirs: `completeJob` is awaited
  inside the `try` around the handler (`jobs/queue.ts:196-200`), so an error of it
  is the handler's, also when the row says done by then. The work is done again.
- `SkippedNeverRuns` and `EveryStepAudited` with failure: the effect comes
  before its event and the save, so a step may have run unaudited, and be
  skipped as "never executed" afterwards.
- `CancelSticks` with overlap: the row of a run being resumed still says
  awaiting_checkpoint during its first step; a cancel is accepted and then
  written over by the resumed run.
- `AutoNeverSecondGuesses` with calls that meet on the request: a coordinator
  dispatches between the look of `autoDispatchSuggestions` and its first task,
  which the comment at `taskService.ts:195` says never happens.
- `WorkIsFiled` with two submissions to one task, by page and by mail: each
  writes the uploads it read plus its own, and one list is lost. With failures:
  the task says submitted before its documents exist, and cannot be submitted
  again until it is returned.
- `OnlyPeopleReclassify` with overlap: a document taken down during a sync is
  put back by the sync, which writes the classification it listed; and a
  document attached to a request between `publishDocument`'s look and its write
  goes public outside the request's release.
- `DecisionsAgree` with overlap: a sync writes back the stamped decision of the
  listing; with failure: a decision is stamped and not applied, or applied and
  not on file.
- `ReviewSetIsHeld` with failure: a document linked and not held stays so, since
  attaching it again returns early.
- `SomeAdminCanSignIn` with overlap: two admins revoke or demote each other, each
  having seen that the other is there.
- `LinkWorksOnce` with overlap: two redemptions both find the link unused, though
  `auth/tokens.ts:4` says "Consuming is single-use"; with failure: a link that
  was burned before the password was written is wasted.
- `RunStops` with failure: a run left running by a crash is never resumed and
  refuses to be steered. So does a run handed off for lack of budget, persisted
  as exhausted, although its message invites to "resume or redirect".

Other differences met while reading, which no property is about:

- `updateTask` of the Drizzle repository (`drizzleRepository.ts:597`) ignores
  `scopeText`: a reassignment with a new scope keeps the old one, while its
  event records the new.
- `submitRequest` stores an email as typed and `registerRequester` looks it up in
  lower case: history filed as Jane@ is not found by who registers jane@.
- `releaseHoldsForClosedRequest` says it is "called when a request closes"
  (`src/services/retentionService.ts:38`), and only its test calls it;
  `PublicRecord`'s `Close` lifts no hold.
- The automatic hold looks for a hold and writes one: a person's reason set in
  between is overwritten.
- Overlapping attestations and a sync's drift write back the whole config they
  read, so the last one decides for all datasets.
- A group held back for stability shows its previous row for a cycle, an agency
  that revoked its consent included, where `docs/invariants.md:68` has the next
  rebuild exclude it: `RevokedLeaves` has to except the groups whose count moved
  in that very rebuild. A count that moves at every rebuild holds the row on,
  where the docs speak of one cycle.
- When the last consenting agency leaves, the sweep has nobody to rebuild for,
  and the rows stay.
- `jobs/register.ts:197` calls the rebuild weekly, but looks for the last one in
  the log of the agency that happens to be listed first: one that joined since,
  or whose latest 50 events are others, starts another (`WeekBetweenRebuilds`
  excepts them).
- A crash between the delete and the insert of a rebuild loses the rows that were
  held, and with them what the next one would compare with
  (`NumbersMoveTogether` with failure).
- Two saves of different settings that overlap undo each other, a withdrawal of
  consent included, which the log goes on to report (`ConsentIsRecorded` with
  overlap).
- Why `GoneNotCovered` fails: bars count UTF-16 units, `applyRedactions` code points
  (`[...text]`, `domain/redaction.ts:167`). Behind a character of two units the
  burn is a column late; `findLeaks` looks for the whole value, which is not there
  any more, and is content.
- `WordsFoundEverywhere` on a line with a character whose lower case is longer
  (U+0130) or of another width: `wordMatches` reports the columns of the
  lower-cased line.
- A sync replaces the text of an attached document while a studio page is open.
  The page sends columns; what was seen under a bar then stands in the burned
  copy, and the leak check, which reads the new text, does not abort.
- The first burn changes the key of the studio (`redact/page.tsx:150`), so the
  page that "Re-open for edits" opens has the suggestions and none of the bars
  that were drawn. A second copy burned from it lacks them.
- `addAct` replaces what has the ids of the act. Those of an everywhere-act are
  the word and a running number: of four occurrences, two covered by suggestions,
  redact the word everywhere, reject the suggestions, redact it everywhere again,
  and the first two bars are gone. Likewise the same query entered twice in the
  find box: the second act takes the place of the first, and undoing it removes
  bars that stood before it (`UndoRedoRestore` excepts bars whose ids a later act
  took).
- `RedactionStudio.tsx:156` says redo "never resurrects work from before an
  intervening edit": accepting or removing a card does not clear its stack
  A redo then brings back the bars of its act, with the edits to other bars kept,
  which is what `UndoRedoRestore` says of it.
- The Washington profile allows an extension of at most 0 days, so every one is
  refused.

## 5. Fairness

`RequestCase`, `TaskFlow`, `PublicRecord`, `StaffAccounts`, `NetworkPlays` and
`RedactionStudio` state none: whether staff call, a responder answers or a sync is
due is not the code's to decide, and their properties are safety. `JobQueue` assumes that a process which
can boot does, that recovery runs, timers fire, inserts are answered, and that a
worker gets on with a non-failing step. The code has a self-scheduling timer,
awaits each call in a loop, and `registerJobs` runs at each server start; that a
dead server is started again is the deployment's business. It does not assume
that a handler succeeds, only that it ends (`Work` contains both outcomes), nor
that nudges are called. `AgentRun` assumes that a call under way goes on;
steering is never fair.

## 6. Theorems

The proofs hold for any callers, documents, use-cases, processes, jobs, slices,
files, accounts, links, agencies and bounds. They assume the named assumption of each
module (`CaseAssumption`, `QueueAssumption`, `AgentAssumption`,
`TaskAssumption`, `RecordAssumption`, `AccountsAssumption`,
`NetworkAssumption`), which the runs evaluate on their instances. `StatuteAssumption`, that the questions asked of
the clock are well formed, is a hypothesis of the theorems that need it.

`StudioAssumption` is that of `RedactionStudio`.

Where a property holds in some circumstances only, its theorem says no more than
the property, which names the circumstance (`env.overlap`, `env.fail`): it is a
theorem about every behaviour, of which those in other circumstances satisfy it
trivially.

`RequestCase_proofs`:

- `TypeCorrect`: `Spec => []TypeOK`. A frame's planned transitions are working
  statuses, and a frame about to transition has one planned (`TypeInv`).
- `ClosedWhenDetermined`: `DeterminedIsClosed`. Inductive since every write of a
  determination writes `closedAt` with it, `transitionRequest` only ever writes
  working statuses, and nothing clears `closedAt`.
- `TrailLegal`: `LoggedEdgesLegal`. The row may jump, its changes in the trail may not. Needs
  `AssertInv`: what a frame will log from is a status its use-case asserted the
  edge for, kept in the frame across awaits.
- `LettersAudited` and `BurnedCopiesOnly`: `LetterIsAudited`,
  `RedactedShipsBurned`. Proved together: `OutInv` says that a frame that is
  about to write a letter has its event in the trail, and one that is about to
  create a release has its three sets disjoint and its burned copies made.
- `NobodyToldEarly`: `ToldIsClosed`. Needs `StoppedInv`: a frame that is about to
  log an answer has found or written a closed row, which nothing reopens, and
  the archive comes after the letter.
- `ExtendedOnce`, `ReleasesHonour`, `LifecycleImplemented`: `OneExtension`,
  `ReleaseHonoursDecisions` and the refinement `LifecycleKept`, for calls in
  order, which may fail. Needs `FreshInv`: one frame at most is busy (`Alone`),
  and what it holds of row, trail, review set and decisions is still so, as far
  as it goes on to use it. And `RowInv`: only a determination closes a row, and
  an extension in the trail is one in the row. A step of `Spec` is then a step of
  `RequestLifecycle` or leaves its two variables alone.
- `TrailExplains`, `LettersAgree`, `FilingsPointedTo`: `TrailExplainsStatus`,
  `OneFinalLetter`, `NoOrphanFiling`, if moreover none fails. By `TidyInv`, which
  says for each point in each use-case how row, trail, thread and filings stand
  to one another while some are written and some are not.

About the deadline a filing and an extension ask for, in the same module
(`StatuteClock`; its names carry `Clock` where `RequestCase` has the same):

- `DeadlinesAreLawful`: a deadline that was computed is the one the rule defines.
  In business days it is one, and those after the start, up to it, are as many as
  the rule says; in calendar days it is that day, or the first business day from
  it where the rule rolls forward. An extension counts the same way from the
  initial deadline. By an invariant of the loops (`ClockInv`): the days counted so
  far are the business days passed.
- `ExtensionsAdd`: a deadline leaves at least the days of its rule, and an
  extension at least the days asked for.
- `DeadlineIsUnique`: no two days satisfy the definition, so the loop computes
  the day the statute names, whatever the calendar.

`JobQueue_proofs`, for any number of processes. What the actions do to rows and
workers is one of five kinds of step (`Kinds`: quiet, inserts, takes a row, writes a
row, re-queues), and each invariant is proved kind by kind:

- `QueueTypeCorrect`, `Exclusion`, `DoneEarned`, `FailureEarned`, by one invariant,
  `QueueInv`. `EnqueueInv` relates `asked`, `inflight` and absent rows, so
  that `Persist` never overwrites a row; `HolderInv` says what a worker that
  holds a job knows of it: attempts, whether the handler returned, whether it
  has a handler. Exclusion, done-was-worked and failed-is-earned then support
  each other: a worker settles a row nobody else holds unless recovery took it.
- `VerdictsFinal`, `LedgerImplemented`: `VerdictStands`, and that `Spec` implements
  `JobLedger`. Both except the rows in `Contested`: with more than one process, those
  that recovery took from a live worker, of which `JobTwoRunners` shows that nothing
  can be promised. Need `PendingInv`: a held row that is not contested has no
  verdict yet, or one its worker has not been answered; and `UpInv`: only the
  processes there are run, so with one nobody else claims what it re-queued.
- `RetriesBounded`: `RetryBudget`, for rows that are not contested. By `BudgetInv`:
  a row that nobody holds has a try to spare, a worker knows how many its row has
  used, and each crash or error raises the limit by one when it costs a try. For a
  contested row it is false: a boot gives back a row that is being worked, at no
  fault's expense.

`AgentRun_proofs`, the first three by one invariant, `RunInv`, the next two by
`AuditInv`, for any plan of any steps, revisions included:

- `RunTypeCorrect`, `HumansGate`, `BudgetKept`. A caller works on a copy, and
  copies are written over one another, so the invariant is about every copy and
  the row at once: each is well typed, within its budget, and marks no step
  approved that no human approved (`Sound`). A copy in hand when its capability
  has just taken effect has spent less than the budget. `HumanGate` follows,
  since the harness decides from the copy alone. One lemma for each way the
  harness changes a run (marking a step, splicing a revision in, advancing) says
  that it keeps a copy sound.
- `TrailNeverInvents`, `StepsAudited`: `AuditNeverInvents`, `EveryStepAudited`. A
  counting argument: the events of a step, plus the callers that are about to
  write one, are at most as many as its effects, and exactly as many when no
  call fails. Each of the three actions moves one unit from one side to another.
- `CursorGoesForward`, `CancelledForGood`: `CursorForward`, `CancelSticks`, for
  calls in order, also failing. By `TurnInv`: one call at most is under way, its
  copy has the steps that are behind the row's cursor and goes on from there, and
  a cancelled row has nobody at it who would write it.
- `StepsRunOnce`, `SkippedStaysOut`: `RunsOnce`, `SkippedNeverRuns`, if moreover
  none fails. By `TraceInv`: the plan in hand has each step once, and every step
  that took effect or was skipped is one its cursor has passed, or the one whose
  event or save is to come. What a revision inserts is in the plan only once its
  own step is over, so a plan never gets a step twice.

`TaskFlow_proofs`:

- `TaskTypeCorrect`: the types, which no run checks.
- `AcceptedHandedOver`: `AcceptedWasHandedOver`, under overlap and failure. Needs
  `AcceptedInv`: a task that is submitted lists uploads, no write shortens a list
  to nothing, and a task about to be accepted lists some.
- `AutoComesFirst`: `AutoNeverSecondGuesses`. Needs `AutoInv`: while calls keep
  apart, a dispatch under way is alone on the request, so what it saw when it
  looked for tasks is still so when it creates them.
- `WorkFiled`: `WorkIsFiled`, both halves. While calls keep apart a write knows
  the uploads there are, so lists only grow, and what is attached is listed
  (`LedgerInv`). If none fails, what is listed is attached or left to file by a
  call under way (`DueInv`), and between calls there is none.

`PublicRecord_proofs`:

- `RecordTypeCorrect`: the types, and which rows exist (`Present`).
- `PublicMeansVouched`: `NothingPublicUnvouched`, under overlap and failure. Needs
  `VouchInv`: what a sync or a call is about to write, and the attestations it
  carries, were vouched for when read, and vouching is never withdrawn.
- `PeopleReclassify`: `OnlyPeopleReclassify`. Needs `SerialInv`: in order, at
  most one is under way (`Alone`), the listing a sync works from is current
  (`Current`), and a document a call publishes is in no review set (`Unreviewed`).
- `DecisionsStand`: `DecisionsAgree`, by `AgreeInv`: how far the three writes of
  the call under way have come, document by document.
- `ReviewHeld`: `ReviewSetIsHeld`, by `HeldInv`: a document of an open review set
  is held, or the call that linked it has yet to hold it.

`StaffAccounts_proofs`:

- `AccountsTypeCorrect`: the types, with what each kind of call has in hand
  (`FrameOK`).
- `HistoryProven`: `HistoryNeedsProof`, under overlap and failure: a claim of a
  filed row hides its history, and only opening the mailed link shows it.
- `AdminRemains`: `SomeAdminCanSignIn`. While no two removals overlap, the other
  admin that a removal has found is still there when it writes.
- `LinkOnce`: `LinkWorksOnce`. While no two redemptions of one link overlap, a
  link has had as many effects as it was burned, but for the call that has burned
  it and not yet used it.

`NetworkPlays_proofs`:

- `NetworkTypeCorrect`: the types; a row read for a group is of that group.
- `FloorsCleared`: `BenchmarksClearFloors`, under overlap and failure. By
  `ClearInv`: the rows there are and the rows a rebuild has read clear the
  floors, so a held one does as well, and what is computed anew is filtered.
- `RebuildsWeekly`: `WeekBetweenRebuilds`, under overlap and failure. By
  `WeekInv`: an event of the last rebuild is exactly as old as that rebuild.
- `ConsentLogged`: `ConsentIsRecorded`. By `ConsentInv`: the one save under way
  is all that settings and log may differ by.
- `LeaversLeave`: `RevokedLeaves`, by `LeaveInv`: a row that waits for no number
  was made of agencies the last rebuild listed; one that waits, waits for the
  number just counted, which was not the number before (`Counted`).
- `NumbersHeld`: `NumbersMoveTogether`, by the same and `ShownInv`: what was shown
  is what the next rebuild reads.

`RedactionStudio_proofs`:

- `SelectionsCover`: `SelectionCovered`. The loop over the lines of a drag
  concatenates what each line contributes. The library defines the concatenation
  as a recursive function, so that it exists, unfolds and has exactly the elements
  of its parts is shown first (`FlattenIs`, `FlattenHas`), and from it that the
  spans are those that cover something (`Kept`, `DragIs`).
- `UndoRestores`: `UndoRedoRestore`. By `PastInv`: the page as it would be without
  an act and those after it is the page without the bars that carry their ids,
  also after acts that took some of these ids for themselves. And `FutureInv`: the
  page with acts taken back is the page and their bars, and no two of these sets
  share an id. The page is thus determined by the two stacks, which hold ids one
  way and bars the other.
- `WordsFound`: `WordsFoundEverywhere`, in every text over any alphabet. A line is
  a sequence of units of which no half of a character lacks the other (`Formed`).
  Where each character has one of its width as lower case, places in the line and
  in its lower case are the same (`LoweredEven`). The scan goes on behind each match, so an
  occurrence starts within one that it found (`ScanIs`). For the clicked word that
  can only be itself: an earlier match that overlaps it would hold the blank before
  it, and a word holds none (`BlankApart`, `WordFindsItself`). Any other
  occurrence is found or overlaps the one before it (`OthersFound`).
  It needs two facts about lower case, which `StudioAssumption` states since they
  hold of `toLowerCase`: no character becomes nothing, and white space is what
  becomes white space; and that white space is one UTF-16 unit and no letter or
  digit, as the classes of the regular expressions have it.

The library's induction theorems cannot be cited here, so where a proof needs
induction over numbers it is in the module: a set of naturals that has 0, and
with each its successor, lacks none, since the least it lacked would have a
predecessor (`Least`, `Inductive` of `RedactionStudio_proofs`, `FirstIn` of
`TaskFlow_proofs`).

TLC checked `FreshInv`, `RowInv`, `TidyInv`, `TurnInv`, `TraceInv`, `LedgerInv`,
`DueInv`, `QueueInv`, `PendingInv`, `UpInv`, `BudgetInv`, `PastInv` and `FutureInv`
on the instances of section 3.

## 7. What is only model-checked

Liveness (`JobsSettle`, `RunStops`), which the prover does not reach. Every other
property of a run that holds is a theorem.

The statements of section 4 that the code breaks are TLC's as well.

`StatuteClock` is proved for every calendar and every number of days, and has no
run.

## 8. Not modelled

- AI pipelines, deflection, similar requests, search: ranking, retrieval and
  model output. A model call appears as a nondeterministic result where a
  use-case stores it.
- The visual redaction studio: boxes over pixels. Of the text studio, what the
  scans for personal data look for.
- Imports of records and mailboxes, OCR: parsing of data, with
  writes that create rows and nothing that waits on them. The mail entrance that
  has a state machine behind it, a responder's answer, is in `TaskFlow`.
- Reporting and the pages: they read. The route handlers' use-cases are the
  services', and are modelled there.
- Learning: how closed requests become plays, the mapping of tenants' words to
  shared topics, and the rounding into buckets: computations on data. What they
  yield for an agency and a group is any number of episodes in `NetworkPlays`.
- Notifications: a letter is its outbox row; delivery is the provider's.
- Status API and webhooks: the order of deliveries is that of independent jobs,
  which `JobQueue` lets finish in any order; what a subscriber may conclude from
  that is not stated.
- Sessions: reading a signed cookie and the row behind it changes nothing.
- The department, agent and adapter code around the modelled harness: each play
  is a plan, and `AgentRun` takes any plan.
- Database queries, migrations, tenancy filters: every model is of one agency.

Within the modelled parts, what is abstracted is named at the head of each
module.

## 9. Plan: done and left

Done: the request case, the queue and the agent runs, with their abstract
specifications; department tasks; the public record with attestations, syncs and
holds; accounts, invitations and mailed links; the statute clock; the benchmarks
across agencies; the text redaction studio.

Left, the most useful first:

1. `RequestCase` and `JobQueue` composed, to state what a subscriber of the
   status webhook may conclude, deliveries being retried independently.
2. Documents attached to several open requests, once something calls the
   release of holds.
