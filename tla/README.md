# ArchiveSeal in TLA+

ArchiveSeal is a Go service for the digitization of sound archives. A carrier
is registered as a *case*; the case is assessed, a capture plan is approved for
it, it is captured, reviewed, recaptured if it fails, and finally sealed with a
manifest. Everything is kept in one snapshot file and one audit file, and is
changed by HTTP requests that run concurrently.

This directory specifies that system in TLA+, checks it with TLC, and proves
with TLAPS every invariant and action property the passing runs check: of its
write path, its audit, its readers, its registration, its bookings, the course of
one case and the rules for its lists. Paths below are relative to `src/internal/`.

    tlc -config MCRegistry_competing.cfg MCRegistry     checks one run
    tlapm ArchiveServiceProofs.tla                      checks the proofs

Operators commented `Fault:` are not the code. Each is a plausible mistake in
the definition that follows it; substituting it for that definition makes a
property fail, which shows that the property depends on the code being right.
`PROJECT.json` lists which (`mutants`), and the source lines every definition
stands for (`map`).

## 1. Inventory

| Component | State | Operations | Interacts with |
|---|---|---|---|
| `application.App` | `createMu`, one mutex per case in `locks` | one method per write: assess, plan, release, capture(s), quality, recapture, custody, seal | calls store, domain, audit; called by goroutines of the router |
| `store.Store` | `cases`, `idem` (receipts by key), snapshot file | `New`, `Get` (deep copy), `Commit`, `CommitBatch`, `PutIdempotency`, `FindIdentifier`, `CaptureEvidenceConflict`, `PlanResourceConflicts`, `Search` | one RWMutex inside; replaced by rename |
| `audit.Audit` | `events`, `heads` per case, `audit.jsonl` | `New` (replay), `Append…`, `Validate`, `Head`, `Inspect`, `Page` | written after the snapshot, not atomically with it |
| `domain.DigitizationCase` | state, revision, assessment, plan and history, captures, quality, recaptures, custody, manifest | one method per request, on the copy | none: pure |
| Registration | as App and Store | `CreateWithCustodyRequest`, `CreateBatch` (atomic, partial), `Preflight` | under `createMu`; Preflight under nothing |
| Window reservations | part of each plan | book, revise, release, consume, expire | compared over all cases by `Store.PlanResourceConflicts`, under `createMu` |
| Technical evidence rules | none | loops over one list of a request each: intervals, pauses, segments, tasks, readings | called by the domain, some again at the seal |
| Readers | none (capture preflight keeps a receipt) | verify, custody chain, manifest preview, component proof, audit search, integrity check, capture preflight | read store, then audit, some of them without the case's mutex |
| `httpapi.Server` | none | decoding, sealed gate, dispatch, error codes | |
| read models, reports | none | projections for display | |
| `cmd/archiveflow` | none | process start | |

What is hard here, and what must hold nevertheless:

- **Two mutex levels.** Some handlers hold `createMu` and then the mutex of a
  case, others only the latter. Every path out of a handler must unlock, and
  no two handlers may wait on each other.
- **Optimistic copies.** A handler decides on a copy it took earlier. No update
  may be based on a revision the client had not seen, or overwrite another.
- **Receipts.** Requests are retried, duplicated and sent concurrently. Each
  takes effect at most once and a retry gets the first result.
- **Two files.** The snapshot is written before the audit, and a crash or an
  error can fall between. The audit may then have a gap, but never an event
  that is wrong or out of order, and sealing must not pass over a gap.
- **Checks across cases.** Identifiers, capture assets and windows must be
  unique over all cases, but are checked in one step and committed in another.
  Windows also end by themselves, as time passes between the two.
- **Readers between two writes.** A reader that sees the case of one moment and
  the audit of another must not call a damaged archive whole.
- **Two computations of one thing.** What a review computed from a list is
  computed again at the seal, from what was kept of it and by another loop.
- **Long protocols.** Plans are revised and released, authorizations expire,
  are revoked and renewed, decisions need up to three people. State, evidence,
  audit table and the checks made at the seal are written in different places
  and must agree after every sequence of requests.

`PROJECT.json` lists these as `hazards`, each at its line.

## 2. Modules

    ArchiveLedger   <-- refined by ---  ArchiveService  <-- proved about in -- ArchiveServiceProofs,
                                             ^                                 ArchiveAuditProofs
                                             |
                                             +-- extended by -- ArchiveReaders
                                                                     ^-- proved about in -- ArchiveReadersProofs
    AuditChain      <-- extended by --  CaseLifecycle  <-- proved about in -- CaseLifecycleProofs,
    CaseProtocol    <-- refined by ---  CaseLifecycle      and -------------  CaseProtocolProofs
    Registry        <-- proved about in --  RegistryProofs
    Reservations    <-- proved about in --  ReservationsProofs
    EvidenceRules   <-- proved about in --  EvidenceRulesProofs

The `MC…` modules give the small instances TLC checks.

### ArchiveService: the write path

Workers are goroutines; `pc[w]` is the place in the handler, `req[w]` the
request it serves, `copy[w]` its deep copy of the case. A handler takes the
steps below, each of them atomic in the code because it runs under the mutex of
the store, of the audit, or is a single lock operation.

| pc | action | code |
|---|---|---|
| `idle` | `Receive`, guarded by `SealedGate` | the router, `httpapi/server.go:551-607` |
| `createMu` | `LockCreateMu` | plan, release, captures: `application/app.go:157-160`, `204-206`, `252-254`, `275-277` |
| `evidence` | `CheckEvidence` | captures before the lock of the case, `app.go:252-273` |
| `caseLock` | `LockCase` | `App.lock`, `app.go:25-30` |
| `lookup` | `Lookup` | `App.idempotent`, `app.go:353-373` |
| `load` | `Load` | `Store.Get` and the comparison of revisions |
| `decide` | `Decide` | the domain on the copy; sealing validates the audit first, `app.go:318-323` |
| `commit` | `Commit` | `Store.Commit`, `store/store.go:105-135` |
| `audit` | `AuditAppend`, `AuditFail` | `audit/audit.go:59-79` |

`Return` is the deferred unlocks. What an operation does to a case is abstract:
the accepted request is appended to `log`, the revision is incremented, sealing
remembers the audit it has validated. The domain may refuse any request. Event
types are abstract as well, but for one, `REAUTHORIZE`, an authorization after a
revocation: the domain accepts it and the table of transitions does not, so
`Validate`, which the seal and all readers ask, is false ever after
(`ValidTransitions`; `CaseLifecycle` shows that it is the only such event). A
failed snapshot write is a refusal too: the store replaces its maps only after
the file (`store/store.go:130-133`). A failed append leaves nothing, a torn line, a line
without newline or the whole line in the file and nothing in memory; `Crash`
forgets memory and replays the file up to the first line that does not decode.
The map entry `Case` keeps of `DigitizationCase` what this module needs.

`ArchiveLedger` is the promise to clients: one journal per case, `Apply` and
`Answer`. The mapping reads the journal off the case: `journal <- cases[c].log`.

### ArchiveReaders: readers next to the handlers

`ArchiveReaders` extends `ArchiveService` with goroutines that read. Each step of
a reader is one call of the store or the audit, and the steps of handlers fall
between them.

| kind of `Reads` | code |
|---|---|
| `VERIFY` | `VerifyDetails`, `ComponentProof`, each case of `IntegrityChecks`: case, chain, head at the seal; no mutex |
| `MANIFEST` | `ManifestVerificationDetails`: the same under the case's mutex |
| `PREVIEW` | `PreviewManifest`: case, head, chain; no mutex |
| `SEARCH` | `AuditSearch`: case, then the lines of the file and the memory of the audit, under the mutex |
| `DRYRUN` | capture preflight: receipt, mutex, receipt again, clone, evidence of all cases, receipt saved |

`seen[r]` is what a reader has read, `reply` the last answer given, kept for one
state so that invariants can compare it with the archive. `seen[r].quiet` is
not in the code: it says that no handler has held the case's mutex since the
reader took the case. `EnterCase` is `LockCase` of a case no reader has locked.
`Persisted` parses the file as `Inspect` does, line by line, which is not how a
restart decodes it: an event without newline spoils the line that follows.

### CaseLifecycle and AuditChain: one case

Each action is one accepted request with all it changes, its event type
appended to `trail`. Guards are those of the domain methods: states, revision
numbers, generations, people, validity, windows, versions. Times are small
numbers and a recording lasts one unit; the clock moves by `Tick`. Requests the
domain rejects change nothing (the copy is thrown away) and are not actions.
The quality decision is computed from the failures the review finds, as
in `domain/case.go:651-780`; one owner and one performer stand for those of all
remediations. `EvidenceComplete` is `validTimeline`: of what it computes again,
three things can differ from what was stored, and each has its field. `resums`
says of the damage ratios of an assessment whether they sum up alike in the order
sent and in the order stored; `fingerprint` and `controls` of a plan are the list
of risk controls as hashed and as stored (`Stored`: an empty list is lost);
`length` of a decision is the duration its listening intervals were measured
against. `AuditChain` is `audit.validTransition`; `ValidChain` with the
count of events is what `Audit.Validate` asks of the whole chain.

`CapturePlan`, `QualityDecision`, `RecaptureAction` and the other records are the
structs of `domain/types.go`, reduced to the fields a rule looks at.

`CaseProtocol` is the promise to clients of one case: a plan, generations that are
captured and judged one at a time, each with one verdict, permits for recaptures
that may be given and withdrawn and are used up, a seal. The mapping reads all of
it off the evidence and none off `state`: a generation is judged when
a settled decision for it is on record (`JudgedGenerations`), open when a capture of
it is and no such decision, and a permit is an active authorization for the next.

A client sends the time a recording took place, so `Recordings` is independent
of `now`; the code compares it with plans, windows and authorizations, never
with the clock.

### Reservations: the bookings of all cases

Several cases, several goroutines, and a clock. Planning, releasing and
capturing take the steps `Receive` (with `createMu`), `LockCase`, `Decide`,
`Check` (plans only, `PlanResourceConflicts`) and `Commit`; reviews,
authorizations and seals hold only the case's mutex and are one step. `Tick`
may fall between any two. `approvedAt` is the time of the decision cut to whole
seconds (`Truncated`, `domain/case.go:274`), so a second has `Second` units of
the clock. Three times are not in the code: `decidedAt` is the untruncated
one, `checkedAt` records when a window was compared with the others, which may
be later, and `reportedAt` when a recording was accepted. Clients may ask for any
window and report any recording, past or future: nothing compares the times
of a recording with the clock (`case.go:465-470`).

### Registry: registration

Single cases, batches and dry runs, with the same worker structure. `verdicts`
is what a handler has found out item by item, `pending` the events it has yet
to append. `BatchVerdict` and `PreflightVerdict` are the two, different, ways
the code compares the items of one request. Cases are numbered in order of
commit in place of their random identifiers, so a collision of those is
left out. `Assess` stands for the first update of a case by somebody else;
its own mutex and receipt are ArchiveService's business. The audit is kept over
a crash here and a failed append leaves nothing: what the file does is
ArchiveService's.

### EvidenceRules: loops over lists

A behaviour writes one list down, entry by entry, so every state is a list that
a client may send. `Loop` is a loop over a list, as the function that gives its
state after each entry; the operators are the loops of the code. `Sorted` puts a
list in the order of the two fields that matter of what the code compares.
Times are whole instants, and an interval is the set of instants it covers. The
loops and what they are compared with:

| operator | code | compared with |
|---|---|---|
| `Merged`, `Coverage`, `Verdict` | listening intervals, `domain/evidence.go` | the set of instants heard |
| `Affected` | defect impacts, `domain/v40.go` | the same set |
| `Review`, `SealRepeats` | review and its repetition at the seal | each other |
| `Scanned` | operation log with pauses, `domain/evidence.go` | the instants not paused |
| `SegmentsAccepted` | file segments, `domain/v40.go` | every instant in one segment |
| `TasksAccepted` | tasks and skipped facets | every facet once |
| `StableFrom` | climate before playback, `domain/refill.go` | readings inside all along |
| `Search` | pages of the audit search while the case grows | the events themselves |

## 3. Runs

All bounds are CONSTANTS in the cfg files.

| Run | Checks | Instance |
|---|---|---|
| `race` | types, mutexes, blind updates, at-most-once, durable answers, unique assets, audit order, sealing over a complete audit, restart, refinement of `ArchiveLedger`, and that every request is answered | two cases, two workers, six requests that meet on a revision, an id, an asset and a seal; one crash, two failed appends |
| `readers` | what readers report, with and without the mutex, quiet or overlapped | two cases, one worker, two readers, every kind of read, a request the audit table refuses; one crash, one failed append |
| `flow` | types, state against evidence, append-only evidence, refinement of `CaseProtocol`; `DutiesSeparated`, `RepeatedFailureEscalates`, `PassedCaseIsSealable` | either people who try several jobs (the operator as reviewer, remediator and officer; reviewers as authorizer, remediator and officer) over three generations with splices, countersigns, adjudications, revocations and renewals, 13 requests; or, over two, carriers with and without risks, plans with and without controls and windows, one or two tasks and plans, recordings of two lengths, with and without listening |
| `clock` | `AuthorizationSpentOnce`, `AuditAcceptsLifecycle`, `SealStaysVerified`, `CapturesFollowPlan` | three time units and three versions; or two plans with windows and one or two tasks; or two transfers at any time |
| `bookings` | `NoDoubleBooking`, `RecordingsApart` | two cases that want one operator at different devices, windows of one or two units, three units of time, two to the second |
| `competing` | unique identifiers, registered once, receipts, equal answers, checks that stay true, audit | two workers, five requests over four identifiers, with items that collide within a batch or are malformed; one crash, one failed append |
| `rules` | the loops against what the lists say | all lists of up to four entries (segments: three), audits of up to six revisions |

Why the bounds are enough to be interesting: two workers are what it takes for
a lost update, a duplicate in flight or a check overtaken by a commit, and the
request sets are chosen so that each of these meets (the same revision, the same
id with the same and with another content, the same asset or identifier). One
crash and two failed appends give a gap in the audit, a torn or unended line,
another after it, and a replay over either; as a client may resend at any time,
each is followed by retries. Three generations are what the repeated-failure
rule and the countersign of third generations need; four recapture records
give authorize, revoke, renew for one of them. Windows that end, while the
clock moves, between the decision on another plan and its check need two units
each and a clock of three; with two units to the second a window or a recording
may begin before the approval. A shared device is what a shared operator is
(`SharedResource` is symmetric), so the run has the latter only; the cases are
alike, so only one of them is sealed or recaptured (`OneGoesOn`). In the lifecycle and booking runs a case that is
sealed, or has used up `MaxRevision`, and a list that is full have nothing left
to do, so these runs do without the deadlock check; the service runs check
deadlock.

Everything at once is out of reach, so each behaviour of a lifecycle run varies
one thing and fixes the others, by a state constraint. In `flow` it is the people
or the evidence (`PeopleOrEvidence`): a behaviour with an unusual assessment,
plan or recording has the plainest choice of people and one recapture at most,
one with a window none and nothing else unusual but a revised plan,
one with a high playback risk or a corrected assessment has one recapture at most,
and the first generation is judged and recaptured in fewer ways than the later
ones. TLC checks a state that the constraint excludes before it drops it, so the
last of the 13 requests is checked too. `clock` follows one of three
concerns in each behaviour: `OneConcern` stops a behaviour
with custody or with several windows or tasks at eight requests and at time 3.
`readers` follows two readers at once only when both are dry runs (`OneQuestion`),
the only readers that leave anything for each other, and dry runs only while
no append fails (`DryRunsApart`), as they do not read the audit. Four intervals
are enough for each way two can overlap inside a third and a gap; the duration
of four units has a beginning, a middle and an end.

### Fairness

Only `EveryRequestAnswered` needs fairness (`FairSpec` in `race`).
`WF(Step(w))`: a goroutine that has started runs to its end; nothing in a handler
waits but the two mutexes. `SF(LockCreateMu(w))`, `SF(LockCase(w))`: a
`sync.Mutex` that a goroutine has waited on for a millisecond is handed to it
(starvation mode), so it is not passed over forever. Clients owe nothing: no
fairness on `Receive`.

### Where the documentation and the code part

Runs that are expected to find a counterexample; `findings` in `PROJECT.json`
quotes the sentence each contradicts.

| Run | What TLC shows |
|---|---|
| `revoked` | authorize, revoke, authorize: accepted by the domain, never again by the audit table |
| `transfers` | a transfer after registration: the seal's custody check fails for good |
| `first` | a case is assessed, and that audited, before its registration is audited: its audit never validates |
| `recheck` | a review of a generation whose captures differ in length is accepted, and refused by the seal |
| `waived` | a carrier without risks, planned for with `no_additional_controls`: the fingerprint is of an empty list that storage drops, and a passed case is never sealed |

The properties of the passing runs state what remains true despite these.
`AuditAcceptsLifecycle`: an authorization after a revocation is the only event
the table does not know. `PassedCaseIsSealable`: a passed case has the evidence
for its seal exactly unless a plan waived controls (`waived`), listening was
reviewed for captures of unequal length (`recheck`), or its damage ratios sum up
differently in another order. `SealRepeatsReview` is about captures of equal
length.

### Seen while modelling

None of these has a run; the sentence of the documentation, where there is one,
leaves room for them.

Requests and receipts:

- A request succeeds, the case is sealed, and its retry is answered "sealed":
  the router's gate comes before the receipt (`httpapi/server.go:566`), and so
  before the promise of `src/README.md:9` that a retry gets the first result.
- An append that fails after `CommitBatch` leaves registered cases without their
  first event, and the retry returns the receipt. `RegistrationsReachAudit`
  states what holds while no append fails.
- Two concurrent dry runs of a registration with one id can get different
  reports: they check and save under no mutex (`application/preflight.go:130`).
  Those of a capture look twice and agree (`DryRunsAgree`).

Evidence and people:

- A single capture completes the generation of a plan with several tasks, though
  the documentation has a generation submitted complete in one group.
- The first decision on a generation may be the operator's: `case.go:651-780`
  does not ask who reviews. Only second opinions are independent of the operator
  (`DutiesSeparated`).
- The officer of an escalation may have reviewed the earlier of the two failures:
  `domain/scale.go:443-452` looks at the people of the later one and at the
  authorizers. `src/README.md:59` asks for an independent person in charge
  (独立保存负责人) without saying of what. `RepeatedFailureEscalates` lists exactly
  who is excluded.
- A failure that was adjudicated counts with the categories of the adjudication,
  so a category that fails twice in a row may ask for no escalation;
  `RepeatedFailureEscalates` is about effective failures.
- Where coverage is insufficient the anomalies of a review are not looked at,
  so one outside every interval is stored (`domain/evidence.go:333`).
- Two pauses that meet at one instant (resume and pause) are rejected: at equal
  times a pause sorts before a resume.
- Equal intervals with different methods keep the order they were sent in, and
  so does the digest.
- Affected ratios are sums of floating-point numbers, made in the order sent and
  again in sorted order at the seal (`domain/v40.go:153`): if the last bit
  differs, the case cannot be sealed (`resums`).

Windows:

- A plan whose handler is overtaken by the end of another window is compared
  with it only when it no longer counts. `RecordingsApart` names this exception,
  `DecidedOverTheEnd`; it is reachable. Recaptures have no promise at all: the
  window of the plan is consumed by the first generation.
- A recording is accepted before it was made: `case.go:465-470` compares it with
  the plan and the window only, and the HTTP tests report recordings of the
  future. Its window is consumed at once, another case may book the same one,
  and the two recordings overlap. For the same reason, and because the approval
  is kept to the second, a recording may begin before its plan was approved. `RecordingsApart` is about
  recordings made between approval and report (`Timely`).

Readers:

- A reader without the mutex may call a case invalid between a commit and its
  append. `QuietReadsAreExact` is about readers that no handler overlaps,
  `LockedReadersAreExact` about those with the mutex: nothing but an
  authorization after a revocation makes a search report `integrity_error` while
  nothing has failed, and that always does.
- The audit search of a case whose registration is not yet in the audit, or after
  an append that failed for any other case, reports `integrity_error`.
- The custody chain compares the manifest with the digest of the chain at
  present (`application/extensions.go:59`), which later reads do not.
- `PreviewManifest` reads the head before it validates the chain
  (`application/extensions.go:310`); it fits because a chain that validates at
  the revision it read has had no event since.

## 4. Proofs

### The write path

For all cases, requests, workers, numbers of crashes and failed appends, from
the assumptions of `ArchiveService` (requests are well formed, `None` is none of
the values):

| Theorem | States | Module |
|---|---|---|
| `TypeCorrect` | `Spec => []TypeOK` | `ArchiveServiceProofs` |
| `MutexesAreHeldInside` | `Spec => []MutexesHeldInside` | |
| `JournalInvariant` | `Spec => []JournalInv` | |
| `NoUpdateIsBlind` | `Spec => []NoBlindUpdate` | |
| `RequestsApplyAtMostOnce` | `Spec => []AtMostOnce` | |
| `AnswersAreDurable` | `Spec => []AnswerIsDurable` | |
| `LogsOnlyGrow` | `Spec => CasesOnlyGrow` | |
| `AssetsAreUnique` | `Spec => []AssetsUnique` | |
| `HandlersImplementLedger` | `Spec => ImplementsLedger` | |

The argument: `LockInv` (both mutex levels are held exactly inside) gives mutual
exclusion per case. `NoBlindUpdate`, `AtMostOnce` and `AnswerIsDurable` are not
inductive: whether a commit keeps them depends on what the worker found out
several steps earlier. `JournalInv` adds that knowledge: receipts and logs
record the same requests (`ReceiptsMatchCases`), and what a worker has found
out is still true (`WorkersAreCurrent`): no receipt has appeared since it looked,
its copy is the stored case, or extends it by its own request. Every step of
another worker keeps this because it is of another case or leaves the store
alone; `CommitStore`, `CommitCurrent` and `CommitDurable` are the one step that
does not.

`LogsOnlyGrow` has no run of its own: the run checks it as a part of
`ImplementsLedger`, whose journals are the logs.

An asset is looked up before the mutex of the case and committed five steps
later: `AssetInv` says that until then no case holds it, which a commit can
break only by a capture, and every capture holds `createMu` all that way. The
refinement follows step by step from `JournalInv`: an accepted commit is `Apply`
of its request, a success answer is `Answer` of what the journal has, and every
other step, a failed append and a crash included, leaves journal and answers
alone.

### The audit

`ArchiveAuditProofs`, from the same assumptions:

| Theorem | States |
|---|---|
| `AuditFollowsTheCase` | `Spec => []AuditFollowsCase` |
| `AuditsAreComplete` | `Spec => []AuditComplete` |
| `RestartsKeepTheAudit` | `Spec => []RestartKeepsAudit` |
| `SealsAreOverCompleteAudits` | `Spec => []SealedOverCompleteAudit` |

`RecordInv` says of memory and of file alike that every event is one of a request
the case holds, in the order of revisions, and that a worker about to append
is ahead of all that either has of its case. It has to speak of the file,
torn lines and all, because a restart turns any decodable part of the file into
the memory. `FileInv` and `GapInv` are what holds until something fails: the file
is the memory line by line, and a case lacks at most the event that is about to
be appended. `AnchorInv` follows a seal from its decision to its commit: what
`Validate` accepts is complete because of `RecordInv`, and the mutex of the case
keeps it so.

### The readers

`ArchiveReadersProofs`, for all readers and read requests as well, and with the
assumption that receipts of dry runs are not `None`:

| Theorem | States |
|---|---|
| `ReadersLeaveTheServiceAlone` | `ReadSpec => Spec` |
| `DryRunsGetOneReport` | `ReadSpec => []DryRunsAgree` |
| `WhatReadersVerifyIsComplete` | `ReadSpec => []VerifiedMeansComplete` |
| `QuietReadersTellTheTruth` | `ReadSpec => []QuietReadsAreExact` |
| `LockedReadersReportExactly` | `ReadSpec => []LockedReadersAreExact` |

By the first one all that is proved of handlers holds next to readers.
`LockedReadersAreExact` needs `SealedIsValidated` (a sealed case, or one whose seal
is about to be committed, has no event the table refuses, as the seal validated
what came before it and nothing comes after) and `IntactUntilFault`: under the
mutex, until something fails, the file is complete and intact exactly if the
table knows every transition. `DryInv`
says that a report given is the saved one, and that a dry run on its way to save
has found none: it is the only one of its key, as the key names the case whose
mutex it holds. `SeenInv` relates what a reader has seen to what there is. A
sealed case is still as it was seen; a chain found complete still is, since
the only event it may have lacked, that of the seal, must have been there; a
quiet reader has seen case and audit as they are. `HeadOfComplete` says what
the head after the first events of a complete audit is: `HeadAt` counts, so it
needs the cardinality of a set of events. Here the proofs go beyond the run,
which keeps readers of different kinds apart.

### The bookings

`ReservationsProofs` proves, for all cases, workers, devices, operators, teams,
windows and bounds, from the assumptions of `Reservations`:

| Theorem | States |
|---|---|
| `BookingInvariant` | `Spec => []BookingInv` |
| `NothingIsBookedTwice` | `Spec => []NoDoubleBooking` |
| `FirstRecordingsAreApart` | `Spec => []RecordingsApart` |

The argument: all that plan, release and capture hold `createMu`, so of all
workers one is busy (`OneAtATime`), and the clone it has checked is compared
with cases that nobody plans meanwhile. `BookingInv` says of any two cases, and
of the clone a worker will commit and any other case, that they fit: what they
hold does not overlap (`BookedApart`), and neither do the windows of their plans,
whichever of the two was checked later, unless one was already lost (`Apart`).
That a window may end without anybody acting is harmless to the former
(`HeldFades`) and needs the latter to remember when a plan was decided and
checked: either the windows are apart, or the earlier one was no longer held by
then, and then it had been released, was over, or its first recording had been
reported (`OverBefore`). The invariant says nothing of when recordings were
made. `FirstRecordingsAreApart` adds what it needs of that as a premise (`Timely`):
a recording reported before a plan was decided was made before that, and the
recordings of the plan begin after it.

### Registration

`RegistryProofs`, for all workers, requests, cases and numbers of failures, from
the assumptions of `Registry` (requests are well formed; `None` is none of
the workers, identifiers, requests, numbers and receipts):

| Theorem | States |
|---|---|
| `RegistryInvariant` | `Spec => []RegistryInv` |
| `IdentifiersAreUnique` | `Spec => []IdentifiersUnique` |
| `RegistrationsHappenOnce` | `Spec => []RegisteredOnce` |
| `ReceiptsTellTheCases` | `Spec => []ReceiptsMatchCases` |
| `RetriesGetOneAnswer` | `Spec => []AnswersAgree` |
| `CheckedItemsStayFree` | `Spec => []CheckedStaysFree` |
| `RegistrationsAreAudited` | `Spec => []RegistrationsReachAudit` |

The argument: identifiers are compared in one step and committed in another, so
`IdentifiersUnique` alone is not inductive. `LockInv` says that of all workers one
registers at a time, and `Informed` that what that one has found out so far is
still true at every place of the handler: its key has no receipt, the
items it took for free are free in the store and of each other, and once it has
committed, what it will answer is its receipt. Dry runs take no mutex and are left out of `Informed`: they
save under keys of their own, and neither they nor `Assess` add a case. Cases are
numbered by commit, which is what lets `StoreInv` say that a receipt names
exactly the cases of its request. `AuditInv` says that no event is in two places:
in the audit or in the hands of a worker, so none is appended twice. Only an
append, a failure or a crash takes one out of hand, so until one of the last two
every case has its registration in one place or the other.

### One case

`CaseLifecycleProofs` and `CaseProtocolProofs`, for all staff, task sets, failure
categories, places and bounds. The assumptions are that staff are people, bounds and
times are natural numbers, a set of tasks is finite, that the clock and the revision may reach their initial value, that
`"decision"`, which stands for the reason of an adjudicated failure, is no
category, and that what is absent is none of the records:

| Theorem | States |
|---|---|
| `CaseInvariant` | `Spec => []CaseInv` |
| `LifecycleTypes` | `Spec => []TypeOK` |
| `StatesMatchEvidence` | `Spec => []StateMatchesEvidence` |
| `AuthorizationsSpentOnce` | `Spec => []AuthorizationSpentOnce` |
| `DutiesStaySeparated` | `Spec => []DutiesSeparated` |
| `RepeatedFailuresEscalate` | `Spec => []RepeatedFailureEscalates` |
| `CapturesKeepToPlan` | `Spec => []CapturesFollowPlan` |
| `AuditFollowsLifecycle` | `Spec => []AuditAcceptsLifecycle` |
| `SealsStayVerified` | `Spec => []SealStaysVerified` |
| `PassedCasesAreSealable` | `Spec => []PassedCaseIsSealable` |
| `EvidenceIsKept` | `Spec => EvidenceOnlyGrows` |
| `CasesImplementProtocol` | `Spec => ImplementsProtocol` |

The runs vary one concern each and fix the others; these theorems are about all
of them at once.

Hardly any of these properties is inductive: each speaks of one list of the case,
and requests are accepted by looking at another. `CaseInv`
has a conjunct for each part, and each says how that part hangs together with `state`:

| Conjunct | Says |
|---|---|
| `StageInv` | how far decisions are behind captures in each state, and how the last one ended |
| `QualityInv` | the g-th decision is that of the g-th generation, and all but the last have failed; opinions are there when the status says so |
| `CaptureInv` | every generation up to the current one has captures, and there are no others |
| `PlanInv` | plans are numbered without gaps, only the last may hold a window, and captures are of the last |
| `RecaptureInv` | an authorization is for the next generation until it is spent by that generation, and then it is the last record of it |
| `DutyInv` | who may not have given an opinion or an authorization, by the index of the decision |
| `TrailInv` | the last event of the audit that is not a transfer is one that leads to the present state |

`StateMatchesEvidence` and `PassedCaseIsSealable` count decisions and look them
up by generation, as the code does; `QualityInv` turns either into an index. The
latter is an equivalence, and needs two more invariants (`RepeatInvariant`):
`ControlsInv` says what the stored form of a plan kept of its risk controls, and
that controls were listed only for risks; `LengthsInv`, that a decision was
measured against the last capture of its generation. They turn each check the
seal repeats into one of the three exceptions, or into something that always holds.
`RepeatedFailureEscalates` is about the authorization a capture has spent, and
`DutyInv` about the time it was given: no request between the two touches the
decisions of earlier generations, and an opinion that could still change the
last one is no longer open. `TrailInv` is what `AuditAcceptsLifecycle` needs, as
the table of the audit looks back over custody transfers to the event before them.
`EvidenceIsKept` follows request by request from `CaseInv`, and so does
the refinement: `MappingOf` says what the evidence amounts to in each state (open
exactly when `CAPTURED`, permitted exactly when ready for a second or later generation),
then a capture is `CaptureFirst` or `CaptureAgain`, an opinion that settles a
decision is `Judge`, an authorization, renewal or revocation is `Permit`, `Withdraw`
or, if an expired authorization is renewed, nothing, and all else but plan and
seal is invisible.

### The lists

`EvidenceRulesProofs`, for lists of every length, from the assumptions of
`EvidenceRules` that its bounds are natural numbers, that a page holds at least one
event, and that an entry is what the code asks of one before it looks at the list
(an interval starts at 0 or later and ends after that, `domain/evidence.go:258`; an
operation lies within the capture, `evidence.go:176`; an order is not negative,
`domain/refill.go:136`):

| Theorem | States |
|---|---|
| `TypesAreKept` | `Spec => []TypeOK`, the types of list, audit and pages, defined there |
| `OverlapsAreCountedOnce` | `Spec => []OverlapsCountOnce` |
| `SealsRepeatReviews` | `Spec => []SealRepeatsReview` |
| `PausesAlwaysAddUp` | `Spec => []PausesAddUp` |
| `AcceptedListsAreProven` | `Spec => []AcceptedIsProven` |
| `PagesAreComplete` | `Spec => []PagesComplete` |

The argument is that of a loop: an invariant of its first `i` rounds. The provers
cannot instantiate an induction theorem with a predicate, so the induction is on
a set, that of the numbers of rounds after which the invariant holds: `Induction`
and `BoundedInduction` follow from the well-foundedness of the numbers.
`LoopExists` shows the same way that the recursive function `Loop` defines is
one: its value after a round is a step from its value before.

| Invariant | Says of a prefix of the list |
|---|---|
| `MergedWell` | the merged intervals are apart, cover exactly the instants of the intervals so far, and the last starts no later than the last of these |
| `MarkedWell` | the impact is the number of instants of the markers so far, and `maxEnd` is the latest of their ends |
| `PausesWell`, `ScannedWell` | of a log valid so far: the paused time is the number of instants that follow a closed pause and no resume, an open pause comes last, repairs lie in pauses |
| `LookedBack` | (of a suffix) all readings from `from` on are inside, and while the window is open `from` is the earliest read |
| `PageWell` | the page shows the matching events after the cursor, all of them, or if `more` those up to the last one shown |

The first three need the list in order: `SortedPermutes` says that `Sorted` is a
permutation of the list in order of its keys, which is a count, for each entry,
of those before it. That the reversed log is accepted as well is more: at one
instant several entries may have one rank. `SameKeys` says that two sorted
permutations of one list have the same key at each place, and `ScansAgree` that the
scan looks at nothing else. So `AcceptedInAnyOrder` proves independence of the
order of submission for every permutation, where the property names one.

`PagesComplete` alone is about a behaviour and not about one list. `WalkInv` adds
that, as long as all pages were verified, the events up to the cursor are
numbered without gaps and every other event has a revision beyond it: so
nothing is appended later behind a cursor that has skipped to the revision of
the case.

In the course of these proofs `Verdict` turned out to be a `CASE` whose guards
overlap, which leaves open which branch is taken; it is now the chain of returns
that the code is.

### Only model-checked

- `EveryRequestAnswered`, the liveness of the write path: out of the prover's reach.
- The counterexamples of the runs that expect one.

## 5. Not modelled

- Evidence rules that compare each item with a table or a threshold: fixity
  chunks, calibration measurements, channel metrics, damage locations,
  remediation checks. They keep no state and no item depends on another.
- `CustodyChain`, which adds a projection of the chain to reads that
  `ArchiveReaders` has.
- Decoding, field aliases, rendering, read models, search filters, statistics
  and reports: projections of one copy of a case.
- Process start. What `New` of store and audit do at a restart is `Crash`.
- Hashes: two equal records have equal digests and different ones different.
- Floating point: times are whole instants, ratios are fractions, and whether the
  damage ratios of an assessment sum up alike in any order is an input (`Summing`).
- Power loss: neither file is synced, so a failure of the machine may lose what
  a stop of the process, which is what `Crash` is, does not.

## 6. Plan

Written so far, in this order: `ArchiveLedger`, `ArchiveService`, its proofs,
`AuditChain`, `CaseLifecycle`, `Registry`, `Reservations`, `ArchiveReaders`,
`EvidenceRules`, the proofs about `Reservations`, those of the refinement, the
audit and the readers, those about `Registry` and `CaseLifecycle`, and
`CaseProtocol` with its refinement, and the proofs about `EvidenceRules`. Every
invariant and action property of a passing run is proved.

What could follow: an abstract calendar for the bookings, refined by
`Reservations` as `CaseProtocol` is by one case; and the evidence rules of section 5
that compare single items with tables.
