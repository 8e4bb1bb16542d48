# Verification of sigyn

sigyn is a log store in two Go processes. The **ingester** accepts log entries
over HTTP, batches them in memory behind a write-ahead log, uploads batches as
compressed chunks to S3 with a small index file each, and streams entries to
live-tail WebSockets. The **exporter** answers queries from S3 and runs export
jobs that copy matching entries from S3 to OpenSearch.

This directory holds TLA+ modules translated from that code, TLC configurations
that check them on small instances, and TLAPS proofs about them for instances of
any size. `PROJECT.json` lists the runs, the lines each definition models, the
hazards and the findings.

## Inventory

| Component | State | Operations | Hard because |
|---|---|---|---|
| WAL (`wal.go`) | file, encoder, count | Append, Reset, Recover, Close | torn lines, sticky encoder error, scanner limit, crash between any two steps |
| Buffer (`buffer.go`) | entries, size, time range, service, ticker, queue | Add, tick, dispatch, flush loop, Stop | three kinds of goroutine, a bounded queue that overflows, a channel that is closed while senders live |
| S3 flusher, retry (`s3_flusher.go`, `retry.go`, `s3.go`) | bucket | Flush: upload with retries, then index | ambiguous failures, order of the two objects |
| Handler, process (`handler.go`, `cmd/ingester`) | requests, process | POST /logs, signal, exit, restart | requests are served during shutdown |
| Broker, tail handler (`broker.go`, `cmd/ingester`) | subscriptions, channels | Subscribe, Publish, Unsubscribe, stream | full channels, clients that vanish |
| Export pool, registry, exporter (`internal/exporter`, `cmd/exporter`) | slots, jobs, contexts | Submit, Run, Cancel, SIGTERM | unlocked status, retries of half-done requests, cancellation anywhere |
| Label index and query (`index.go`, `query.go`, `parser.go`, `cmd/exporter`) | the query in progress | ParseLabelSelector, list, read index, fetch, answer | what is filed by first service and earliest day is looked up by day and label, in a bucket that changes meanwhile |
| Middleware | rate limiter tokens | access log, key check, limits | wraps the ResponseWriter that the upgrade needs |
| Config, logger, metrics, web UI | none that decisions read | | |

How they interact: the handler calls `Buffer.Add` once per entry; Add writes the
log, may dispatch a batch, buffers, and publishes to the broker, all under
`b.mu`. `tickLoop` dispatches under the same lock. `flushLoop`, and overflow
goroutines beside it, call the flusher without it. `main` calls `buf.Stop` and
then `srv.Shutdown`. The ingester and the exporter share nothing but the bucket.

What makes each part correct:

* WAL: what was counted as written is what a restart reads.
* Buffer: no entry leaves memory unaccounted for, none is in two batches, batches
  keep their limit and are described truthfully, entries do not linger, Stop ends.
* Flusher: an index file never precedes its chunk.
* Process: an accepted entry survives a kill at any moment, but for named cases.
* Broker: a client sees its entries in order, less exactly the dropped ones.
* Export: error and success counts are honest, slots come back, SIGTERM ends it.
* Query: an answer is right, an indexed and matching entry is found but for named cases, and
  what was skipped shows in the stats.

## Modules

```
LogEntries ── WAL ───────────────────────┐
           ── Broker ────────────────────┼─ Buffer ── Ingester ── MCIngester
           ── EntryFields ─┬─ Flusher ───┘               │ implements
                           │     └────────┐          DurableLog
                           └─ Selection ──┼─ Query ── MCQuery
                                  └─ Exporter ── MCExporter
                                         │ implements
WAL ── MCWAL      Broker ── MCBroker  BoundedPool

DataProofs (LogEntries) ─┬─ WALProofs (WAL) ── IngesterProofs (Ingester) ─┬─ DurabilityProofs ─┬─ RefinementProofs
                         └─ ExporterProofs (Exporter)                     └─ OnceProofs ───────┘
QueryProofs (Query)
```

`WAL` and `Broker` can be checked alone (`WALSpec`, `BrokerSpec`); their operations
constrain only their own variables and `Buffer` conjoins them. The one thing `Buffer` does to the log in steps of
its own is the `Reset` that `Stop` runs without the lock.

**WAL.** `lines` is the file, a sequence of lines; a line is the set of JSON
fragments between two newlines and parses only when it is one whole fragment.
`tail` is the unterminated last line. `encErr` is `json.Encoder`'s sticky error.
`logged` stands for `w.n` as a set. `Recovered` is what `Recover` would return now; it is nothing at all when a line is too long for the
scanner, by one entry of it (`Oversize`) or by several glued together (`LongTogether`). The operations are whole, as they are under the
lock that `wal.go:19` takes for granted. `stale` is a history variable: the file has been emptied and the count has not been started over, because `Reset` is on its way or its
rewind failed.

**Flusher.** A flush in progress is a record with the batch, its step and its
attempt. A batch stands for its object key: the key is drawn once per flush, so the
attempts of one flush overwrite each other. Backoff has no duration; the one-minute
limit may strike at any attempt.

**Buffer.** `Add` is `AddFits`, `AddDispatches`, `AddPanics` or, in `Ingester`,
`SkipEntry`. It is one step because it holds `b.mu` throughout and everything it
touches but the flush queue is protected by it; a receive from the queue commutes
with the rest. The tick is two steps (`TickFire`, `TickBody`) because Stop can run
between the select and the lock. `Stop` is eight steps; none but the final flush takes the lock, so requests and ticks fall between all of
them. Three of the eight are the statements of `Reset`: `StopTruncate`, `StopRenew` (the rewind and the new encoder) and `StopRecount` (`n = 0`). A late `Append`
meets them in two places. In the file, writes and truncations come one after the other, and the append is at the step of its write. Its `n++` comes later and is ordered with
`n = 0` by nothing, so `StopRecount` chooses: the count is zero, or the one entry counted after that, or, when the increment had read `n` before, what it was. `inAppend` is the entry whose
increment may still be out; it may be thought so for longer than it is, until the lock is next taken. A torn read of `w.enc` could only choose between
the old and the new encoder of the same file, and those are both there, before and after `StopRenew`. `entries` is a set: no decision
depends on the order inside a batch. Compression never fails (gzip and snappy write
to memory). `overflowed`, `late` and `dropped` are history variables that name the
ways an entry can be lost.

**Ingester.** A request is added entry by entry, so requests interleave. `Die` is what
a crash, a panic in `tickLoop` and a return from `main` have in common. `CrashInAdd`
kills the process inside `Append`. `Start` is `OpenWAL` and `NewBuffer` with replay. A
panic in a handler is recovered by net/http and only aborts its request. `Stop` is called once.

**Broker.** The handler's write succeeds or, once the client has gone, may fail.
`Hijackable` is the set of connections that can be upgraded. `main` puts every request
behind the access log, whose `statusWriter` cannot be hijacked, so there it is empty and nothing else
can happen; the runs look at the handler beneath. `Reading` is the set of clients that go on reading for as long as they are connected: `main.go:210` sets no write deadline, so
the handler of any other client may stay in `WriteMessage` for ever.

**Exporter.** `pc[j]` is where a job's goroutine is; a chunk's fetch and a bulk request are
in flight between two steps, so cancellation and the signal fall anywhere. The pool counts a job
twice, in the semaphore (`slots`) and in the wait group (`waiting`), at different moments of
`Submit` and of the deferred calls, and both are steps. Two unlocked
writes to `Status` at one moment may leave a torn string (`CancelRaces`). `exported` is the local `totalExported` of `Run` and `logsExported` the field of the job that clients read,
which is assigned at the end of `Run` and on no earlier return. Listing follows
`timePrefixes` and `chunkKey`: by service and day. `Get` and `List` change nothing and are
left out, as is the WaitGroup's own misuse check.

**Selection.** What both readers of the bucket share: the rule for wanted entries, days, and the
scanner that gives a chunk up at a line above 1 MiB.

**Query.** The request is checked as in `APIKeyAuth`, `handleQuery` and `ParseLabelSelector`, where a selector
is the sequence of the parts between its commas. Then each S3 call is a step: `ListDay`, `ReadIndex`,
`FetchChunk`, or its failure. Beside it an ingester flushes (`Flusher`, unchanged) and may die. Its
batches are a constant: any set that `Describes` allows, which `BatchesAreDescribed` proves of all batches of
`Ingester`; so the query is checked against what the ingester may produce without its state space.
`collectLabelSets` chooses among the results that Go's random map order allows, `DedupKeys` being the strings that a label set can yield; the string is drawn anew for every entry.
Index files come in any order within a day; in the code it is that of their names. `known` and `unread` are history variables. Queries
share no state, so one is enough.

**DurableLog** and **BoundedPool** are abstract specifications. `DurableLog` has one fate per entry, new, held, stored or lost, and lets a
held entry be lost only while a process is stopping or in the step that ends such a process: a crash alone loses nothing. `Ingester` implements it under
`FateOf`, which reads "held" as in memory or recoverable from the log. `BoundedPool` admits a job exactly when fewer than
`MaxConcurrent` hold a slot, closes only when none is active (`PoolSafety`), and closes in the end (`PoolSpec`, with fairness); the refinement is checked of
`ExporterFairSpec`, under `PhaseOf` and `StageOf`.

## Runs

| Run | Expected | Checks |
|---|---|---|
| `wal_faults` | pass | `TornWriteContained`: at most two logged entries are ever unreadable, until a `Reset` fails half way |
| `wal_torn` | violation | `LoggedSurvives`: an entry appended to an unterminated line is lost with it |
| `broker_live` | pass | `TailFaithful`, `TailDelivers`: in order, less exactly the dropped entries, nothing held back from a client that reads |
| `broker_cleanup` | violation | `TailCleansUp`: the handler of a client that left waits for an entry to write |
| `durable` | pass | `KeepsDurablePromises` (the refinement of `DurableLog`), `TypeOK`, `LogCountsRecoverable`, `LossAccounted`, `BatchesDescribed`, `IndexedChunksExist`, `NothingVanishes` with crashes, restarts, replay and failing uploads |
| `limit` | pass | `BatchesWithinLimit`, `BatchesDisjoint`, `TailShowsAccepted` with batches full to the byte, an entry above the limit, a request of two entries |
| `live` | pass | `EventuallyShipped`, `StopTerminates`, without a log, with throttled requests, skipped entries, failing uploads and a restart |
| `graceful_exit` | violation | `GracefulExitLosesNothing`: entries accepted during shutdown are lost |
| `export_jobs` | pass | `KeepsPoolPromises` (the refinement of `BoundedPool`), `ErrorsCounted`, `ExportedCounted`, `SlotsMatchJobs`, `ExporterStops`, `ExporterTypeOK` |
| `export_cancel` | violation | `CancelIsFinal`: a cancelled job is reported as completed |
| `query` | pass | `QuerySound`, `QueryComplete`, `StatsAdmitGaps`, `AbandonedQueryEnds`, `QueryTypeOK` |
| `query_range` | violation | `QueryCoversRange`: a chunk that begins before midnight is missed for the later day |

`LossAccounted` names three ways in which an accepted entry can be lost: its batch was given up (`dropped`), it went to a goroutine that Stop does not wait for
(`overflowed`), it came after the final flush (`late`).

`QueryComplete` names six ways in which an answer below its limit can lack an entry of a chunk that was indexed when the request came. In four the chunk cannot be found
(`Unfindable`): its day is earlier than that of the start, its service has a slash, it is filed under
another service, or its label sets leave the entry out (it has no labels, or its set was taken for another). In the other two it has a line too long to
scan, or S3 failed to return it or its index. `ErrorsCounted` speaks of the chunks within reach of an export:
chunks of an earlier day, of another spelling of the service, or of a job without a service are not, and nothing in the code counts them.

`ExportedCounted` is about `job.LogsExported`. It is what OpenSearch holds for a job that ran to its end without a failed bulk request, and never more for any
other; a job that failed or was cancelled between chunks reports 0, whatever it has put there.

The violations are disagreements between the code and what its documentation says; the
quotes are in `PROJECT.json`, findings. Others that the models show in a step or two, and
that have no run of their own:

* "All S3 writes and OpenSearch bulk-index operations retry up to 3 times" (README:494); the index file of a chunk is written once
  (`s3_flusher.go:56`), and a chunk whose index write failed is found by no query.
* A cancelled or failed export job reports `logs_exported` 0 though OpenSearch may hold its documents: `Run` returns at `exporter.go:63-67` without the assignment of line 103.
* `Stop` says "Truncate WAL now that all flushes have completed" (`buffer.go:269`); `flushWg` does not
  count the goroutine of `buffer.go:212`. `LossAccounted` names these entries `overflowed`.
* "After a successful S3 flush the WAL is truncated" (`wal.go:17`); only `Stop` calls `Reset`, so a restart
  after a crash uploads stored entries again.
* "If an S3 flush fails, the buffer is **not cleared**. Entries remain in memory (and WAL) for retry on the next flush
  cycle" (README:498); `dispatchFlush` clears it first (`buffer.go:202`) and `executeFlush` does not put the batch back. The
  entries are in the log only, to be replayed after a crash or truncated by Stop: `LossAccounted` names them `dropped`.
* `index_files_scanned` is set to the number of files matched (`query.go:71`), not read. A value with a comma is cut there by the
  selector parser (`parser.go:20`). An index file that cannot be read shows in no count (`index.go:68`).
* "Concurrency: all methods are called while the Buffer mutex is held, so no additional locking is needed" (`wal.go:19`); `Stop` calls `Reset` and `Close` without it (`buffer.go:271`). An `Append`
  of a late request between the truncate and `n = 0` leaves `w.n` different from what the file holds: `LoggedRecoverable` fails at `StopRecount`. Only the gauge reads the count.
* "collectLabelSets extracts the unique label combinations from a batch of entries" (`buffer.go:306`); names and values are joined without escaping (`buffer.go:317`), so `{env: "prod,tier=web"}` may be taken for
  `{env: "prod", tier: "web"}` and the chunk is not indexed under the second. `QueryComplete` names these entries in `Unfindable`.
* Replay does not add to `sizeEst` (`buffer.go:76`), so a replayed batch grows past `MaxBytes`.
* One line above 1 MiB makes `Recover` return nothing (`wal.go:83`).
* Behind `AccessLog` the upgrade of `/tail` is refused, since `statusWriter` is no `http.Hijacker` (`middleware.go:93`).
* Cancelling a completed export turns it into a failed one (`registry.go:51`); SIGTERM aborts export jobs, where the
  README says it drains them (`cmd/exporter/main.go:164`); items that OpenSearch refuses are neither retried
  nor counted (`opensearch.go:107`); a job without a service lists no chunk (`exporter.go:202`).

### Bounds

Two requests of one or two entries, a queue of one batch, a batch limit of one or two bytes: the smallest values with which a batch is full, the queue is full, an
overflow goroutine runs beside `flushLoop` and another request is being served, all at once. In `limit` the entries have one, one and three bytes and the limit is two: one batch is full to the byte with two entries,
and one entry exceeds the limit alone; there a request of two entries is overtaken, or ends in a panic, between them. In `durable` batches of two entries come from replay. Two lives of the process suffice for a crash, a replay and a second
upload of what was replayed. Two attempts have a first, a retried and a last one; the runs
about other things have one. Four entries in the log leave room for a torn line, the one glued to it
and others around them. Channels of one or two entries fill. The export bucket has a chunk that ends in the middle
of a batch, a short last batch, a second day, an entry stored twice as replay leaves it, a chunk that begins before midnight, a line
too long, and entries that must not be exported. The query run has four batches, one for each thing that
can go wrong with one (two label sets that look alike, midnight, a slash, a long line), an entry stored twice, and three selections that between them want them
by range, service, label, level and limit. `MaxLives` bounds restarts; requests, jobs, batches and queries are sent once; nothing else is bounded.

The subscriber of `limit` matches one entry, since `broker_live` covers several; uploads fail in `durable` and `live` and not in `limit`,
whose properties are proved for failing ones too. A disk that fails is for `wal_faults`; inside the ingester it is for the proofs, which allow for one in every theorem that does not say otherwise, as in every run the log there is whole, absent or closed under late requests; the flushes beside a query fail by dying, which leaves the same
buckets as failing calls.

Deadlock is not checked where requests, lives or jobs are bounded: the system then really
stops. In the log's runs it is checked.

### Fairness

`FairSpec` assumes that goroutines that can run are scheduled, that a running ticker fires,
that S3 calls return (the flusher gives each flush a minute) and that a handler in its loop
goes on. Nothing is assumed of clients, signals, crashes and restarts. `BrokerSpec` assumes that the handler's goroutine runs, and
of `WriteMessage` only that it returns for a client in `Reading`: there is no write deadline, so the handler of a connected client that does not read may be blocked for ever, and
`broker_live` has such a client beside the one whose entries must arrive.
`ExporterFairSpec` assumes progress of jobs only after the signal, when their context is
cancelled and every call returns: before it the export calls have no deadline. For the same reason `QuerySpec` assumes
progress of a query only once its client has gone.

## Proofs

The theorems hold for any sets of entries, requests, jobs and subscribers, any capacities and
limits, under the named assumptions on the constants (`WALAssumption` and so on). Most of these only give the
constants their types (a set in `LongTogether` has two fragments, as one alone is `Oversize`'s matter). Three say more: in `IngesterAssumption` the entries of all bodies are pairwise distinct, because an entry is
one submission of a line and not its text; in `QueryAssumption` the batches are finite and are what `Describes` allows, the latter being the theorem
`BatchesAreDescribed` about the ingester; in `ExporterAssumption` the entries and the chunks of the bucket are finitely many, without which there is no
number of lines to export, and no line of a chunk is earlier than the time it is filed under, which is part of `Describes` again. Where a theorem needs a working disk, it says so as a hypothesis.

**Data.** `DataProofs` has what the other modules need of sequences and sums. The provers cannot instantiate an induction principle whose parameter is a
predicate; one whose parameter is the *set* of the numbers, subsets or elements that have the property is first-order, and `NumberInduction`, `PartInduction` and
`ElementInduction` are stated that way. From them follow what the recursive definitions compute: how `SumFunctionOnSet` grows with an element
and with the set, and how two sums compare or add up term by term; what `Only` takes of a sequence with one element more, and that it depends only on which elements of the sequence are chosen; and how often an element
occurs in a concatenation, a prefix or the rest of a sequence (`Count`).

**Log.**

* `WALProofs!AppendIsDurable`: for the log under its lock, `WALSpec => []LoggedRecoverable` when the disk has no faults and
  no entry is oversize. The invariant adds that every line is one whole fragment and that there is no unterminated
  one: an append then adds exactly its entry to what is recovered.
* `WALProofs!DamageIsContained`: `WALSpec => []TornWriteContained`, with any faults. A bound on a number of entries
  is not inductive; the invariant `TornInv` is. It says that the entries lost lie among two, and that as long as the encoder has not
  failed, an unterminated line was found at the start and has cost nothing yet. One write costs at most the entry of the unterminated line (`WriteCosts`), and
  it either ends that line or is the encoder's last. An entry that is whole in the file is on a line of its own or was glued to another (`TornContains`).

**Ingester.**

* `IngesterProofs!TypeCorrect`: `Spec => []TypeOK`, one lemma per operation of each component.
* `IngesterProofs!BatchesAreDescribed`: a non-empty buffer is described by its fields; a dispatch copies
  them into the batch, and batches never change afterwards. Replay needs that its first entry is one of those recovered.
* `IngesterProofs!IndexFollowsChunk`: strengthened by "a flush at its index step has its chunk in the bucket".
* `DurabilityProofs!NothingEverVanishes`: an action property; each operation moves a batch from the
  buffer to the queue or a goroutine, from there to the bucket or to `dropped`.
* `DurabilityProofs!LossIsAccounted`: `LossAccounted` alone is not inductive, since the truncation by Stop
  removes entries from the log. The invariant adds what holds at each step of Stop: after the final flush,
  what is in the buffer came late; once `flushLoop` has returned the queue is empty and no flush of its own runs; and in every state an accepted
  entry outside the log is in the bucket, given up, overflowed, late or, after the truncation, accounted for without the log.
* `OnceProofs!HeldInOnePlace`: `BatchesDisjoint` says nothing of what is still to come, so it needs `FreshInv`: what a handler has yet
  to add is neither accepted nor in memory, in the bucket or in the log. For that one has to know what every step does to the log, since replay brings back
  what was written there, and that a dead process holds nothing (`GoneInv`).
* `OnceProofs!TailShowsOnlyAccepted`: `SeenInv` looks at all that a subscription has shown, has in hand and has in its channel as one sequence, and says
  that it is injective and accepted; an entry is published in the step that accepts it, when by `FreshInv` it is in none of them.
* `OnceProofs!BatchesKeepToLimit`: `LimitInv` says that in a first life `sizeEst` is the sum of the sizes of the entries in the buffer, and that more than one of them fit. That
  the sum grows by the size of the entry added rests on `FreshInv` again: an entry that was there already would be counted twice.
* `OnceProofs!TailIsFaithful`, for the broker alone, and `OnceProofs!IngesterTailIsFaithful`, for the broker in the ingester: `TailFaithful` says nothing of connections that are
  not open. `FaithInv` adds that nothing is kept for a connection before it is made, that the handler has something in hand only while it writes, and that only what was owed can have been
  missed: so an entry published for the first time is among neither, and appending it to what is owed, and to the channel or to what is missed, keeps the two
  in step. In the ingester that it is the first time follows from `FreshInv`, because only what was accepted has been owed (`OwedInv`).
* `OnceProofs!IngesterDrivesLog`: `Spec => WALInit /\ [][StopReset \/ WALNext]_walVars`. The log on its own allows an append only of an entry that is not in the file and a start only when the log is closed; `FreshInv` and
  `ClosedInv` show that the ingester keeps to this, whatever handlers, Stop, crashes and restarts do. It is not `WALSpec`: the statements of the `Reset` that Stop runs without the lock are no step of a log that is called under one.
  So what is proved of the log does not hold of the process as it stands: `LogCountsRecoverable` is false without its `BeforeReset`.
* `OnceProofs!IngesterLogIsDurable`: `Spec => []LogCountsRecoverable`, on a disk without faults and with lines that fit: the count is right until Stop empties the file (`BeforeReset`). An open log that is before
  the truncate after a step was there before it (`BeforeResetStep`), so that up to there the steps are those of the log alone. That a restart is right again needs a file of complete lines through the race as well (`LogClean`, `CleanInductive`).
* `OnceProofs!IngesterDamageIsContained`: `Spec => [](BeforeReset => TornWriteContained)`, with any faults, along the same argument from `TornInv`.
* `RefinementProofs!IngesterIsDurable`: `Spec => KeepsDurablePromises` on a working log. `RefinementInv` joins the invariants above with `HeldInv`: until a
  process is told to stop, all it has in memory can be recovered. Each step is then described by what it does to the held and the stored entries (`DurableStep`):
  an accepted entry is new and becomes held, an upload moves held entries to the bucket, a restart changes nothing, and only a stopping process lets go of any.

**Exporter.**

* `ExporterProofs!SlotsAreCounted`: every step leaves the pool alone, is one of main's, or moves one job between places and changes the two counts by as much as
  the sets they count (`PoolStep`, `SizeChanges`). That these sets are finite is part of the invariant, so the number of jobs may be infinite.
* `ExporterProofs!ExporterIsBounded`: `ExporterSpec => Pool!PoolSafety`. `SlotsMatchJobs` makes the code's comparison of `slots` the abstract one of
  the jobs that hold a slot, and `waiting = 0` says that none is in Run.
* `ExporterProofs!ExporterTypes`, `ErrorsAreCounted` and `ExportsAreCounted` come from one invariant, `ExportInv`, of every job. `Walk` says where it is in its loop: it has listed
  each chunk once, and one that counts as completed has passed them all with nothing pending. `Account` says, for every entry, how the copies it has handled (indexed, refused or pending) compare
  with those that the chunks passed so far hold: no fewer while no error was counted, no more while no bulk request failed; and that the running total is what OpenSearch holds, or less after a failed
  request. `ReportInv` carries this over to `job.LogsExported`, which is that total once the job counts as completed and zero before and in every other end. A retried batch that was half indexed is what separates the two cases. At the end the chunks passed are those listed, and a chunk that is within reach and not
  listed has nothing that the job wants (`ListedIsWanted`).

**Query.** All four theorems come from `QueryInv`, whose parts are inductive in this order:

* `ShipInv`: a batch is flushed once, stored before it is indexed, and what its index says is then final.
* `IndexInv`: days are listed in order, so no index file is read for two of them and `found` has no repetition.
* `CoverInv`: an index file that was there when the request came is still to be listed or read, was found or could not be read, or is one that the query passes over.
* `FetchInv`: of every chunk passed, the answer has all that is wanted, or the stats are behind and the chunk could not be had.
* `OriginInv`: a function from the places in the answer to those in `found` tells where each entry came from, and no chunk gives one twice.

`QueriesAreComplete` follows from the first four, as a file whose day is after the last one listed holds nothing wanted; `StatsAreHonest` from `FetchInv`;
`AnswersAreSound` from `OriginInv`, which makes the copies of an entry an injection into the chunks that hold it.

The invariants of `OnceProofs`, `QueryProofs` and the account of an export were checked by TLC on the instances of the runs before they were proved.

**Only model-checked.** Every invariant and action property of the passing runs is stated by a theorem. The liveness properties (`TailDelivers`, `EventuallyShipped`, `StopTerminates`, `ExporterStops`,
`AbandonedQueryEnds`, and the part of `KeepsPoolPromises` that says that the pool closes) are TLC's: they need fairness and ENABLED. The violations are TLC's too.

## Not modelled

Configuration, logger, metrics and web UI (they keep no state that a decision reads; the values that `Load` defaults and validates
are the constants of the modules, and their assumptions are what it guarantees); `GET /export` and `/health` (they only read);
compression and JSON (abstracted to what they preserve); real time (backoff, ticker period, the refill of the rate limiter: any request may be
throttled); the end of the exporter process under a running query (it gives no answer).

## Plan

1. Done: the ingester with its log, broker and flusher; the exporter; the proofs above.
2. Done: the query engine over a changing bucket, the middleware's refusals, the two abstract specifications and their refinements.
3. Done: proofs of the log's containment, of the disjoint batches and the tail, of the refinement of `DurableLog` and the safety of `BoundedPool`, and of the query.
4. Done: the lemmas about sums, selections and counts, and with them the limit on batches, the faithful tail, and the type and the accounts of the exporter; the log's theorems inside the ingester.
5. Done: `Stop`'s unlocked `Reset` statement by statement, and what then still holds of the log in the process; clients that do not read; the reported `LogsExported`; batches at the limit.
