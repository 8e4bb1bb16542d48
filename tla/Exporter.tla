------------------------------ MODULE Exporter ------------------------------
(***************************************************************************)
(* Export jobs (internal/exporter, cmd/exporter/main.go).  POST /export    *)
(* takes a slot of the Pool and starts one goroutine that runs             *)
(* Exporter.Run: list the chunks of the days asked for, fetch and filter   *)
(* each, and bulk-index what matches into OpenSearch in batches, with      *)
(* retries.  DELETE /export/{id} cancels the job's context; SIGTERM        *)
(* cancels all of them, waits for the pool and shuts the server down.      *)
(*                                                                         *)
(* Run writes the job's fields without the registry's lock, Cancel with    *)
(* it, so the two writes to Status race.  The bucket does not change while *)
(* jobs run.                                                               *)
(***************************************************************************)
EXTENDS Selection, Sequences, FiniteSets, Functions

CONSTANTS
  Job,            \* the POST /export requests, each a job of its own uuid
  Criteria,       \* Criteria[j]: the job's service, start, end and label filters
  Bucket,         \* Bucket[k]: the chunk stored under k, filed by service and minTime
  BatchSize,      \* default_batch_size
  MaxConcurrent,  \* max_concurrent_jobs
  MaxAttempts,    \* retry.DefaultOptions.MaxAttempts, 3 in the code
  S3Faults,       \* TRUE: listing or fetching may fail
  OSFaults,       \* TRUE: a bulk request may fail, its items be refused, or its answer be lost
  Cancels         \* TRUE: clients send DELETE /export/{id}

ASSUME ExporterAssumption ==
  /\ IsFiniteSet(Entry) /\ IsFiniteSet(DOMAIN Bucket)
  /\ \A j \in Job : Criteria[j].start \in Nat /\ Criteria[j].end \in Nat
  /\ \A k \in DOMAIN Bucket :
       /\ Bucket[k].minTime \in Nat /\ Bucket[k].lines \in Seq(Entry)
       /\ \A e \in Range(Bucket[k].lines) : Bucket[k].minTime <= Timestamp[e]
  /\ BatchSize \in Nat \ {0}
  /\ MaxConcurrent \in Nat \ {0}
  /\ MaxAttempts \in Nat \ {0}
  /\ S3Faults \in BOOLEAN /\ OSFaults \in BOOLEAN /\ Cancels \in BOOLEAN

VARIABLES
  pc,             \* where the request, then the job's goroutine, is
  status,         \* job.Status; "torn" is what two racing writes may leave
  keys,           \* allKeys
  processed,      \* job.ChunksProcessed, also the loop's position
  pending,        \* pendingBatch
  sent,           \* a bulk request is on its way
  attempt,        \* the attempt it is, or the next one will be
  errors,         \* job.ErrorCount
  exported,       \* totalExported, a local variable of Run
  logsExported,   \* job.LogsExported, which only the end of Run assigns
  cancelled,      \* Cancel has returned true
  counted,        \* the status under which the pool's metric counted the job
  docs,           \* docs[j][e]: copies of e that j has put into OpenSearch
  refused,        \* refused[j][e] (history): copies that OpenSearch turned down
  failedBulk,     \* failedBulk[j] (history): a bulk request of j has failed
  slots,          \* slots taken: the length of p.sem
  waiting,        \* the counter of p.wg
  stopPc          \* main's shutdown goroutine

runVars == <<pc, keys, processed, pending, sent, attempt, errors, exported>>
exportVars == <<runVars, logsExported, status, cancelled, counted, docs, refused, failedBulk,
                slots, waiting, stopPc>>

Key == DOMAIN Bucket
InRun == {j \in Job : pc[j] \in {"start", "list", "next", "fetch", "drain"}}

ExporterTypeOK ==
  /\ pc \in [Job -> {"new", "invalid", "full", "slot", "start", "list", "next", "fetch",
                     "drain", "leaving", "done"}]
  /\ status \in [Job -> {"none", "pending", "running", "completed", "failed", "torn"}]
  /\ keys \in [Job -> Seq(Key)]
  /\ processed \in [Job -> Nat]
  /\ pending \in [Job -> Seq(Entry)]
  /\ sent \in [Job -> BOOLEAN]
  /\ attempt \in [Job -> 1 .. MaxAttempts]
  /\ errors \in [Job -> Nat]
  /\ exported \in [Job -> Nat]
  /\ logsExported \in [Job -> Nat]
  /\ cancelled \in [Job -> BOOLEAN]
  /\ counted \in [Job -> {"none", "completed", "failed"}]
  /\ docs \in [Job -> [Entry -> Nat]]
  /\ refused \in [Job -> [Entry -> Nat]]
  /\ failedBulk \in [Job -> BOOLEAN]
  /\ slots \in Nat /\ waiting \in Nat
  /\ stopPc \in {"run", "wait", "shutdown", "exited"}

ExporterInit ==
  /\ pc = [j \in Job |-> "new"]
  /\ status = [j \in Job |-> "none"]
  /\ keys = [j \in Job |-> <<>>]
  /\ processed = [j \in Job |-> 0]
  /\ pending = [j \in Job |-> <<>>]
  /\ sent = [j \in Job |-> FALSE]
  /\ attempt = [j \in Job |-> 1]
  /\ errors = [j \in Job |-> 0]
  /\ exported = [j \in Job |-> 0]
  /\ logsExported = [j \in Job |-> 0]
  /\ cancelled = [j \in Job |-> FALSE]
  /\ counted = [j \in Job |-> "none"]
  /\ docs = [j \in Job |-> [e \in Entry |-> 0]]
  /\ refused = [j \in Job |-> [e \in Entry |-> 0]]
  /\ failedBulk = [j \in Job |-> FALSE]
  /\ slots = 0 /\ waiting = 0
  /\ stopPc = "run"

----------------------------------------------------------------------------
(* What a job selects.                                                     *)

matchesJob(e, c) == Selects(e, c)

\* Mutant: the last day is left out.
timePrefixesOpen(c) == [service : {c.service}, day : Day(c.start) .. Day(c.end) - 1]

\* One for each day from start to end, below the service.
timePrefixes(c) == [service : {c.service}, day : Day(c.start) .. Day(c.end)]

KeyPrefix(k) == [service |-> Bucket[k].service, day |-> Day(Bucket[k].minTime)]

\* A prefix without a service has no slash before the day, and every key has one.
Listed(c) == {k \in Key : c.service # "" /\ KeyPrefix(k) \in timePrefixes(c)}

\* Keys come day by day and, within a day, by the unix time and uuid in them.
Listings(c) ==
  {s \in [1 .. Cardinality(Listed(c)) -> Listed(c)] :
     /\ IsInjective(s)
     /\ \A m, n \in DOMAIN s : m < n => Bucket[s[m]].minTime <= Bucket[s[n]].minTime}

\* The lines of the chunk that the job wants.
Matched(j, k) == Only(Bucket[k].lines, {e \in Entry : matchesJob(e, Criteria[j])})

----------------------------------------------------------------------------
(* Pool and Registry.                                                      *)

At(j, where) == stopPc # "exited" /\ pc[j] = where

Goto(j, where) == pc' = [pc EXCEPT ![j] = where]

\* jobCtx is done: cancelled by the client or, through its parent, by main.
CtxDone(j) == cancelled[j] \/ stopPc # "run"

\* POST /export: refused for its key, JSON or times, or a slot, or 503.  The
\* server serves until the process is gone.
Submit(j) ==
  /\ stopPc # "exited" /\ pc[j] = "new"
  /\ \/ Goto(j, "invalid") /\ UNCHANGED slots
     \/ /\ slots < MaxConcurrent
        /\ slots' = slots + 1
        /\ Goto(j, "slot")
     \/ /\ slots >= MaxConcurrent
        /\ Goto(j, "full")
        /\ UNCHANGED slots
  /\ UNCHANGED <<status, keys, processed, pending, sent, attempt, errors, exported,
                 cancelled, counted, logsExported, docs, refused, failedBulk, waiting, stopPc>>

\* The registry entry and the goroutine.
Launch(j) ==
  /\ At(j, "slot") /\ Goto(j, "start")
  /\ status' = [status EXCEPT ![j] = "pending"]
  /\ waiting' = waiting + 1
  /\ UNCHANGED <<keys, processed, pending, sent, attempt, errors, exported,
                 cancelled, counted, logsExported, docs, refused, failedBulk, slots, stopPc>>

\* Mutant: the slot is kept when the job failed.
ReturnKeepsSlot(j, result) ==
  /\ Goto(j, "leaving")
  /\ counted' = [counted EXCEPT ![j] = result]
  /\ slots' = IF result = "failed" THEN slots ELSE slots - 1

\* Run returns: the metric is counted and the slot given back.
Return(j, result) ==
  /\ Goto(j, "leaving")
  /\ counted' = [counted EXCEPT ![j] = result]
  /\ slots' = slots - 1

\* wg.Done, the last of the deferred calls.
Leave(j) ==
  /\ At(j, "leaving") /\ Goto(j, "done")
  /\ waiting' = waiting - 1
  /\ UNCHANGED <<status, keys, processed, pending, sent, attempt, errors, exported,
                 cancelled, counted, logsExported, docs, refused, failedBulk, slots, stopPc>>

----------------------------------------------------------------------------
(* Exporter.Run.                                                           *)

RunFails(j) ==
  /\ status' = [status EXCEPT ![j] = "failed"]
  /\ Return(j, "failed")
  /\ UNCHANGED <<keys, processed, pending, sent, attempt, errors, exported,
                 cancelled, logsExported, docs, refused, failedBulk, waiting, stopPc>>

\* The first statement of Run; written is what status then holds.
BeginRun(j, written) ==
  /\ At(j, "start") /\ Goto(j, "list")
  /\ status' = [status EXCEPT ![j] = written]
  /\ UNCHANGED <<keys, processed, pending, sent, attempt, errors, exported,
                 counted, logsExported, docs, refused, failedBulk, slots, waiting, stopPc>>

\* Every day was listed; a range without days makes no call that could fail.
ListOK(j) ==
  /\ At(j, "list") /\ Goto(j, "next")
  /\ ~CtxDone(j) \/ timePrefixes(Criteria[j]) = {}
  /\ \E s \in Listings(Criteria[j]) : keys' = [keys EXCEPT ![j] = s]
  /\ UNCHANGED <<status, processed, pending, sent, attempt, errors, exported,
                 cancelled, counted, logsExported, docs, refused, failedBulk, slots, waiting, stopPc>>

ListFails(j) ==
  /\ At(j, "list")
  /\ S3Faults \/ CtxDone(j)
  /\ timePrefixes(Criteria[j]) # {}
  /\ RunFails(j)

\* The top of the loop over allKeys.
NextChunk(j) ==
  /\ At(j, "next") /\ processed[j] < Len(keys[j])
  /\ \/ /\ ~CtxDone(j)
        /\ Goto(j, "fetch")
        /\ UNCHANGED <<status, keys, processed, pending, sent, attempt, errors, exported,
                       cancelled, counted, logsExported, docs, refused, failedBulk, slots, waiting, stopPc>>
     \/ CtxDone(j) /\ RunFails(j)

Fetching(j) == keys[j][processed[j] + 1]

FetchOK(j) ==
  /\ At(j, "fetch") /\ Goto(j, "drain")
  /\ Scannable(Range(Bucket[Fetching(j)].lines))
  /\ pending' = [pending EXCEPT ![j] = @ \o Matched(j, Fetching(j))]
  /\ UNCHANGED <<status, keys, processed, sent, attempt, errors, exported,
                 cancelled, counted, logsExported, docs, refused, failedBulk, slots, waiting, stopPc>>

\* The chunk cannot be fetched, decompressed or scanned: count it and go on.
FetchError(j) ==
  /\ At(j, "fetch") /\ Goto(j, "next")
  /\ S3Faults \/ CtxDone(j) \/ ~Scannable(Range(Bucket[Fetching(j)].lines))
  /\ errors' = [errors EXCEPT ![j] = @ + 1]
  /\ processed' = [processed EXCEPT ![j] = @ + 1]
  /\ UNCHANGED <<status, keys, pending, sent, attempt, exported,
                 cancelled, counted, logsExported, docs, refused, failedBulk, slots, waiting, stopPc>>

\* No full batch is left over from this chunk.
ChunkDone(j) ==
  /\ At(j, "drain") /\ Len(pending[j]) < BatchSize
  /\ Goto(j, "next")
  /\ processed' = [processed EXCEPT ![j] = @ + 1]
  /\ UNCHANGED <<status, keys, pending, sent, attempt, errors, exported,
                 cancelled, counted, logsExported, docs, refused, failedBulk, slots, waiting, stopPc>>

LoopOver(j) == At(j, "next") /\ processed[j] = Len(keys[j])

\* The end of Run, whatever went wrong on the way.
FinishRun(j, written) ==
  /\ LoopOver(j) /\ pending[j] = <<>>
  /\ status' = [status EXCEPT ![j] = written]
  /\ logsExported' = [logsExported EXCEPT ![j] = exported[j]]
  /\ Return(j, "completed")
  /\ UNCHANGED <<keys, processed, pending, sent, attempt, errors, exported,
                 docs, refused, failedBulk, waiting, stopPc>>

----------------------------------------------------------------------------
(* bulkIndexWithRetry and BulkIndex.                                       *)

\* A full batch inside the loop, or what is left after it.
BulkDue(j) ==
  \/ At(j, "drain") /\ Len(pending[j]) >= BatchSize
  \/ LoopOver(j) /\ pending[j] # <<>>

BulkLen(j) == IF Len(pending[j]) < BatchSize THEN Len(pending[j]) ELSE BatchSize

\* The copies of e at the positions I of the batch.
Copies(j, I, e) == CountAt(pending[j], I, e)

Stores(j, I) == docs' = [docs EXCEPT ![j] = [e \in Entry |-> docs[j][e] + Copies(j, I, e)]]

\* Mutant: the last entry of the batch stays behind.
TakeBatchLessOne(j) ==
  /\ pending' = [pending EXCEPT ![j] = SubSeq(@, BulkLen(j), Len(@))]
  /\ attempt' = [attempt EXCEPT ![j] = 1]
  /\ sent' = [sent EXCEPT ![j] = FALSE]

\* The batch leaves pendingBatch and the next one starts with a first attempt.
TakeBatch(j) ==
  /\ pending' = [pending EXCEPT ![j] = SubSeq(@, BulkLen(j) + 1, Len(@))]
  /\ attempt' = [attempt EXCEPT ![j] = 1]
  /\ sent' = [sent EXCEPT ![j] = FALSE]

\* An attempt; retry.Do has looked at the context first.
BulkSend(j) ==
  /\ BulkDue(j) /\ ~sent[j] /\ ~CtxDone(j)
  /\ sent' = [sent EXCEPT ![j] = TRUE]
  /\ UNCHANGED <<pc, status, keys, processed, pending, attempt, errors, exported,
                 cancelled, counted, logsExported, docs, refused, failedBulk, slots, waiting, stopPc>>

\* Mutant: the batch is not taken off before it is sent, so the loop repeats it.
BulkAbandonKeepsBatch(j) ==
  BulkDue(j) /\ ~sent[j] /\ CtxDone(j) /\ UNCHANGED exportVars

\* retry.Do returns the context's error.
BulkAbandon(j) ==
  /\ BulkDue(j) /\ ~sent[j] /\ CtxDone(j)
  /\ TakeBatch(j)
  /\ errors' = [errors EXCEPT ![j] = @ + 1]
  /\ UNCHANGED <<pc, status, keys, processed, exported,
                 cancelled, counted, logsExported, docs, refused, failedBulk, slots, waiting, stopPc>>

\* The request is answered 2xx.  Items refused in the answer are left out of the
\* count and nothing else happens to them.
BulkOK(j) ==
  /\ sent[j] /\ BulkDue(j)
  /\ \E I \in SUBSET (1 .. BulkLen(j)) :
       /\ OSFaults \/ I = 1 .. BulkLen(j)
       /\ Stores(j, I)
       /\ refused' = [refused EXCEPT ![j] =
            [e \in Entry |-> refused[j][e] + Copies(j, (1 .. BulkLen(j)) \ I, e)]]
       /\ exported' = [exported EXCEPT ![j] = @ + Cardinality(I)]
  /\ TakeBatch(j)
  /\ UNCHANGED <<pc, status, keys, processed, errors, logsExported, cancelled, counted,
                 failedBulk, slots, waiting, stopPc>>

\* Mutant: one attempt more than MaxAttempts.
BulkErrorOnceMore(j) ==
  /\ sent[j] /\ BulkDue(j)
  /\ OSFaults \/ CtxDone(j)
  /\ \E I \in SUBSET (1 .. BulkLen(j)) : Stores(j, I)
  /\ failedBulk' = [failedBulk EXCEPT ![j] = TRUE]
  /\ attempt[j] <= MaxAttempts
  /\ attempt' = [attempt EXCEPT ![j] = @ + 1]
  /\ sent' = [sent EXCEPT ![j] = FALSE]
  /\ UNCHANGED <<pc, status, keys, processed, pending, errors, exported,
                 cancelled, counted, logsExported, refused, slots, waiting, stopPc>>

\* The request fails, or its answer is lost, with any part of it carried out.
BulkError(j) ==
  /\ sent[j] /\ BulkDue(j)
  /\ OSFaults \/ CtxDone(j)
  /\ \E I \in SUBSET (1 .. BulkLen(j)) : Stores(j, I)
  /\ failedBulk' = [failedBulk EXCEPT ![j] = TRUE]
  /\ \/ /\ attempt[j] < MaxAttempts
        /\ attempt' = [attempt EXCEPT ![j] = @ + 1]
        /\ sent' = [sent EXCEPT ![j] = FALSE]
        /\ UNCHANGED <<pending, errors>>
     \/ /\ attempt[j] = MaxAttempts
        /\ TakeBatch(j)
        /\ errors' = [errors EXCEPT ![j] = @ + 1]
  /\ UNCHANGED <<pc, status, keys, processed, exported,
                 cancelled, counted, logsExported, refused, slots, waiting, stopPc>>

RunStep(j) ==
  \/ Launch(j) \/ Leave(j)
  \/ (BeginRun(j, "running") \/ FinishRun(j, "completed")) /\ UNCHANGED cancelled
  \/ ListOK(j) \/ ListFails(j)
  \/ NextChunk(j) \/ FetchOK(j) \/ FetchError(j) \/ ChunkDone(j)
  \/ BulkSend(j) \/ BulkAbandon(j) \/ BulkOK(j) \/ BulkError(j)

----------------------------------------------------------------------------
(* Cancellation and shutdown.                                              *)

\* Cancel of any job ever registered, running or not.
Cancel(j) ==
  /\ Cancels /\ stopPc # "exited" /\ pc[j] \notin {"new", "invalid", "full", "slot"}
  /\ cancelled' = [cancelled EXCEPT ![j] = TRUE]
  /\ status' = [status EXCEPT ![j] = "failed"]
  /\ UNCHANGED <<runVars, counted, logsExported, docs, refused, failedBulk, slots, waiting, stopPc>>

\* Cancel and Run write job.Status, two words, at the same moment.
CancelRaces(j) ==
  /\ Cancels
  /\ BeginRun(j, "torn") \/ FinishRun(j, "torn")
  /\ cancelled' = [cancelled EXCEPT ![j] = TRUE]

\* SIGINT or SIGTERM: cancel the parent context.
Signal ==
  /\ stopPc = "run" /\ stopPc' = "wait"
  /\ UNCHANGED <<runVars, status, cancelled, counted, logsExported, docs, refused, failedBulk, slots, waiting>>

\* Mutant: the pool is not waited for.
StopPoolAtOnce ==
  /\ stopPc = "wait" /\ stopPc' = "shutdown"
  /\ UNCHANGED <<runVars, status, cancelled, counted, logsExported, docs, refused, failedBulk, slots, waiting>>

\* pool.Stop returns.
StopPool ==
  /\ stopPc = "wait" /\ waiting = 0 /\ stopPc' = "shutdown"
  /\ UNCHANGED <<runVars, status, cancelled, counted, logsExported, docs, refused, failedBulk, slots, waiting>>

\* srv.Shutdown closes the listeners and main returns.
Exit ==
  /\ stopPc = "shutdown" /\ stopPc' = "exited"
  /\ UNCHANGED <<runVars, status, cancelled, counted, logsExported, docs, refused, failedBulk, slots, waiting>>

ExporterNext ==
  \/ \E j \in Job : Submit(j) \/ RunStep(j) \/ Cancel(j) \/ CancelRaces(j)
  \/ Signal \/ StopPool \/ Exit

ExporterSpec == ExporterInit /\ [][ExporterNext]_exportVars

\* A call whose context is cancelled returns; one whose context is not has no
\* deadline, so nothing is assumed of jobs before the signal.
ExporterFairness ==
  /\ \A j \in Job : WF_exportVars(stopPc # "run" /\ RunStep(j))
  /\ WF_exportVars(StopPool)
  /\ WF_exportVars(Exit)

ExporterFairSpec == ExporterSpec /\ ExporterFairness

----------------------------------------------------------------------------
(* Properties.                                                             *)

\* The chunks that a job's prefixes can lead to: those filed under its service,
\* in that spelling, and on no earlier day than that of its start.
Reachable(c) ==
  {k \in Key : /\ c.service # "" /\ Bucket[k].service = c.service
               /\ Day(Bucket[k].minTime) >= Day(c.start)}

\* How often e is to be exported: once for each matching line of such a chunk.
Share(j, e) == [k \in Key |-> Count(Matched(j, k), e)]
Wanted(j, e) == SumFunctionOnSet(Share(j, e), Reachable(Criteria[j]))

Indexed(j) == SumFunctionOnSet(docs[j], Entry)

\* ErrorCount is honest: a job that ran to its end without counting an error has
\* put every matching line of every reachable chunk into OpenSearch, or had it
\* refused there, across days, batches that span chunks, lines that do not fit
\* the scanner, retries of requests that were half carried out, and
\* cancellation in between.
ErrorsCounted ==
  \A j \in Job : counted[j] = "completed" /\ errors[j] = 0 =>
    \A e \in Entry : Wanted(j, e) <= docs[j][e] + refused[j][e]

\* LogsExported is honest: it never exceeds what is in OpenSearch, and a job that
\* ran to its end with no failed bulk request reports exactly that, whatever was
\* refused, could not be fetched or was cut short by a cancellation.  Any job
\* without a failed request has put no line in twice.
ExportedCounted ==
  \A j \in Job :
    /\ logsExported[j] <= Indexed(j)
    /\ ~failedBulk[j] =>
         /\ counted[j] = "completed" => logsExported[j] = Indexed(j)
         /\ \A e \in Entry : docs[j][e] <= Wanted(j, e)

\* The pool's two counts of its jobs agree with them on every path through
\* Submit and out of Run, between which each is ahead of the other in turn.
SlotsMatchJobs ==
  /\ slots = Cardinality(InRun) + Cardinality({j \in Job : pc[j] = "slot"})
  /\ slots <= MaxConcurrent
  /\ waiting = Cardinality(InRun) + Cardinality({j \in Job : pc[j] = "leaving"})

\* A signalled exporter ends: cancelled jobs leave every call and retry, and
\* requests still served after the signal do not keep pool.Stop waiting for ever.
ExporterStops == stopPc # "run" ~> stopPc = "exited"

----------------------------------------------------------------------------
(* The pool.                                                               *)

PhaseOf(where) ==
  CASE where \in {"new", "invalid"} -> "new"
    [] where = "full" -> "refused"
    [] where = "slot" -> "admitted"
    [] where \in {"leaving", "done"} -> "ended"
    [] OTHER -> "active"

StageOf(where) ==
  CASE where = "run" -> "open" [] where = "wait" -> "stopping"
    [] where = "shutdown" -> "closed" [] where = "exited" -> "gone"

Pool == INSTANCE BoundedPool WITH
  phase <- [j \in Job |-> PhaseOf(pc[j])],
  stage <- StageOf(stopPc)

\* The semaphore, the wait group, Run with its failures and retries, Cancel and
\* main's shutdown together keep the promises of BoundedPool.
KeepsPoolPromises == Pool!PoolSpec

----------------------------------------------------------------------------
(* What the documentation says, and the code does not do.                  *)

\* Registry.Cancel "returns true if the job existed and was cancelled": a job
\* that was reported as cancelled is never reported as completed.
CancelIsFinal == \A j \in Job : cancelled[j] => status[j] # "completed"
=============================================================================
