------------------------------ MODULE Flusher ------------------------------
(***************************************************************************)
(* Shipping a batch to S3: executeFlush of buffer.go, S3Flusher of         *)
(* s3_flusher.go, retry.Do of internal/retry and the object store behind   *)
(* them.  A flush uploads the compressed chunk, up to MaxAttempts times,   *)
(* then writes the chunk's index file once, best effort.                   *)
(*                                                                         *)
(* A batch is what flushJob carries: the entries and the service and time  *)
(* range the chunk will be filed under.  The object key is drawn once per  *)
(* flush (a fresh uuid), so the uploads of one flush overwrite each other  *)
(* and those of two flushes never do; batches in flight together share no  *)
(* entry, so a batch stands for its key.                                   *)
(***************************************************************************)
EXTENDS EntryFields, Naturals, Functions

CONSTANTS
  MaxAttempts,   \* retry.DefaultOptions.MaxAttempts, 3 in the code
  S3Faults       \* TRUE: an upload may fail, or succeed and seem to fail

ASSUME FlusherAssumption ==
  /\ Timestamp \in [Entry -> Nat]
  /\ DOMAIN Service = Entry
  /\ MaxAttempts \in Nat \ {0}
  /\ S3Faults \in BOOLEAN

VARIABLES
  flushing,      \* the executeFlush calls in progress
  chunks,        \* the chunk objects in S3
  indexes,       \* the index files in S3
  dropped        \* (history) the entries of batches that were given up

flusherVars == <<flushing, chunks, indexes, dropped>>

\* "" is the service of a buffer that has never held an entry.
ServiceName == Range(Service) \cup {""}

Batch == [entries : SUBSET Entry, service : ServiceName, minTime : Nat, maxTime : Nat]

\* byLoop: run by flushLoop, which Stop waits for, and not by a goroutine of its own.
Flush == [batch : Batch, byLoop : BOOLEAN, step : {"put", "index"}, attempt : Nat]

FlusherTypeOK ==
  /\ flushing \subseteq Flush
  /\ chunks \subseteq Batch
  /\ indexes \subseteq Batch
  /\ dropped \subseteq Entry

FlusherInit ==
  /\ flushing = {}
  /\ chunks = {}
  /\ indexes = {}
  /\ dropped = {}

\* What a reader may take from the name and the index of a chunk.
Describes(b) ==
  /\ \E e \in b.entries : Service[e] = b.service
  /\ \E e \in b.entries : Timestamp[e] = b.minTime
  /\ \E e \in b.entries : Timestamp[e] = b.maxTime
  /\ \A e \in b.entries : b.minTime <= Timestamp[e] /\ Timestamp[e] <= b.maxTime

\* The entries that a reader of the bucket can find.
Stored == UNION {b.entries : b \in chunks}

InFlight == UNION {f.batch.entries : f \in flushing}

NewFlush(batch, byLoop) ==
  [batch |-> batch, byLoop |-> byLoop, step |-> "put", attempt |-> 1]

----------------------------------------------------------------------------

\* PutObject succeeds.
PutOK(f) ==
  /\ f.step = "put"
  /\ chunks' = chunks \cup {f.batch}
  /\ flushing' = (flushing \ {f}) \cup {[f EXCEPT !.step = "index"]}
  /\ UNCHANGED <<indexes, dropped>>

\* PutObject returns an error, whether or not the object was stored: try again
\* while attempts are left, or return when the last one failed or the minute
\* allowed for the whole flush is over.  executeFlush then logs and forgets.
PutError(f) ==
  /\ S3Faults /\ f.step = "put"
  /\ chunks' \in {chunks, chunks \cup {f.batch}}
  /\ \/ /\ f.attempt < MaxAttempts
        /\ flushing' = (flushing \ {f}) \cup {[f EXCEPT !.attempt = @ + 1]}
        /\ UNCHANGED dropped
     \/ /\ flushing' = flushing \ {f}
        /\ dropped' = dropped \cup f.batch.entries
  /\ UNCHANGED indexes

\* Mutant: the index file is written while the chunk is still being uploaded.
IndexWriteEarly(f) ==
  /\ indexes' = indexes \cup {f.batch}
  /\ flushing' = flushing \ {f}
  /\ UNCHANGED <<chunks, dropped>>

\* index.Store.Write, tried once; its error is logged and the flush succeeds.
IndexWrite(f) ==
  /\ f.step = "index"
  /\ \/ indexes' = indexes \cup {f.batch}
     \/ S3Faults /\ UNCHANGED indexes
  /\ flushing' = flushing \ {f}
  /\ UNCHANGED <<chunks, dropped>>

FlushStep(f) == PutOK(f) \/ PutError(f) \/ IndexWrite(f)

\* The process dies with its flushes; the bucket stays.
FlushesLost == flushing' = {} /\ UNCHANGED <<chunks, indexes, dropped>>
=============================================================================
