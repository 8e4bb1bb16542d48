------------------------------- MODULE Buffer -------------------------------
(***************************************************************************)
(* The batching buffer (internal/ingester/buffer.go) with its two          *)
(* goroutines, tickLoop and flushLoop, the overflow goroutines that        *)
(* dispatchFlush starts when its queue is full, and the steps of Stop.     *)
(*                                                                         *)
(* Add, the body of a tick and Stop's final flush each run under b.mu from *)
(* end to end, so each is one step.  Stop's other steps take no lock and   *)
(* interleave with everything, the statements of its Reset too.            *)
(*                                                                         *)
(* That Reset and an Append meet in the file, whose writes and truncations *)
(* come one after the other, and in w.n, which nothing orders.  An Append  *)
(* is at the step of its write here; its n++ is later, and when that comes *)
(* to matter, at Reset's n = 0, StopRecount chooses between the orders in  *)
(* which the two can take effect.  inAppend is the entry whose Append may  *)
(* still be before its n++ then.                                           *)
(***************************************************************************)
EXTENDS WAL, Broker, Flusher

CONSTANTS
  Level,         \* Level[e], in lower case as Add compares it
  Size,          \* Size[e]: estimateSize
  MaxBytes,      \* opts.MaxBytes
  MinLevel,      \* opts.MinLevel in lower case, "" to accept everything
  FlushCap,      \* capacity of flushCh, 4 in the code
  UseWAL         \* opts.WAL is set

ASSUME BufferAssumption ==
  /\ Level \in [Entry -> STRING]
  /\ Size \in [Entry -> Nat \ {0}]
  /\ MaxBytes \in Nat
  /\ MinLevel \in STRING
  /\ FlushCap \in Nat \ {0}
  /\ UseWAL \in BOOLEAN

VARIABLES
  entries,       \* b.entries, as a set: nothing depends on their order
  sizeEst,
  minTime,
  maxTime,
  service,       \* the service of the first entry of the batch
  ticking,       \* the ticker is running
  tickPc,        \* tickLoop: in its select, about to lock b.mu, returned
  flushCh,       \* the queue of batches
  chClosed,      \* flushCh is closed
  loopDone,      \* flushLoop has returned
  stopPc,        \* the next step of Stop and of main's shutdown goroutine
  overflowed,    \* (history) entries handed to an overflow goroutine
  late,          \* (history) entries added after Stop's final flush
  inAppend       \* the last entry appended since then, in a set, while b.mu is held for it

contentVars == <<entries, sizeEst, minTime, maxTime, service>>
queueVars == <<flushCh, flushing, overflowed, ticking>>
loopVars == <<tickPc, chClosed, loopDone, stopPc>>
bufferVars == <<contentVars, flushCh, overflowed, ticking, loopVars, late, inAppend>>

StopSteps == {"run", "flush", "closeCh", "wait", "reset", "renew", "recount", "closeWAL",
              "shutdown", "exit"}

BufferTypeOK ==
  /\ entries \subseteq Entry
  /\ sizeEst \in Nat
  /\ minTime \in Nat
  /\ maxTime \in Nat
  /\ service \in ServiceName
  /\ ticking \in BOOLEAN
  /\ tickPc \in {"select", "fired", "returned"}
  /\ flushCh \in Seq(Batch)
  /\ chClosed \in BOOLEAN
  /\ loopDone \in BOOLEAN
  /\ stopPc \in StopSteps
  /\ overflowed \subseteq Entry
  /\ late \subseteq Entry
  /\ inAppend \subseteq Entry

Queued == UNION {b.entries : b \in Range(flushCh)}

\* Everything this process holds in memory.
InMemory == entries \cup Queued \cup InFlight

----------------------------------------------------------------------------
(* NewBuffer: an empty buffer, or one filled from the write-ahead log by   *)
(* addToBuffer, which counts no bytes.                                     *)

FreshLoops ==
  /\ ticking' = TRUE
  /\ tickPc' = "select"
  /\ flushCh' = <<>>
  /\ chClosed' = FALSE
  /\ loopDone' = FALSE
  /\ stopPc' = "run"

\* What addToBuffer leaves after replaying the entries of R, the first one `first`.
Replayed(R) ==
  /\ entries' = R
  /\ sizeEst' = 0
  /\ \/ R = {} /\ minTime' = 0 /\ maxTime' = 0 /\ service' = ""
     \/ \E first, earliest, latest \in R :
          /\ FirstRecovered(first)
          /\ \A e \in R : Timestamp[earliest] <= Timestamp[e] /\ Timestamp[e] <= Timestamp[latest]
          /\ service' = Service[first]
          /\ minTime' = Timestamp[earliest]
          /\ maxTime' = Timestamp[latest]

BufferInit ==
  /\ entries = {} /\ sizeEst = 0 /\ minTime = 0 /\ maxTime = 0 /\ service = ""
  /\ ticking = TRUE
  /\ tickPc = "select"
  /\ flushCh = <<>>
  /\ chClosed = FALSE
  /\ loopDone = FALSE
  /\ stopPc = "run"
  /\ overflowed = {}
  /\ late = {}
  /\ inAppend = {}

\* The memory of a process that is gone.
BufferLost ==
  /\ entries' = {} /\ sizeEst' = 0 /\ minTime' = 0 /\ maxTime' = 0 /\ service' = ""
  /\ FreshLoops
  /\ inAppend' = {}
  /\ UNCHANGED <<overflowed, late>>

----------------------------------------------------------------------------
(* dispatchFlush and addToBuffer.                                          *)

CurrentBatch ==
  [entries |-> entries, service |-> service, minTime |-> minTime, maxTime |-> maxTime]

\* Mutant: a batch that finds the queue full is dropped.
SendBatchOrDrop ==
  /\ ~chClosed
  /\ \/ Len(flushCh) < FlushCap /\ flushCh' = Append(flushCh, CurrentBatch)
     \/ Len(flushCh) >= FlushCap /\ UNCHANGED flushCh
  /\ ticking' = TRUE
  /\ UNCHANGED <<flushing, overflowed, chunks, indexes, dropped>>

\* The send of dispatchFlush: queue the batch or, when the queue is full, give
\* it to a goroutine of its own.  The ticker starts over, even a stopped one.
SendBatch ==
  /\ ~chClosed
  /\ \/ /\ Len(flushCh) < FlushCap
        /\ flushCh' = Append(flushCh, CurrentBatch)
        /\ UNCHANGED <<flushing, overflowed>>
     \/ /\ Len(flushCh) >= FlushCap
        /\ flushing' = flushing \cup {NewFlush(CurrentBatch, FALSE)}
        /\ overflowed' = overflowed \cup entries
        /\ UNCHANGED flushCh
  /\ ticking' = TRUE
  /\ UNCHANGED <<chunks, indexes, dropped>>

\* dispatchFlush sending on the closed channel panics: the batch is gone, for
\* the buffer was cleared first.
SendPanics ==
  /\ chClosed
  /\ ticking' = TRUE
  /\ dropped' = dropped \cup entries
  /\ UNCHANGED <<flushCh, flushing, overflowed, chunks, indexes>>

\* Mutant: the buffer keeps the entries it has handed over.
ClearBufferKeepsEntries ==
  sizeEst' = 0 /\ UNCHANGED <<entries, minTime, maxTime, service>>

\* Mutant: the size estimate is lowered by the limit instead of starting over.
ClearBufferSubtracts ==
  entries' = {} /\ sizeEst' = sizeEst - MaxBytes /\ UNCHANGED <<minTime, maxTime, service>>

ClearBuffer == entries' = {} /\ sizeEst' = 0 /\ UNCHANGED <<minTime, maxTime, service>>

\* Mutant: the bounds of the previous batch are widened, never started over.
FillStaleBounds(held, e) ==
  /\ entries' = held \cup {e}
  /\ minTime' = IF Timestamp[e] < minTime THEN Timestamp[e] ELSE minTime
  /\ maxTime' = IF Timestamp[e] > maxTime THEN Timestamp[e] ELSE maxTime
  /\ service' = IF held = {} THEN Service[e] ELSE service

\* addToBuffer, the buffer holding the entries of held.
Fill(held, e) ==
  /\ entries' = held \cup {e}
  /\ minTime' = IF held = {} \/ Timestamp[e] < minTime THEN Timestamp[e] ELSE minTime
  /\ maxTime' = IF held = {} \/ Timestamp[e] > maxTime THEN Timestamp[e] ELSE maxTime
  /\ service' = IF held = {} THEN Service[e] ELSE service

----------------------------------------------------------------------------
(* Add.                                                                    *)

levelPriority ==
  [debug |-> 0, trace |-> 0, info |-> 1, warn |-> 2, warning |-> 2,
   error |-> 3, fatal |-> 4, critical |-> 4]

\* A level the map does not know has Go's zero value.
Priority(level) == IF level \in DOMAIN levelPriority THEN levelPriority[level] ELSE 0

BelowMinLevel(e) == MinLevel # "" /\ Priority(Level[e]) < Priority(MinLevel)

\* Mutant: the entry at hand is not counted.
ExceedsOnceOver(e) == sizeEst > MaxBytes /\ entries # {}

Exceeds(e) == sizeEst + Size[e] > MaxBytes /\ entries # {}

\* Stop has taken the buffer's last batch.
FinalFlushDone == stopPc \notin {"run", "flush"}

\* Add writes to the log first and carries on whatever Append returns.  What it
\* has counted after the final flush it may have counted late.
LogFirst(e) ==
  /\ IF UseWAL THEN AppendEntry(e) ELSE UNCHANGED walVars
  /\ inAppend' = IF FinalFlushDone /\ logged' # logged THEN {e} ELSE {}

NoteLate(e) == late' = IF FinalFlushDone THEN late \cup {e} ELSE late

\* Add of an entry that fits: true.
AddFits(e) ==
  /\ ~BelowMinLevel(e) /\ ~Exceeds(e)
  /\ LogFirst(e)
  /\ Fill(entries, e)
  /\ sizeEst' = sizeEst + Size[e]
  /\ Publish(e)
  /\ NoteLate(e)
  /\ UNCHANGED <<queueVars, loopVars, chunks, indexes, dropped>>

\* Add of an entry that does not fit: the batch is dispatched first; true.
AddDispatches(e) ==
  /\ ~BelowMinLevel(e) /\ Exceeds(e)
  /\ LogFirst(e)
  /\ SendBatch
  /\ Fill({}, e)
  /\ sizeEst' = Size[e]
  /\ Publish(e)
  /\ NoteLate(e)
  /\ UNCHANGED loopVars

\* Mutant: Add publishes the entry before it makes room for it.
AddPanicsPublished(e) ==
  /\ ~BelowMinLevel(e) /\ Exceeds(e)
  /\ LogFirst(e)
  /\ SendPanics
  /\ ClearBuffer
  /\ Publish(e)
  /\ UNCHANGED <<loopVars, late>>

\* Add that has to dispatch after Stop closed the queue: it panics, and
\* net/http aborts the request.
AddPanics(e) ==
  /\ ~BelowMinLevel(e) /\ Exceeds(e)
  /\ LogFirst(e)
  /\ SendPanics
  /\ ClearBuffer
  /\ UNCHANGED <<loopVars, late, brokerVars>>

----------------------------------------------------------------------------
(* tickLoop and flushLoop.                                                 *)

\* Mutant: a one-shot timer, armed again only by a dispatch.
TickFireOnce ==
  /\ tickPc = "select" /\ ticking
  /\ tickPc' = "fired"
  /\ ticking' = FALSE
  /\ UNCHANGED <<contentVars, flushCh, flushing, overflowed, chClosed, loopDone, stopPc, late,
                 inAppend, chunks, indexes, dropped, walVars, brokerVars>>

\* The select takes a tick.
TickFire ==
  /\ tickPc = "select" /\ ticking
  /\ tickPc' = "fired"
  /\ UNCHANGED <<contentVars, queueVars, chClosed, loopDone, stopPc, late, inAppend,
                 chunks, indexes, dropped, walVars, brokerVars>>

\* The tick's body, under b.mu.
TickBody ==
  /\ tickPc = "fired"
  /\ tickPc' = "select"
  /\ inAppend' = {}
  /\ \/ /\ entries = {}
        /\ UNCHANGED <<contentVars, queueVars, chunks, indexes, dropped>>
     \/ /\ entries # {}
        /\ SendBatch
        /\ ClearBuffer
  /\ UNCHANGED <<chClosed, loopDone, stopPc, late, walVars, brokerVars>>

\* The tick's body would send on the closed queue: no one recovers the panic.
TickPanics == tickPc = "fired" /\ entries # {} /\ chClosed

\* The select takes <-b.done.
TickReturn ==
  /\ tickPc = "select" /\ stopPc # "run"
  /\ tickPc' = "returned"
  /\ UNCHANGED <<contentVars, queueVars, chClosed, loopDone, stopPc, late, inAppend,
                 chunks, indexes, dropped, walVars, brokerVars>>

LoopIdle == ~loopDone /\ \A f \in flushing : ~f.byLoop

LoopTake ==
  /\ LoopIdle /\ flushCh # <<>>
  /\ flushing' = flushing \cup {NewFlush(Head(flushCh), TRUE)}
  /\ flushCh' = Tail(flushCh)
  /\ UNCHANGED <<contentVars, overflowed, ticking, loopVars, late, inAppend,
                 chunks, indexes, dropped, walVars, brokerVars>>

LoopReturn ==
  /\ LoopIdle /\ flushCh = <<>> /\ chClosed
  /\ loopDone' = TRUE
  /\ UNCHANGED <<contentVars, queueVars, tickPc, chClosed, stopPc, late, inAppend,
                 chunks, indexes, dropped, walVars, brokerVars>>

\* Mutant: the log is truncated whenever a flush leaves nothing in memory.
RunFlushTruncatesLog ==
  /\ \E f \in flushing : FlushStep(f)
  /\ UNCHANGED <<bufferVars, brokerVars>>
  /\ IF UseWAL /\ InMemory' = {} THEN ResetWAL ELSE UNCHANGED walVars

RunFlush ==
  /\ \E f \in flushing : FlushStep(f)
  /\ UNCHANGED <<bufferVars, walVars, brokerVars>>

----------------------------------------------------------------------------
(* Stop, called once, by main's shutdown goroutine on SIGINT or SIGTERM.   *)

\* flushTicker.Stop and close(done).
StopTicker ==
  /\ stopPc = "run"
  /\ ticking' = FALSE
  /\ stopPc' = "flush"
  /\ UNCHANGED <<contentVars, flushCh, overflowed, tickPc, chClosed, loopDone, late, inAppend,
                 flusherVars, walVars, brokerVars>>

StopFlush ==
  /\ stopPc = "flush"
  /\ stopPc' = "closeCh"
  /\ \/ /\ entries = {}
        /\ UNCHANGED <<contentVars, queueVars, chunks, indexes, dropped>>
     \/ /\ entries # {}
        /\ SendBatch
        /\ ClearBuffer
  /\ UNCHANGED <<tickPc, chClosed, loopDone, late, inAppend, walVars, brokerVars>>

\* Mutant: Stop does not close the queue.
StopLeavesChOpen ==
  /\ stopPc = "closeCh"
  /\ stopPc' = "wait"
  /\ UNCHANGED <<contentVars, queueVars, tickPc, chClosed, loopDone, late, inAppend,
                 chunks, indexes, dropped, walVars, brokerVars>>

StopCloseCh ==
  /\ stopPc = "closeCh"
  /\ chClosed' = TRUE
  /\ stopPc' = "wait"
  /\ UNCHANGED <<contentVars, queueVars, tickPc, loopDone, late, inAppend,
                 chunks, indexes, dropped, walVars, brokerVars>>

\* Mutant: Stop does not wait for flushLoop.
StopWaitForNothing ==
  /\ stopPc = "wait"
  /\ stopPc' = "reset"
  /\ UNCHANGED <<contentVars, queueVars, tickPc, chClosed, loopDone, late, inAppend,
                 chunks, indexes, dropped, walVars, brokerVars>>

\* flushWg.Wait: flushWg counts flushLoop and nothing else.
StopWait ==
  /\ stopPc = "wait" /\ loopDone
  /\ stopPc' = "reset"
  /\ UNCHANGED <<contentVars, queueVars, tickPc, chClosed, loopDone, late, inAppend,
                 chunks, indexes, dropped, walVars, brokerVars>>

\* The truncate of Stop's Reset, without b.mu; if it fails Reset returns.
StopTruncate ==
  /\ stopPc = "reset"
  /\ \/ /\ UseWAL /\ EmptyFile
        /\ stopPc' = "renew"
        /\ stale' = TRUE
        /\ UNCHANGED <<encErr, walOpen, logged>>
     \/ /\ UseWAL => DiskFaults \/ ~walOpen
        /\ stopPc' = "closeWAL"
        /\ UNCHANGED walVars
  /\ UNCHANGED <<contentVars, queueVars, tickPc, chClosed, loopDone, late, inAppend,
                 chunks, indexes, dropped, brokerVars>>

\* The rewind and the new encoder; if the rewind fails Reset returns.
StopRenew ==
  /\ stopPc = "renew"
  /\ \/ /\ stopPc' = "recount"
        /\ encErr' = FALSE
     \/ /\ DiskFaults
        /\ stopPc' = "closeWAL"
        /\ UNCHANGED encErr
  /\ UNCHANGED <<lines, tail, walOpen, logged, stale>>
  /\ UNCHANGED <<contentVars, queueVars, tickPc, chClosed, loopDone, late, inAppend,
                 chunks, indexes, dropped, brokerVars>>

\* n = 0.  The n++ of an Append in progress has come before it, comes after it,
\* or has read n before it and writes it after.
StopRecount ==
  /\ stopPc = "recount"
  /\ stopPc' = "closeWAL"
  /\ \/ logged' = {}
     \/ logged' = inAppend
     \/ inAppend # {} /\ logged' = logged
  /\ stale' = FALSE
  /\ UNCHANGED <<lines, tail, encErr, walOpen>>
  /\ UNCHANGED <<contentVars, queueVars, tickPc, chClosed, loopDone, late, inAppend,
                 chunks, indexes, dropped, brokerVars>>

StopReset == StopTruncate \/ StopRenew \/ StopRecount

StopCloseWAL ==
  /\ stopPc = "closeWAL"
  /\ stopPc' = "shutdown"
  /\ IF UseWAL THEN CloseWAL ELSE UNCHANGED walVars
  /\ UNCHANGED <<contentVars, queueVars, tickPc, chClosed, loopDone, late, inAppend,
                 chunks, indexes, dropped, brokerVars>>
=============================================================================
