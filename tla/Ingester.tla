------------------------------ MODULE Ingester ------------------------------
(***************************************************************************)
(* The ingester process: the POST /logs handler (handler.go), the buffer   *)
(* with its log, broker and flusher, the shutdown goroutine of             *)
(* cmd/ingester/main.go, and what surrounds the process: clients, signals, *)
(* crashes and restarts.                                                   *)
(*                                                                         *)
(* main calls buf.Stop before srv.Shutdown, so requests are served all     *)
(* through Stop; and main returns as soon as Shutdown has closed the       *)
(* listeners, killing whatever handler or flush is still running.          *)
(***************************************************************************)
EXTENDS Buffer

CONSTANTS
  Request,          \* the POST /logs requests clients make, each sent once
  Body,             \* Body[r]: the decoded entries, each a submission of its own; <<>>
                    \* also stands for a request refused for its key, method, size or JSON
  MaxEntriesPerReq,
  RateLimit,        \* TRUE: rate_limit_rps > 0; the tokens left depend on the clock
  Crashes,          \* TRUE: the process may be killed at any moment
  MaxLives          \* bound on how often the process is started

ASSUME IngesterAssumption ==
  /\ Body \in [Request -> Seq(Entry)]
  /\ \A r, q \in Request : \A i \in DOMAIN Body[r], k \in DOMAIN Body[q] :
       Body[r][i] = Body[q][k] => r = q /\ i = k
  /\ MaxEntriesPerReq \in Nat \ {0}
  /\ RateLimit \in BOOLEAN
  /\ Crashes \in BOOLEAN
  /\ MaxLives \in Nat \ {0}

VARIABLES
  proc,             \* "up", or how the last process ended
  lives,            \* how often the process has been started
  reqPc,            \* where the handler of each request is
  pos,              \* pos[r]: the index of the entry the handler is at
  accepted          \* the entries for which Add returned true

serverVars == <<proc, lives, reqPc, pos, accepted>>
vars == <<walVars, brokerVars, flusherVars, bufferVars, serverVars>>

ServerTypeOK ==
  /\ proc \in {"up", "crashed", "exited"}
  /\ lives \in Nat
  /\ reqPc \in [Request -> {"new", "adding", "refused", "aborted", "lost", "done"}]
  /\ pos \in [Request -> Nat \ {0}]
  /\ accepted \subseteq Entry

TypeOK ==
  WALTypeOK /\ BrokerTypeOK /\ FlusherTypeOK /\ BufferTypeOK /\ ServerTypeOK

Init ==
  /\ WALInit /\ BrokerInit /\ FlusherInit /\ BufferInit
  /\ proc = "up"
  /\ lives = 1
  /\ reqPc = [r \in Request |-> "new"]
  /\ pos = [r \in Request |-> 1]
  /\ accepted = {}

----------------------------------------------------------------------------
(* The handler.                                                            *)

\* middleware.RateLimit: a token bucket, empty or not as the clock has it.
LimiterMayRefuse == RateLimit

\* A request passes the middleware and is checked, or is refused by either.
Receive(r) ==
  /\ proc = "up" /\ stopPc # "exit" /\ reqPc[r] = "new"
  /\ \/ /\ Body[r] # <<>> /\ Len(Body[r]) <= MaxEntriesPerReq
        /\ reqPc' = [reqPc EXCEPT ![r] = "adding"]
     \/ /\ LimiterMayRefuse \/ Body[r] = <<>> \/ Len(Body[r]) > MaxEntriesPerReq
        /\ reqPc' = [reqPc EXCEPT ![r] = "refused"]
  /\ UNCHANGED <<walVars, brokerVars, flusherVars, bufferVars, proc, lives, pos, accepted>>

\* The handler is about to add e.
At(r, e) ==
  /\ proc = "up" /\ reqPc[r] = "adding"
  /\ pos[r] <= Len(Body[r])
  /\ e = Body[r][pos[r]]

Advance(r) == pos' = [pos EXCEPT ![r] = @ + 1]

\* Add returned false.
SkipEntry(r, e) ==
  /\ At(r, e) /\ BelowMinLevel(e)
  /\ Advance(r)
  /\ UNCHANGED <<walVars, brokerVars, flusherVars, bufferVars, proc, lives, reqPc, accepted>>

\* Add returned true.
AcceptEntry(r, e) ==
  /\ At(r, e)
  /\ AddFits(e) \/ AddDispatches(e)
  /\ Advance(r)
  /\ accepted' = accepted \cup {e}
  /\ UNCHANGED <<proc, lives, reqPc>>

\* Add panicked: net/http closes the connection, the process lives on.
AbortRequest(r, e) ==
  /\ At(r, e)
  /\ AddPanics(e)
  /\ reqPc' = [reqPc EXCEPT ![r] = "aborted"]
  /\ UNCHANGED <<proc, lives, pos, accepted>>

\* The loop over the entries is done: 202 with the number accepted.
Respond(r) ==
  /\ proc = "up" /\ reqPc[r] = "adding" /\ pos[r] > Len(Body[r])
  /\ reqPc' = [reqPc EXCEPT ![r] = "done"]
  /\ UNCHANGED <<walVars, brokerVars, flusherVars, bufferVars, proc, lives, pos, accepted>>

----------------------------------------------------------------------------
(* The end of a process and the start of the next.                         *)

\* Everything but the log file and the bucket is lost.
Die(how) ==
  /\ proc' = how
  /\ BufferLost /\ FlushesLost /\ BrokerLost
  /\ walOpen' = FALSE /\ encErr' = FALSE /\ logged' = {} /\ stale' = FALSE
  /\ reqPc' = [r \in Request |-> IF reqPc[r] = "adding" THEN "lost" ELSE reqPc[r]]
  /\ UNCHANGED <<lives, pos, accepted>>

Crash ==
  /\ Crashes /\ proc = "up"
  /\ Die("crashed")
  /\ UNCHANGED <<lines, tail>>

\* Killed inside Add, after the write to the log has begun.
CrashInAdd(r, e) ==
  /\ Crashes /\ UseWAL
  /\ At(r, e) /\ ~BelowMinLevel(e)
  /\ AppendCutShort(e)
  /\ Die("crashed")

\* tickLoop panics, and with it the process.
TickCrash ==
  /\ proc = "up" /\ TickPanics
  /\ Die("crashed")
  /\ UNCHANGED <<lines, tail>>

\* srv.Shutdown closes the listeners, and main is free to return.
Shutdown ==
  /\ proc = "up" /\ stopPc = "shutdown"
  /\ stopPc' = "exit"
  /\ UNCHANGED <<walVars, brokerVars, flusherVars, contentVars, flushCh, overflowed,
                 ticking, tickPc, chClosed, loopDone, late, inAppend, serverVars>>

Exit ==
  /\ proc = "up" /\ stopPc = "exit"
  /\ Die("exited")
  /\ UNCHANGED <<lines, tail>>

\* OpenWAL and NewBuffer, which replays the log.
Start ==
  /\ proc # "up" /\ lives < MaxLives
  /\ proc' = "up"
  /\ lives' = lives + 1
  /\ \/ UseWAL /\ \E R \in SUBSET Entry : OpenAndRecover(R) /\ Replayed(R)
     \/ ~UseWAL /\ UNCHANGED walVars /\ Replayed({})
  /\ FreshLoops
  /\ UNCHANGED <<brokerVars, flusherVars, overflowed, late, inAppend, reqPc, pos, accepted>>

----------------------------------------------------------------------------

Handle(r) ==
  \/ Receive(r)
  \/ \E e \in Entry : SkipEntry(r, e) \/ AcceptEntry(r, e) \/ AbortRequest(r, e)
  \/ Respond(r)

\* The steps of the buffer's goroutines and of Stop.
Background ==
  /\ proc = "up"
  /\ \/ TickFire \/ TickBody \/ TickReturn
     \/ LoopTake \/ LoopReturn \/ RunFlush
     \/ StopTicker \/ StopFlush \/ StopCloseCh \/ StopWait \/ StopReset \/ StopCloseWAL
  /\ UNCHANGED serverVars

Tailing ==
  /\ proc = "up"
  /\ \E s \in Sub : TailStep(s)
  /\ UNCHANGED <<walVars, flusherVars, bufferVars, serverVars>>

Next ==
  \/ \E r \in Request : Handle(r)
  \/ \E r \in Request, e \in Entry : CrashInAdd(r, e)
  \/ Background
  \/ Tailing
  \/ Shutdown \/ Exit \/ TickCrash \/ Crash \/ Start

Spec == Init /\ [][Next]_vars

Running(A) == proc = "up" /\ A /\ UNCHANGED serverVars

\* Goroutines are scheduled, a running ticker fires, every S3 call returns (it
\* has a deadline) and every handler finishes.  No signal, no crash, no request
\* and no restart is owed to anyone.
Fairness ==
  /\ \A r \in Request : WF_vars(reqPc[r] = "adding" /\ Handle(r))
  /\ WF_vars(Running(TickFire \/ TickBody)) /\ WF_vars(TickCrash)
  /\ WF_vars(Running(LoopTake \/ LoopReturn))
  /\ WF_vars(Running(RunFlush))
  /\ WF_vars(Running(StopFlush \/ StopCloseCh \/ StopWait \/ StopReset \/ StopCloseWAL))
  /\ WF_vars(Shutdown \/ Exit)

FairSpec == Spec /\ Fairness

----------------------------------------------------------------------------
(* Safety.                                                                 *)

\* What readers select chunks by is true of the chunk: through replay, batching,
\* queueing and upload, the recorded time range of every batch is the tight
\* range of its entries, its service is that of a member, and no batch is empty.
BatchesDescribed ==
  /\ entries # {} => Describes(CurrentBatch)
  /\ \A b \in Range(flushCh) \cup chunks \cup indexes : Describes(b)
  /\ \A f \in flushing : Describes(f.batch)

\* An accepted entry can be lost in three ways only, with a disk that works and
\* lines that fit the scanner: its batch was given up after the upload failed,
\* it was handed to an overflow goroutine that Stop does not wait for, or it
\* was accepted after Stop's final flush.  Every other accepted entry is at all
\* times in the bucket or will be replayed by the next process, whenever this
\* one is killed.
LossAccounted ==
  UseWAL /\ ~DiskFaults /\ Oversize = {} =>
    accepted \subseteq Stored \cup Recovered \cup dropped \cup overflowed \cup late

\* No entry is in two places of a process at once, so none is uploaded twice by
\* the process that accepted it: not by the queue and an overflow goroutine, nor
\* by a tick racing Stop.
BatchesDisjoint ==
  /\ entries \cap (Queued \cup InFlight) = {}
  /\ Queued \cap InFlight = {}
  /\ \A i, j \in DOMAIN flushCh : i # j => flushCh[i].entries \cap flushCh[j].entries = {}
  /\ \A f, g \in flushing : f # g => f.batch.entries \cap g.batch.entries = {}

\* The counter w.n is what a restart would replay, no more and no less, through
\* every batch, retry, crash and replay and whatever requests Stop still serves,
\* up to the moment Stop empties the file.
BeforeReset == stopPc \in {"run", "flush", "closeCh", "wait", "reset"}

LogCountsRecoverable == BeforeReset => LoggedRecoverable

\* A reader that finds an index file finds its chunk.
IndexedChunksExist == indexes \subseteq chunks

\* While a process runs, an entry leaves its memory only for the bucket or with
\* a batch that is given up, and what Add accepts is in memory from then on,
\* whether or not the write-ahead log failed: "Continue anyway".
NothingVanishes ==
  [][proc = "up" /\ proc' = "up" =>
       InMemory \cup (accepted' \ accepted) \subseteq InMemory' \cup Stored' \cup dropped']_vars

\* What a tail client sees, or has coming, was accepted, and it sees it once:
\* nothing of a request that panics half way through Add, and nothing again
\* because a batch was dispatched, shipped or replayed.
TailShowsAccepted ==
  \A s \in Sub : LET seen == got[s] \o hand[s] \o ch[s]
                 IN  IsInjective(seen) /\ Range(seen) \subseteq accepted

BatchBytes(b) == SumFunctionOnSet(Size, b.entries)

\* The limit of buffer.go's "flushes them when the batch hits a size threshold":
\* a batch is within MaxBytes, or is a single entry that alone exceeds it, in a
\* process that has replayed nothing.  Replayed entries are not counted.
BatchesWithinLimit ==
  lives = 1 =>
    \A b \in Range(flushCh) \cup chunks \cup {f.batch : f \in flushing} :
      Cardinality(b.entries) > 1 => BatchBytes(b) <= MaxBytes

----------------------------------------------------------------------------
(* What clients may rely on.                                               *)

FateOf(e) ==
  CASE e \notin accepted -> "new"
    [] e \in accepted \cap Stored -> "stored"
    [] e \in (accepted \ Stored) \cap (InMemory \cup Recovered) -> "held"
    [] OTHER -> "lost"

Durable == INSTANCE DurableLog WITH
  fate <- [e \in Entry |-> FateOf(e)],
  stopping <- stopPc # "run"

\* With a write-ahead log on a disk that works, and lines that fit the scanner,
\* the ingester is a DurableLog: the log, the buffer, the queue, the uploads and
\* replay never let go of an accepted entry between them, in whatever order they
\* hand it on and wherever the process is killed, unless it was told to stop.
KeepsDurablePromises == Durable!DurableSpec

----------------------------------------------------------------------------
(* Liveness, under FairSpec.                                               *)

\* While the process lives, an entry it holds does not linger, wherever it is
\* held: the ticker, the queue and the retries bring it to the bucket or give its
\* batch up.  The exception is an entry accepted after Stop's final flush.
EventuallyShipped ==
  \A e \in Entry :
    e \in InMemory ~> (e \in Stored \cup dropped \cup late \/ proc # "up")

\* A signalled process ends: Stop, flushLoop, tickLoop and late requests never
\* wait for each other for ever, with the queue full or the bucket failing.
StopTerminates == (proc = "up" /\ stopPc # "run") ~> proc # "up"

----------------------------------------------------------------------------
(* What the documentation says, and the code does not do.                  *)

\* README: SIGINT and SIGTERM flush the buffer; a graceful exit loses nothing
\* that was accepted, when every upload succeeds.
GracefulExitLosesNothing == proc = "exited" => accepted \subseteq Stored \cup Recovered
=============================================================================
