-------------------------- MODULE DurabilityProofs --------------------------
(***************************************************************************)
(* The ingester's durability: while a process runs nothing leaves its      *)
(* memory unaccounted for (NothingVanishes), and across crashes, shutdowns *)
(* and restarts an accepted entry is lost in three known ways only         *)
(* (LossAccounted).                                                        *)
(***************************************************************************)
EXTENDS IngesterProofs

----------------------------------------------------------------------------
(* A running process keeps what it holds.                                  *)

\* A flush keeps its entries in flight until they are stored or given up.
LEMMA FlushKeeps ==
  ASSUME TypeOK, BatchInv, NEW f \in flushing, FlushStep(f)
  PROVE  InFlight \subseteq InFlight' \cup Stored' \cup dropped'
  <1>1. f \in Flush
    BY DEF TypeOK, FlusherTypeOK
  <1>2. \A g \in flushing : g # f /\ g \in flushing' => g.batch.entries \subseteq InFlight'
    BY DEF InFlight
  <1>3. flushing \ {f} \subseteq flushing'
    BY DEF FlushStep, PutOK, PutError, IndexWrite
  <1>4. f.batch.entries \subseteq InFlight' \cup Stored' \cup dropped'
    <2>1. CASE PutOK(f)
      BY <2>1 DEF PutOK, Stored
    <2>2. CASE PutError(f)
      <3>1. [f EXCEPT !.attempt = @ + 1].batch = f.batch
        BY <1>1 DEF Flush
      <3>2. \/ [f EXCEPT !.attempt = @ + 1] \in flushing'
            \/ f.batch.entries \subseteq dropped'
        BY <2>2 DEF PutError
      <3> QED BY <3>1, <3>2 DEF InFlight
    <2>3. CASE IndexWrite(f)
      BY <2>3 DEF IndexWrite, BatchInv, Stored
    <2> QED BY <2>1, <2>2, <2>3 DEF FlushStep
  <1> QED BY <1>2, <1>3, <1>4 DEF InFlight

\* The step of NothingVanishes for what is in memory.
LEMMA MemoryKept ==
  ASSUME TypeOK, BatchInv, [Next]_vars, proc = "up", proc' = "up"
  PROVE  InMemory \subseteq InMemory' \cup Stored' \cup dropped'
  <1>1. CASE UNCHANGED <<contents, shipped>>
    BY <1>1 DEF contents, shipped, InMemory, Queued, InFlight, Range
  <1>2. ASSUME NEW e \in Entry, Fill(entries, e), UNCHANGED shipped
        PROVE  InMemory \subseteq InMemory'
    <2>1. entries \subseteq entries'
      BY <1>2 DEF Fill
    <2> QED BY <1>2, <2>1 DEF shipped, InMemory, Queued, InFlight, Range
  <1>3. CASE SendBatch
    BY <1>3, SendMoves DEF InMemory
  <1>4. CASE ClearBuffer /\ UNCHANGED shipped /\ entries \subseteq dropped'
    BY <1>4 DEF shipped, InMemory, Queued, InFlight, Range
  <1>5. CASE LoopTake
    BY <1>5, TakeMoves
  <1>6. ASSUME NEW f \in flushing, FlushStep(f), UNCHANGED <<contents, flushCh>>
        PROVE  InMemory \subseteq InMemory' \cup Stored' \cup dropped'
    BY <1>6, FlushKeeps DEF contents, InMemory, Queued, Range
  <1>7. ~(\E how \in {"crashed", "exited"} : Die(how)) /\ ~Start
    BY DEF Die, Start
  <1> QED BY <1>1, <1>2, <1>3, <1>4, <1>5, <1>6, <1>7, BatchStep

\* Only AcceptEntry accepts, and what it accepts is in the buffer.
LEMMA AcceptedStep ==
  ASSUME [Next]_vars
  PROVE  \/ accepted' = accepted
         \/ \E r \in Request, e \in Entry :
              AcceptEntry(r, e) /\ accepted' = accepted \cup {e} /\ e \in entries'
  <1>1. ASSUME NEW r \in Request, NEW e \in Entry, AcceptEntry(r, e)
        PROVE  accepted' = accepted \cup {e} /\ e \in entries'
    BY <1>1 DEF AcceptEntry, AddFits, AddDispatches, Fill
  <1>2. ASSUME NEW r \in Request, Receive(r) \/ Respond(r) PROVE accepted' = accepted
    BY <1>2 DEF Receive, Respond
  <1>3. ASSUME NEW r \in Request, NEW e \in Entry, SkipEntry(r, e) \/ AbortRequest(r, e)
        PROVE accepted' = accepted
    BY <1>3 DEF SkipEntry, AbortRequest
  <1>4. ASSUME NEW r \in Request, NEW e \in Entry, CrashInAdd(r, e) PROVE accepted' = accepted
    BY <1>4 DEF CrashInAdd, Die
  <1>5. CASE Background \/ Tailing \/ Shutdown \/ Exit \/ TickCrash \/ Crash \/ Start
    BY <1>5 DEF Background, Tailing, Shutdown, Exit, TickCrash, Crash, Start, Die, serverVars
  <1>6. CASE UNCHANGED vars
    BY <1>6 DEF vars, serverVars
  <1> QED BY <1>1, <1>2, <1>3, <1>4, <1>5, <1>6 DEF Next, Handle

\* While a process runs, an entry leaves its memory only for the bucket or with
\* a batch that is given up.
THEOREM NothingEverVanishes == Spec => NothingVanishes
  <1>1. Init => BatchInv
    BY BatchInit
  <1>2. TypeOK /\ BatchInv /\ [Next]_vars => BatchInv'
    BY BatchInductive
  <1>3. TypeOK /\ BatchInv /\ [Next]_vars =>
          [proc = "up" /\ proc' = "up" =>
             InMemory \cup (accepted' \ accepted)
               \subseteq InMemory' \cup Stored' \cup dropped']_vars
    BY MemoryKept, AcceptedStep DEF InMemory
  <1> QED BY <1>1, <1>2, <1>3, TypeCorrect, PTL DEF Spec, NothingVanishes

----------------------------------------------------------------------------
(* Add's use of the log, on a disk that works, with lines that fit.        *)

Lossless == UseWAL /\ ~DiskFaults /\ Oversize = {}

\* Append on such a disk: the entry is logged, or the log is closed or broken.
LEMMA LogFirstRecovers ==
  ASSUME WALTypeOK, Lossless, LogClean, NEW e \in Entry, LogFirst(e)
  PROVE  /\ LogClean'
         /\ Recovered \subseteq Recovered' /\ Recovered' \subseteq Recovered \cup {e}
         /\ walOpen /\ ~encErr => e \in Recovered' /\ walOpen' /\ ~encErr'
  <1>1. CASE AppendOK(e)
    BY <1>1, AppendRecovers DEF AppendOK, Lossless
  <1>2. CASE AppendRefused
    BY <1>2, SameLogRecovers DEF AppendRefused
  <1> QED BY <1>1, <1>2
          DEF LogFirst, AppendEntry, AppendWriteError, AppendSyncError, Lossless

----------------------------------------------------------------------------
(* The invariant.                                                          *)

\* The order of Stop's steps: the queue is closed from its place on, flushLoop
\* is done when it is waited for, and a flushLoop that is done leaves nothing
\* behind.  What is in flight without it has overflowed, and what is in the
\* buffer after the final flush is late.
StopInv ==
  /\ chClosed <=> stopPc \notin {"run", "flush", "closeCh"}
  /\ stopPc \in {"reset", "renew", "recount", "closeWAL", "shutdown", "exit"} => loopDone
  /\ loopDone => /\ chClosed
                 /\ flushCh = <<>>
                 /\ \A f \in flushing : ~f.byLoop
  /\ \A f \in flushing : ~f.byLoop => f.batch.entries \subseteq overflowed
  /\ FinalFlushDone => entries \subseteq late

Accounted == Stored \cup dropped \cup overflowed \cup late

\* The log is clean and open until Stop closes it; what is in the log and
\* accepted is held in memory or accounted for; what is accepted and no longer
\* in the log is accounted for.
DurabilityInv ==
  /\ LogClean
  /\ proc = "up" /\ stopPc \notin {"shutdown", "exit"} => walOpen /\ ~encErr
  /\ proc = "up" => accepted \cap Recovered \subseteq InMemory \cup Accounted
  /\ accepted \subseteq Recovered \cup Accounted

\* Adding an entry preserves StopInv, whichever way Add ends.
LEMMA AddStopInv ==
  ASSUME TypeOK, StopInv, NEW e \in Entry, AddFits(e) \/ AddDispatches(e) \/ AddPanics(e)
  PROVE  StopInv'
  <1>1. UNCHANGED loopVars
    BY DEF AddFits, AddDispatches, AddPanics
  <1>2. FinalFlushDone' = FinalFlushDone
    BY <1>1 DEF loopVars, FinalFlushDone
  <1>3. CASE AddFits(e)
    BY <1>1, <1>2, <1>3 DEF AddFits, Fill, NoteLate, queueVars, loopVars, StopInv
  <1>4. CASE AddDispatches(e)
    <2>1. NewFlush(CurrentBatch, FALSE).batch.entries = entries
      BY DEF NewFlush, CurrentBatch
    <2>2. \A f \in flushing' : ~f.byLoop => f.batch.entries \subseteq overflowed'
      BY <1>4, <2>1 DEF AddDispatches, SendBatch, StopInv
    <2>3. FinalFlushDone' => entries' \subseteq late'
      BY <1>2, <1>4 DEF AddDispatches, Fill, NoteLate
    <2>4. ~chClosed /\ ~loopDone
      BY <1>4 DEF AddDispatches, SendBatch, StopInv
    <2> QED BY <1>1, <2>2, <2>3, <2>4 DEF loopVars, StopInv
  <1>5. CASE AddPanics(e)
    BY <1>1, <1>2, <1>5 DEF AddPanics, SendPanics, ClearBuffer, loopVars, StopInv
  <1> QED BY <1>3, <1>4, <1>5

\* StopInv is inductive.
LEMMA StopInductive ==
  ASSUME TypeOK, StopInv, [Next]_vars
  PROVE  StopInv'
  <1>a. UNCHANGED <<bufferVars, flushing>> => StopInv'
    BY DEF bufferVars, contentVars, loopVars, FinalFlushDone, StopInv
  <1>d. \A how \in {"crashed", "exited"} : Die(how) => StopInv'
    BY DEF Die, BufferLost, FreshLoops, FlushesLost, FinalFlushDone, StopInv
  <1>1. ASSUME NEW r \in Request, Handle(r) PROVE StopInv'
    <2>1. CASE Receive(r) \/ Respond(r)
      BY <1>a, <2>1 DEF Receive, Respond, flusherVars
    <2>2. ASSUME NEW e \in Entry, SkipEntry(r, e) PROVE StopInv'
      BY <1>a, <2>2 DEF SkipEntry, flusherVars
    <2>3. ASSUME NEW e \in Entry, AcceptEntry(r, e) \/ AbortRequest(r, e) PROVE StopInv'
      BY <2>3, AddStopInv DEF AcceptEntry, AbortRequest
    <2> QED BY <1>1, <2>1, <2>2, <2>3 DEF Handle
  <1>2. CASE Background
    <2>n. NewFlush(CurrentBatch, FALSE).batch.entries = entries
      BY DEF NewFlush, CurrentBatch
    <2>1. CASE TickFire \/ TickReturn
      BY <2>1 DEF TickFire, TickReturn, contentVars, queueVars, FinalFlushDone, StopInv
    <2>2. CASE TickBody
      <3>1. CASE entries = {}
        BY <2>2, <3>1 DEF TickBody, SendBatch, ClearBuffer, contentVars, queueVars,
                          FinalFlushDone, StopInv
      <3>2. CASE entries # {}
        <4>1. SendBatch /\ ClearBuffer /\ UNCHANGED <<chClosed, loopDone, stopPc, late>>
          BY <2>2, <3>2 DEF TickBody
        <4>2. \A f \in flushing' : ~f.byLoop => f.batch.entries \subseteq overflowed'
          BY <4>1, <2>n DEF SendBatch, StopInv
        <4>3. ~chClosed /\ ~loopDone
          BY <4>1 DEF SendBatch, StopInv
        <4> QED BY <4>1, <4>2, <4>3 DEF ClearBuffer, FinalFlushDone, StopInv
      <3> QED BY <3>1, <3>2
    <2>3. CASE LoopTake
      <3>1. NewFlush(Head(flushCh), TRUE).byLoop
        BY DEF NewFlush
      <3> QED BY <2>3, <3>1 DEF LoopTake, LoopIdle, contentVars, loopVars, FinalFlushDone, StopInv
    <2>4. CASE LoopReturn
      BY <2>4 DEF LoopReturn, LoopIdle, contentVars, queueVars, FinalFlushDone, StopInv
    <2>5. CASE RunFlush
      <3>1. PICK f \in flushing : FlushStep(f)
        BY <2>5 DEF RunFlush
      <3>2. f \in Flush
        BY DEF TypeOK, FlusherTypeOK
      <3>3. \A g \in flushing' : \E h \in flushing :
              g.byLoop = h.byLoop /\ g.batch = h.batch
        <4>1. /\ [f EXCEPT !.step = "index"].byLoop = f.byLoop
              /\ [f EXCEPT !.step = "index"].batch = f.batch
              /\ [f EXCEPT !.attempt = @ + 1].byLoop = f.byLoop
              /\ [f EXCEPT !.attempt = @ + 1].batch = f.batch
          BY <3>2 DEF Flush
        <4>2. \A g \in flushing' : \/ g \in flushing
                                   \/ g = [f EXCEPT !.step = "index"]
                                   \/ g = [f EXCEPT !.attempt = @ + 1]
          BY <3>1 DEF FlushStep, PutOK, PutError, IndexWrite
        <4> QED BY <4>1, <4>2
      <3> QED BY <2>5, <3>3 DEF RunFlush, bufferVars, contentVars, loopVars, FinalFlushDone, StopInv
    <2>6. CASE StopTicker
      BY <2>6 DEF StopTicker, contentVars, flusherVars, FinalFlushDone, StopInv
    <2>7. CASE StopFlush
      <3>1. CASE entries = {}
        BY <2>7, <3>1 DEF StopFlush, SendBatch, ClearBuffer, contentVars, queueVars,
                          FinalFlushDone, StopInv
      <3>2. CASE entries # {}
        <4>1. SendBatch /\ ClearBuffer
          BY <2>7, <3>2 DEF StopFlush
        <4>2. \A f \in flushing' : ~f.byLoop => f.batch.entries \subseteq overflowed'
          BY <4>1, <2>n DEF SendBatch, StopInv
        <4>3. ~chClosed /\ ~loopDone
          BY <4>1 DEF SendBatch, StopInv
        <4> QED BY <2>7, <4>1, <4>2, <4>3 DEF StopFlush, ClearBuffer, FinalFlushDone, StopInv
      <3> QED BY <3>1, <3>2
    <2>8. CASE StopCloseCh
      BY <2>8 DEF StopCloseCh, contentVars, queueVars, FinalFlushDone, StopInv
    <2>9. CASE StopWait
      BY <2>9 DEF StopWait, contentVars, queueVars, FinalFlushDone, StopInv
    <2>10. CASE StopReset \/ StopCloseWAL
      BY <2>10 DEF StopReset, StopTruncate, StopRenew, StopRecount, StopCloseWAL,
                   contentVars, queueVars, FinalFlushDone, StopInv
    <2> QED BY <1>2, <2>1, <2>2, <2>3, <2>4, <2>5, <2>6, <2>7, <2>8, <2>9, <2>10 DEF Background
  <1>3. CASE Shutdown
    BY <1>3 DEF Shutdown, contentVars, flusherVars, FinalFlushDone, StopInv
  <1>4. CASE Exit \/ TickCrash \/ Crash \/ \E r \in Request, e \in Entry : CrashInAdd(r, e)
    BY <1>d, <1>4 DEF Exit, TickCrash, Crash, CrashInAdd
  <1>5. CASE Start
    BY <1>5 DEF Start, FreshLoops, flusherVars, FinalFlushDone, StopInv
  <1>6. CASE Tailing \/ UNCHANGED vars
    BY <1>a, <1>6 DEF Tailing, vars, flusherVars
  <1> QED BY <1>1, <1>2, <1>3, <1>4, <1>5, <1>6 DEF Next

\* What is accounted for stays so.
LEMMA AccountedGrows ==
  ASSUME [Next]_vars
  PROVE  Accounted \subseteq Accounted'
  <1>1. /\ chunks \subseteq chunks' /\ dropped \subseteq dropped'
        /\ overflowed \subseteq overflowed' /\ late \subseteq late'
    <2> DEFINE Grows == /\ chunks \subseteq chunks' /\ dropped \subseteq dropped'
                        /\ overflowed \subseteq overflowed' /\ late \subseteq late'
    <2>a. UNCHANGED <<flusherVars, overflowed, late>> => Grows
      BY DEF flusherVars
    <2>1. ASSUME NEW r \in Request, NEW e \in Entry, AcceptEntry(r, e) \/ AbortRequest(r, e)
          PROVE  Grows
      BY <2>1 DEF AcceptEntry, AbortRequest, AddFits, AddDispatches, AddPanics, SendBatch,
                  SendPanics, NoteLate, queueVars
    <2>2. ASSUME NEW r \in Request, Receive(r) \/ Respond(r) PROVE Grows
      BY <2>a, <2>2 DEF Receive, Respond, bufferVars
    <2>3. ASSUME NEW r \in Request, NEW e \in Entry, SkipEntry(r, e) PROVE Grows
      BY <2>a, <2>3 DEF SkipEntry, bufferVars
    <2>4. ASSUME Background PROVE Grows
      <3>1. CASE TickFire \/ TickReturn \/ LoopTake \/ LoopReturn \/ StopTicker \/ StopCloseCh
                   \/ StopWait \/ StopReset \/ StopCloseWAL
        BY <3>1 DEF TickFire, TickReturn, LoopTake, LoopReturn, StopTicker, StopCloseCh,
                    StopWait, StopReset, StopTruncate, StopRenew, StopRecount, StopCloseWAL,
                    queueVars, flusherVars
      <3>2. CASE TickBody \/ StopFlush
        BY <3>2 DEF TickBody, StopFlush, SendBatch, queueVars
      <3>3. CASE RunFlush
        BY <3>3 DEF RunFlush, FlushStep, PutOK, PutError, IndexWrite, bufferVars
      <3> QED BY <2>4, <3>1, <3>2, <3>3 DEF Background
    <2>5. ASSUME NEW how, Die(how) PROVE Grows
      BY <2>5 DEF Die, BufferLost, FlushesLost
    <2>6. ASSUME Exit \/ TickCrash \/ Crash \/ \E r \in Request, e \in Entry : CrashInAdd(r, e)
          PROVE  Grows
      BY <2>5, <2>6 DEF Exit, TickCrash, Crash, CrashInAdd
    <2>7. ASSUME Tailing \/ Shutdown \/ Start \/ UNCHANGED vars PROVE Grows
      BY <2>a, <2>7 DEF Tailing, Shutdown, Start, vars, bufferVars
    <2> HIDE DEF Grows
    <2>8. Grows
      BY <2>1, <2>2, <2>3, <2>4, <2>6, <2>7 DEF Next, Handle
    <2> QED BY <2>8 DEF Grows
  <1> QED BY <1>1 DEF Accounted, Stored

\* After Stop has waited for flushLoop, memory holds accounted entries only.
LEMMA DrainedAccounted ==
  ASSUME StopInv, stopPc = "reset"
  PROVE  InMemory \subseteq Accounted
  <1>1. entries \subseteq late
    BY DEF StopInv, FinalFlushDone
  <1>2. Queued = {}
    BY RangeEmpty DEF StopInv, Queued
  <1>3. InFlight \subseteq overflowed
    BY DEF StopInv, InFlight
  <1> QED BY <1>1, <1>2, <1>3 DEF InMemory, Accounted

\* A step that leaves the log file and the accepted entries alone, within a
\* process or out of one, keeps them accounted for.
LEMMA QuietStep ==
  ASSUME TypeOK, BatchInv, DurabilityInv, [Next]_vars,
         UNCHANGED <<lines, tail, accepted>>,
         proc' = "up" => proc = "up"
  PROVE  /\ LogClean'
         /\ (proc = "up" => accepted \cap Recovered \subseteq InMemory \cup Accounted)'
         /\ (accepted \subseteq Recovered \cup Accounted)'
  <1>1. LogClean' /\ Recovered' = Recovered
    BY SameLogRecovers DEF DurabilityInv
  <1>2. Accounted \subseteq Accounted'
    BY AccountedGrows
  <1>3. ASSUME proc' = "up"
        PROVE  InMemory \subseteq InMemory' \cup Accounted'
    BY <1>3, MemoryKept DEF Accounted
  <1> QED BY <1>1, <1>2, <1>3 DEF DurabilityInv

\* DurabilityInv is inductive, given a disk that works and lines that fit.
LEMMA DurabilityInductive ==
  ASSUME Lossless, TypeOK, BatchInv, StopInv, DurabilityInv, [Next]_vars
  PROVE  DurabilityInv'
  <1>a. UNCHANGED <<lines, tail, accepted>> /\ UNCHANGED <<proc, stopPc, walOpen, encErr>>
          => DurabilityInv'
    BY QuietStep DEF DurabilityInv
  <1>g. Accounted \subseteq Accounted'
    BY AccountedGrows
  <1>1. ASSUME NEW r \in Request, NEW e \in Entry, AcceptEntry(r, e) PROVE DurabilityInv'
    <2>1. LogFirst(e) /\ NoteLate(e) /\ UNCHANGED stopPc /\ e \in entries'
      BY <1>1 DEF AcceptEntry, AddFits, AddDispatches, loopVars, Fill
    <2>2. proc = "up" /\ proc' = "up" /\ accepted' = accepted \cup {e}
      BY <1>1 DEF AcceptEntry, At
    <2>3. /\ LogClean'
          /\ Recovered \subseteq Recovered' /\ Recovered' \subseteq Recovered \cup {e}
          /\ walOpen /\ ~encErr => e \in Recovered' /\ walOpen' /\ ~encErr'
      BY <2>1, LogFirstRecovers DEF TypeOK, DurabilityInv
    <2>4. InMemory \subseteq InMemory' \cup Accounted'
      BY <2>2, MemoryKept DEF Accounted
    <2>5. e \in InMemory'
      BY <2>1 DEF InMemory
    <2>6. stopPc \in {"shutdown", "exit"} => e \in Accounted'
      BY <2>1 DEF NoteLate, FinalFlushDone, Accounted
    <2>7. stopPc \notin {"shutdown", "exit"} => e \in Recovered' /\ walOpen' /\ ~encErr'
      BY <2>2, <2>3 DEF DurabilityInv
    <2>8. accepted' \subseteq Recovered' \cup Accounted'
      BY <1>g, <2>2, <2>3, <2>6, <2>7 DEF DurabilityInv
    <2>9. accepted' \cap Recovered' \subseteq InMemory' \cup Accounted'
      BY <1>g, <2>2, <2>3, <2>4, <2>5 DEF DurabilityInv
    <2> QED BY <2>1, <2>2, <2>3, <2>7, <2>8, <2>9 DEF DurabilityInv
  <1>2. ASSUME NEW r \in Request, NEW e \in Entry, AbortRequest(r, e) PROVE DurabilityInv'
    <2>1. LogFirst(e) /\ UNCHANGED stopPc
      BY <1>2 DEF AbortRequest, AddPanics, loopVars
    <2>2. proc = "up" /\ proc' = "up" /\ accepted' = accepted
      BY <1>2 DEF AbortRequest, At
    <2>3. /\ LogClean'
          /\ Recovered \subseteq Recovered' /\ Recovered' \subseteq Recovered \cup {e}
          /\ walOpen /\ ~encErr => e \in Recovered' /\ walOpen' /\ ~encErr'
      BY <2>1, LogFirstRecovers DEF TypeOK, DurabilityInv
    <2>4. InMemory \subseteq InMemory' \cup Accounted'
      BY <2>2, MemoryKept DEF Accounted
    <2>5. e \in accepted => e \in InMemory \cup Accounted
      BY <2>2 DEF DurabilityInv
    <2>6. accepted' \cap Recovered' \subseteq InMemory' \cup Accounted'
      BY <1>g, <2>2, <2>3, <2>4, <2>5 DEF DurabilityInv
    <2> QED BY <1>g, <2>1, <2>2, <2>3, <2>6 DEF DurabilityInv
  <1>3. ASSUME NEW r \in Request, Handle(r) PROVE DurabilityInv'
    <2>1. CASE Receive(r) \/ Respond(r)
      BY <1>a, <2>1 DEF Receive, Respond, walVars, bufferVars, loopVars
    <2>2. ASSUME NEW e \in Entry, SkipEntry(r, e) PROVE DurabilityInv'
      BY <1>a, <2>2 DEF SkipEntry, walVars, bufferVars, loopVars
    <2> QED BY <1>1, <1>2, <1>3, <2>1, <2>2 DEF Handle
  <1>4. CASE Background
    <2>0. UNCHANGED <<proc, accepted>> /\ proc = "up"
      BY <1>4 DEF Background, serverVars
    <2>1. CASE TickFire \/ TickBody \/ TickReturn \/ LoopTake \/ LoopReturn \/ RunFlush
      BY <1>a, <2>0, <2>1 DEF TickFire, TickBody, TickReturn, LoopTake, LoopReturn, RunFlush,
                              walVars, loopVars, bufferVars
    <2>2. CASE StopTicker \/ StopFlush \/ StopCloseCh \/ StopWait
      <3>1. UNCHANGED <<lines, tail, accepted, proc, walOpen, encErr>>
        BY <2>0, <2>2 DEF StopTicker, StopFlush, StopCloseCh, StopWait, walVars
      <3>2. stopPc \notin {"shutdown", "exit"} /\ stopPc' \notin {"shutdown", "exit"}
        BY <2>2 DEF StopTicker, StopFlush, StopCloseCh, StopWait
      <3> QED BY <3>1, <3>2, QuietStep DEF DurabilityInv
    <2>3. CASE StopTruncate
      <3>1. walOpen /\ ~encErr /\ stopPc = "reset"
        BY <2>0, <2>3 DEF StopTruncate, DurabilityInv
      <3>2. /\ lines' = <<>> /\ tail' = {} /\ stopPc' = "renew"
            /\ encErr' = encErr /\ walOpen' = walOpen
        BY <2>3, <3>1 DEF StopTruncate, EmptyFile, Lossless
      <3>3. ~encErr' /\ walOpen'
        BY <3>1, <3>2
      <3>4. LogClean' /\ Recovered' = {}
        BY <3>2, EmptyLogRecovers
      <3>5. InMemory \subseteq Accounted
        BY <3>1, DrainedAccounted
      <3>6. accepted \subseteq Accounted
        BY <2>0, <3>5 DEF DurabilityInv
      <3> QED BY <1>g, <2>0, <3>3, <3>4, <3>6 DEF DurabilityInv
    <2>3a. CASE StopRenew \/ StopRecount
      <3>1. UNCHANGED <<lines, tail, accepted, proc>>
        BY <2>0, <2>3a DEF StopRenew, StopRecount
      <3>2. stopPc \notin {"shutdown", "exit"}
        BY <2>3a DEF StopRenew, StopRecount
      <3>3. walOpen /\ ~encErr
        BY <2>0, <3>2 DEF DurabilityInv
      <3>4. walOpen' = walOpen /\ (encErr' = encErr \/ encErr' = FALSE)
        BY <2>3a DEF StopRenew, StopRecount
      <3>5. walOpen' /\ ~encErr'
        BY <3>3, <3>4
      <3> QED BY <3>1, <3>5, QuietStep DEF DurabilityInv
    <2>4. CASE StopCloseWAL
      <3>1. UNCHANGED <<lines, tail, accepted, proc>> /\ stopPc' = "shutdown"
        BY <2>0, <2>4 DEF StopCloseWAL, CloseWAL, Lossless
      <3> QED BY <3>1, QuietStep DEF DurabilityInv
    <2> QED BY <1>4, <2>1, <2>2, <2>3, <2>3a, <2>4 DEF Background, StopReset
  <1>5. CASE Shutdown
    <2>1. UNCHANGED <<lines, tail, accepted, proc>> /\ stopPc' = "exit"
      BY <1>5 DEF Shutdown, walVars, serverVars
    <2> QED BY <2>1, QuietStep DEF DurabilityInv
  <1>6. CASE Exit \/ TickCrash \/ Crash
    <2>1. UNCHANGED <<lines, tail, accepted>> /\ proc' # "up"
      BY <1>6 DEF Exit, TickCrash, Crash, Die
    <2> QED BY <2>1, QuietStep DEF DurabilityInv
  <1>7. ASSUME NEW r \in Request, NEW e \in Entry, CrashInAdd(r, e) PROVE DurabilityInv'
    <2>1. AppendCutShort(e) /\ proc' # "up" /\ accepted' = accepted
      BY <1>7 DEF CrashInAdd, Die
    <2>2. LogClean' /\ Recovered \subseteq Recovered'
      <3>1. CASE UNCHANGED <<lines, tail>>
        BY <3>1, SameLogRecovers DEF DurabilityInv
      <3>2. CASE lines' = Append(lines, tail \cup {Whole(e)}) /\ tail' = {}
        BY <3>2, AppendRecovers DEF DurabilityInv, TypeOK, Lossless
      <3> QED BY <2>1, <3>1, <3>2 DEF AppendCutShort, Lossless
    <2> QED BY <1>g, <2>1, <2>2 DEF DurabilityInv
  <1>8. CASE Start
    <2>1. PICK R \in SUBSET Entry : OpenAndRecover(R) /\ Replayed(R)
      BY <1>8 DEF Start, Lossless
    <2>2. R = Recovered /\ entries' = R /\ walOpen' /\ ~encErr' /\ UNCHANGED <<lines, tail>>
      BY <2>1 DEF OpenAndRecover, Replayed, Lossless
    <2>3. accepted' = accepted
      BY <1>8 DEF Start
    <2>4. LogClean' /\ Recovered' = Recovered
      BY <2>2, SameLogRecovers DEF DurabilityInv
    <2>5. Recovered' \subseteq InMemory'
      BY <2>2, <2>4 DEF InMemory
    <2> QED BY <1>g, <2>2, <2>3, <2>4, <2>5 DEF DurabilityInv
  <1>9. CASE Tailing \/ UNCHANGED vars
    BY <1>a, <1>9 DEF Tailing, vars, walVars, bufferVars, loopVars, serverVars
  <1> QED BY <1>3, <1>4, <1>5, <1>6, <1>7, <1>8, <1>9 DEF Next

\* Both invariants hold at the start.
LEMMA DurabilityInit ==
  ASSUME Init
  PROVE  StopInv /\ DurabilityInv
  <1>1. StopInv
    BY DEF Init, BufferInit, FlusherInit, FinalFlushDone, StopInv
  <1>2. WALInit => LogClean
    BY RangeEmpty DEF WALInit, LogClean, TooLong, Content
  <1> QED BY <1>1, <1>2 DEF Init, WALInit, DurabilityInv

\* For every ingester with a write-ahead log on a disk that works, whose lines
\* fit the scanner: an accepted entry is in the bucket, will be replayed, or was
\* lost to a failed upload, an untracked overflow flush or a request served
\* during shutdown.
THEOREM LossIsAccounted == Spec => []LossAccounted
  <1>1. CASE ~Lossless
    <2>1. LossAccounted
      BY <1>1 DEF LossAccounted, Lossless
    <2> QED BY <2>1, PTL
  <1>2. CASE Lossless
    <2>1. Init => BatchInv /\ StopInv /\ DurabilityInv
      BY BatchInit, DurabilityInit
    <2>2. TypeOK /\ BatchInv /\ [Next]_vars => BatchInv'
      BY BatchInductive
    <2>3. TypeOK /\ StopInv /\ [Next]_vars => StopInv'
      BY StopInductive
    <2>4. TypeOK /\ BatchInv /\ StopInv /\ DurabilityInv /\ [Next]_vars => DurabilityInv'
      BY <1>2, DurabilityInductive
    <2>5. DurabilityInv => LossAccounted
      BY DEF DurabilityInv, LossAccounted, Accounted
    <2> QED BY <2>1, <2>2, <2>3, <2>4, <2>5, TypeCorrect, PTL DEF Spec
  <1> QED BY <1>1, <1>2

=============================================================================
