--------------------------- MODULE IngesterProofs ---------------------------
(***************************************************************************)
(* Theorems about the ingester, for any number of entries, requests and    *)
(* subscribers, any sizes, capacities and limits, and any number of        *)
(* crashes and restarts.                                                   *)
(***************************************************************************)
EXTENDS Ingester, WALProofs

----------------------------------------------------------------------------
(* Type correctness, component by component.                               *)

\* Every step of the broker and of its handlers preserves its type.
LEMMA BrokerOpTypes ==
  ASSUME BrokerTypeOK
  PROVE  /\ UNCHANGED brokerVars => BrokerTypeOK'
         /\ \A e \in Entry : Publish(e) => BrokerTypeOK'
         /\ \A s \in Sub : TailStep(s) => BrokerTypeOK'
         /\ BrokerLost => BrokerTypeOK'
  <1>1. UNCHANGED brokerVars => BrokerTypeOK'
    BY DEF BrokerTypeOK, brokerVars
  <1>2. \A e \in Entry : Publish(e) => BrokerTypeOK'
    <2> SUFFICES ASSUME NEW e \in Entry, Publish(e) PROVE BrokerTypeOK'
      OBVIOUS
    <2>1. ch' \in [Sub -> Seq(Entry)] /\ owed' \in [Sub -> Seq(Entry)]
      BY DEF Publish, BrokerTypeOK
    <2>2. missed' \in [Sub -> SUBSET Entry]
      BY DEF Publish, BrokerTypeOK
    <2> QED BY <2>1, <2>2 DEF Publish, BrokerTypeOK, handlerVars
  <1>3. \A s \in Sub : TailStep(s) => BrokerTypeOK'
    <2> SUFFICES ASSUME NEW s \in Sub, TailStep(s) PROVE BrokerTypeOK'
      OBVIOUS
    <2>1. CASE TailUpgrade(s)
      BY <2>1 DEF TailUpgrade, Subscribe, BrokerTypeOK
    <2>2. CASE TailReceive(s)
      <3>1. Head(ch[s]) \in Entry /\ Tail(ch[s]) \in Seq(Entry)
        BY <2>2 DEF TailReceive, BrokerTypeOK
      <3> QED BY <2>2, <3>1 DEF TailReceive, BrokerTypeOK
    <2>3. CASE TailWrite(s)
      <3>1. got[s] \o hand[s] \in Seq(Entry)
        BY DEF BrokerTypeOK
      <3> QED BY <2>3, <3>1 DEF TailWrite, BrokerTypeOK
    <2>4. CASE TailWriteError(s)
      BY <2>4 DEF TailWriteError, BrokerTypeOK
    <2>5. CASE TailLeave(s)
      BY <2>5 DEF TailLeave, Unsubscribe, BrokerTypeOK
    <2>6. CASE ClientGone(s)
      BY <2>6 DEF ClientGone, BrokerTypeOK
    <2> QED BY <2>1, <2>2, <2>3, <2>4, <2>5, <2>6 DEF TailStep
  <1>4. BrokerLost => BrokerTypeOK'
    BY DEF BrokerLost, BrokerTypeOK
  <1> QED BY <1>1, <1>2, <1>3, <1>4

\* Every step of a flush preserves the flusher's type.
LEMMA FlushStepType ==
  ASSUME FlusherTypeOK, NEW f \in flushing, FlushStep(f)
  PROVE  FlusherTypeOK'
  <1>1. f \in Flush /\ f.batch \in Batch /\ f.batch.entries \subseteq Entry
    BY DEF FlusherTypeOK, Flush, Batch
  <1>2. CASE PutOK(f)
    <2>1. [f EXCEPT !.step = "index"] \in Flush
      BY <1>1 DEF Flush
    <2> QED BY <1>1, <1>2, <2>1 DEF PutOK, FlusherTypeOK
  <1>3. CASE PutError(f)
    <2>1. [f EXCEPT !.attempt = @ + 1] \in Flush
      BY <1>1 DEF Flush
    <2> QED BY <1>1, <1>3, <2>1 DEF PutError, FlusherTypeOK
  <1>4. CASE IndexWrite(f)
    BY <1>1, <1>4 DEF IndexWrite, FlusherTypeOK
  <1> QED BY <1>2, <1>3, <1>4 DEF FlushStep

\* What dispatchFlush sends is a batch, and sending it preserves the types.
LEMMA SendBatchTypes ==
  ASSUME FlusherTypeOK, BufferTypeOK
  PROVE  /\ CurrentBatch \in Batch
         /\ SendBatch => /\ FlusherTypeOK'
                         /\ flushCh' \in Seq(Batch)
                         /\ overflowed' \subseteq Entry
                         /\ ticking' \in BOOLEAN
         /\ SendPanics => /\ FlusherTypeOK'
                          /\ flushCh' \in Seq(Batch)
                          /\ overflowed' \subseteq Entry
                          /\ ticking' \in BOOLEAN
  <1>1. CurrentBatch \in Batch
    BY DEF CurrentBatch, Batch, BufferTypeOK
  <1>2. NewFlush(CurrentBatch, FALSE) \in Flush
    BY <1>1 DEF NewFlush, Flush
  <1>3. SendBatch => /\ FlusherTypeOK'
                     /\ flushCh' \in Seq(Batch)
                     /\ overflowed' \subseteq Entry
                     /\ ticking' \in BOOLEAN
    <2> SUFFICES ASSUME SendBatch
                 PROVE  /\ FlusherTypeOK'
                        /\ flushCh' \in Seq(Batch)
                        /\ overflowed' \subseteq Entry
                        /\ ticking' \in BOOLEAN
      OBVIOUS
    <2>1. CASE Len(flushCh) < FlushCap
      <3>1. Append(flushCh, CurrentBatch) \in Seq(Batch)
        BY <1>1 DEF BufferTypeOK
      <3>2. Len(flushCh) \in Nat
        BY DEF BufferTypeOK
      <3>3. ~(Len(flushCh) >= FlushCap)
        BY <2>1, <3>2, BufferAssumption
      <3> QED BY <3>1, <3>3 DEF SendBatch, FlusherTypeOK, BufferTypeOK
    <2>2. CASE ~(Len(flushCh) < FlushCap)
      BY <1>2, <2>2 DEF SendBatch, FlusherTypeOK, BufferTypeOK
    <2> QED BY <2>1, <2>2
  <1>4. SendPanics => /\ FlusherTypeOK'
                      /\ flushCh' \in Seq(Batch)
                      /\ overflowed' \subseteq Entry
                      /\ ticking' \in BOOLEAN
    BY DEF SendPanics, FlusherTypeOK, BufferTypeOK
  <1> QED BY <1>1, <1>3, <1>4

\* Every entry's service is a service name.
LEMMA ServiceNames == "" \in ServiceName /\ \A e \in Entry : Service[e] \in ServiceName
  BY FlusherAssumption DEF ServiceName, Range

\* Filling the buffer preserves the types of its contents.
LEMMA FillTypes ==
  ASSUME BufferTypeOK, NEW held \in SUBSET Entry, NEW e \in Entry, Fill(held, e)
  PROVE  /\ entries' \subseteq Entry
         /\ minTime' \in Nat /\ maxTime' \in Nat /\ service' \in ServiceName
  BY FlusherAssumption, ServiceNames DEF Fill, BufferTypeOK

\* Add preserves every type, whichever way it ends.
LEMMA AddTypes ==
  ASSUME WALTypeOK, BrokerTypeOK, FlusherTypeOK, BufferTypeOK, NEW e \in Entry,
         AddFits(e) \/ AddDispatches(e) \/ AddPanics(e)
  PROVE  WALTypeOK' /\ BrokerTypeOK' /\ FlusherTypeOK' /\ BufferTypeOK'
  <1>1. LogFirst(e)
    BY DEF AddFits, AddDispatches, AddPanics
  <1>2. WALTypeOK'
    BY <1>1, WALOpTypes DEF LogFirst
  <1>3. Size[e] \in Nat
    BY BufferAssumption
  <1>4. late' \subseteq Entry /\ inAppend' \subseteq Entry
    BY <1>1 DEF LogFirst, AddFits, AddDispatches, AddPanics, NoteLate, BufferTypeOK
  <1>5. CASE AddFits(e)
    <2>1. BrokerTypeOK'
      BY <1>5, BrokerOpTypes DEF AddFits
    <2>2. FlusherTypeOK'
      BY <1>5 DEF AddFits, queueVars, FlusherTypeOK
    <2>3. /\ entries' \subseteq Entry
          /\ minTime' \in Nat /\ maxTime' \in Nat /\ service' \in ServiceName
      BY <1>5, FillTypes DEF AddFits, BufferTypeOK
    <2>4. sizeEst' \in Nat
      BY <1>3, <1>5 DEF AddFits, BufferTypeOK
    <2>5. BufferTypeOK'
      BY <1>4, <1>5, <2>3, <2>4 DEF AddFits, queueVars, loopVars, BufferTypeOK
    <2> QED BY <1>2, <2>1, <2>2, <2>5
  <1>6. CASE AddDispatches(e)
    <2>1. BrokerTypeOK'
      BY <1>6, BrokerOpTypes DEF AddDispatches
    <2>2. /\ FlusherTypeOK' /\ flushCh' \in Seq(Batch)
          /\ overflowed' \subseteq Entry /\ ticking' \in BOOLEAN
      BY <1>6, SendBatchTypes DEF AddDispatches
    <2>3. /\ entries' \subseteq Entry
          /\ minTime' \in Nat /\ maxTime' \in Nat /\ service' \in ServiceName
      BY <1>6, FillTypes DEF AddDispatches
    <2>4. sizeEst' \in Nat
      BY <1>3, <1>6 DEF AddDispatches
    <2>5. BufferTypeOK'
      BY <1>4, <1>6, <2>2, <2>3, <2>4 DEF AddDispatches, loopVars, BufferTypeOK
    <2> QED BY <1>2, <2>1, <2>2, <2>5
  <1>7. CASE AddPanics(e)
    <2>1. BrokerTypeOK'
      BY <1>7, BrokerOpTypes DEF AddPanics
    <2>2. /\ FlusherTypeOK' /\ flushCh' \in Seq(Batch)
          /\ overflowed' \subseteq Entry /\ ticking' \in BOOLEAN
      BY <1>7, SendBatchTypes DEF AddPanics
    <2>3. BufferTypeOK'
      BY <1>4, <1>7, <2>2 DEF AddPanics, ClearBuffer, loopVars, BufferTypeOK
    <2> QED BY <1>2, <2>1, <2>2, <2>3
  <1> QED BY <1>5, <1>6, <1>7

\* The buffer's goroutines and Stop preserve every type.
LEMMA BackgroundTypes ==
  ASSUME TypeOK, Background
  PROVE  TypeOK'
  <1> USE DEF TypeOK
  <1>0. ServerTypeOK'
    BY DEF Background, serverVars, ServerTypeOK
  <1>a. (UNCHANGED walVars => WALTypeOK') /\ (UNCHANGED brokerVars => BrokerTypeOK')
    BY WALOpTypes, BrokerOpTypes
  <1>b. UNCHANGED flusherVars => FlusherTypeOK'
    BY DEF flusherVars, FlusherTypeOK
  <1>1. CASE TickFire
    BY <1>0, <1>a, <1>b, <1>1 DEF TickFire, contentVars, queueVars, BufferTypeOK, flusherVars
  <1>2. CASE TickBody
    <2>1. CASE entries = {}
      BY <1>0, <1>a, <1>b, <1>2, <2>1
      DEF TickBody, SendBatch, contentVars, queueVars, BufferTypeOK, flusherVars
    <2>2. CASE entries # {}
      <3>1. SendBatch /\ ClearBuffer
        BY <1>2, <2>2 DEF TickBody
      <3> QED BY <1>0, <1>a, <1>2, <3>1, SendBatchTypes DEF TickBody, ClearBuffer, BufferTypeOK
    <2> QED BY <2>1, <2>2
  <1>3. CASE TickReturn
    BY <1>0, <1>a, <1>b, <1>3 DEF TickReturn, contentVars, queueVars, BufferTypeOK, flusherVars
  <1>4. CASE LoopTake
    <2>1. Head(flushCh) \in Batch /\ Tail(flushCh) \in Seq(Batch)
      BY <1>4 DEF LoopTake, BufferTypeOK
    <2>2. NewFlush(Head(flushCh), TRUE) \in Flush
      BY <2>1 DEF NewFlush, Flush
    <2>3. FlusherTypeOK'
      BY <1>4, <2>2 DEF LoopTake, FlusherTypeOK
    <2> QED BY <1>0, <1>a, <1>4, <2>1, <2>3
            DEF LoopTake, contentVars, loopVars, BufferTypeOK
  <1>5. CASE LoopReturn
    BY <1>0, <1>a, <1>b, <1>5 DEF LoopReturn, contentVars, queueVars, BufferTypeOK, flusherVars
  <1>6. CASE RunFlush
    <2>1. FlusherTypeOK'
      BY <1>6, FlushStepType DEF RunFlush
    <2>2. BufferTypeOK'
      BY <1>6 DEF RunFlush, bufferVars, contentVars, loopVars, BufferTypeOK
    <2> QED BY <1>0, <1>a, <1>6, <2>1, <2>2 DEF RunFlush
  <1>7. CASE StopTicker
    BY <1>0, <1>a, <1>b, <1>7 DEF StopTicker, contentVars, StopSteps, BufferTypeOK
  <1>8. CASE StopFlush
    <2>1. CASE entries = {}
      BY <1>0, <1>a, <1>b, <1>8, <2>1
      DEF StopFlush, contentVars, queueVars, StopSteps, BufferTypeOK, flusherVars
    <2>2. CASE entries # {}
      <3>1. SendBatch /\ ClearBuffer
        BY <1>8, <2>2 DEF StopFlush
      <3> QED BY <1>0, <1>a, <1>8, <3>1, SendBatchTypes
              DEF StopFlush, ClearBuffer, StopSteps, BufferTypeOK
    <2> QED BY <2>1, <2>2
  <1>9. CASE StopCloseCh
    BY <1>0, <1>a, <1>b, <1>9
    DEF StopCloseCh, contentVars, queueVars, StopSteps, BufferTypeOK, flusherVars
  <1>10. CASE StopWait
    BY <1>0, <1>a, <1>b, <1>10
    DEF StopWait, contentVars, queueVars, StopSteps, BufferTypeOK, flusherVars
  <1>11. CASE StopReset
    <2>1. WALTypeOK'
      <3>1. CASE StopTruncate
        <4>1. CASE UNCHANGED walVars
          BY <1>a, <4>1
        <4>2. CASE EmptyFile /\ stale' = TRUE /\ UNCHANGED <<encErr, walOpen, logged>>
          <5>1. <<>> \in Seq(SUBSET Fragment)
            OBVIOUS
          <5> QED BY <4>2, <5>1 DEF EmptyFile, WALTypeOK
        <4> QED BY <3>1, <4>1, <4>2, Zenon DEF StopTruncate
      <3>2. CASE StopRenew
        BY <3>2 DEF StopRenew, WALTypeOK
      <3>3. CASE StopRecount
        BY <3>3 DEF StopRecount, WALTypeOK, BufferTypeOK
      <3> QED BY <1>11, <3>1, <3>2, <3>3 DEF StopReset
    <2>2. /\ stopPc' \in StopSteps
          /\ UNCHANGED <<contentVars, queueVars, tickPc, chClosed, loopDone, late, inAppend,
                         chunks, indexes, dropped, brokerVars>>
      BY <1>11 DEF StopReset, StopTruncate, StopRenew, StopRecount, StopSteps
    <2> QED BY <1>0, <1>a, <1>b, <2>1, <2>2
            DEF contentVars, queueVars, BufferTypeOK, flusherVars
  <1>12. CASE StopCloseWAL
    <2>1. WALTypeOK'
      BY <1>12, WALOpTypes DEF StopCloseWAL
    <2> QED BY <1>0, <1>a, <1>b, <1>12, <2>1
            DEF StopCloseWAL, contentVars, queueVars, StopSteps, BufferTypeOK, flusherVars
  <1> QED BY <1>1, <1>2, <1>3, <1>4, <1>5, <1>6, <1>7, <1>8, <1>9, <1>10, <1>11, <1>12
          DEF Background

\* The end of a process preserves every type but that of the log's file.
LEMMA DieTypes ==
  ASSUME TypeOK, NEW how \in {"crashed", "exited"}, Die(how)
  PROVE  /\ BrokerTypeOK' /\ FlusherTypeOK' /\ BufferTypeOK' /\ ServerTypeOK'
         /\ walOpen' \in BOOLEAN /\ encErr' \in BOOLEAN /\ logged' \subseteq Entry
         /\ stale' \in BOOLEAN
  <1>1. BrokerTypeOK'
    BY BrokerOpTypes DEF Die, TypeOK
  <1>2. FlusherTypeOK'
    BY DEF Die, FlushesLost, FlusherTypeOK, TypeOK
  <1>3. BufferTypeOK'
    <2>1. <<>> \in Seq(Batch)
      OBVIOUS
    <2> QED BY <2>1, ServiceNames DEF Die, BufferLost, FreshLoops, BufferTypeOK, StopSteps, TypeOK
  <1>4. ServerTypeOK'
    BY DEF Die, ServerTypeOK, TypeOK
  <1> QED BY <1>1, <1>2, <1>3, <1>4 DEF Die

\* TypeOK is inductive.
LEMMA TypeInductive ==
  ASSUME TypeOK, [Next]_vars
  PROVE  TypeOK'
  <1>a. (UNCHANGED walVars => WALTypeOK') /\ (UNCHANGED brokerVars => BrokerTypeOK')
    BY WALOpTypes, BrokerOpTypes DEF TypeOK
  <1>b. UNCHANGED flusherVars => FlusherTypeOK'
    BY DEF flusherVars, FlusherTypeOK, TypeOK
  <1>c. UNCHANGED bufferVars => BufferTypeOK'
    BY DEF bufferVars, contentVars, loopVars, BufferTypeOK, TypeOK
  <1>d. \A how \in {"crashed", "exited"} : Die(how) /\ UNCHANGED <<lines, tail>> => TypeOK'
    BY DieTypes DEF TypeOK, WALTypeOK
  <1>1. ASSUME NEW r \in Request, Handle(r) PROVE TypeOK'
    <2>1. CASE Receive(r)
      BY <1>a, <1>b, <1>c, <2>1 DEF Receive, ServerTypeOK, TypeOK
    <2>2. ASSUME NEW e \in Entry, SkipEntry(r, e) PROVE TypeOK'
      BY <1>a, <1>b, <1>c, <2>2 DEF SkipEntry, Advance, ServerTypeOK, TypeOK
    <2>3. ASSUME NEW e \in Entry, AcceptEntry(r, e) PROVE TypeOK'
      <3>1. WALTypeOK' /\ BrokerTypeOK' /\ FlusherTypeOK' /\ BufferTypeOK'
        BY <2>3, AddTypes DEF AcceptEntry, TypeOK
      <3> QED BY <2>3, <3>1 DEF AcceptEntry, Advance, ServerTypeOK, TypeOK
    <2>4. ASSUME NEW e \in Entry, AbortRequest(r, e) PROVE TypeOK'
      <3>1. WALTypeOK' /\ BrokerTypeOK' /\ FlusherTypeOK' /\ BufferTypeOK'
        BY <2>4, AddTypes DEF AbortRequest, TypeOK
      <3> QED BY <2>4, <3>1 DEF AbortRequest, ServerTypeOK, TypeOK
    <2>5. CASE Respond(r)
      BY <1>a, <1>b, <1>c, <2>5 DEF Respond, ServerTypeOK, TypeOK
    <2> QED BY <1>1, <2>1, <2>2, <2>3, <2>4, <2>5 DEF Handle
  <1>2. ASSUME NEW r \in Request, NEW e \in Entry, CrashInAdd(r, e) PROVE TypeOK'
    <2>1. AppendCutShort(e)
      BY <1>2 DEF CrashInAdd
    <2>2. lines' \in Seq(SUBSET Fragment) /\ tail' \subseteq Fragment
      BY <2>1, WriteTypes DEF AppendCutShort, TypeOK, WALTypeOK
    <2> QED BY <1>2, <2>2, DieTypes DEF CrashInAdd, TypeOK, WALTypeOK
  <1>3. CASE Background
    BY <1>3, BackgroundTypes
  <1>4. CASE Tailing
    <2>1. BrokerTypeOK'
      BY <1>4, BrokerOpTypes DEF Tailing, TypeOK
    <2>2. ServerTypeOK'
      BY <1>4 DEF Tailing, serverVars, ServerTypeOK, TypeOK
    <2> QED BY <1>a, <1>b, <1>c, <1>4, <2>1, <2>2 DEF Tailing, TypeOK
  <1>5. CASE Shutdown
    BY <1>a, <1>b, <1>5
    DEF Shutdown, serverVars, contentVars, StopSteps, BufferTypeOK, ServerTypeOK, TypeOK
  <1>6. CASE Exit
    BY <1>d, <1>6 DEF Exit
  <1>7. CASE TickCrash
    BY <1>d, <1>7 DEF TickCrash
  <1>8. CASE Crash
    BY <1>d, <1>8 DEF Crash
  <1>9. CASE Start
    <2>1. PICK R \in SUBSET Entry : Replayed(R)
      BY <1>9 DEF Start
    <2>2. /\ entries' \subseteq Entry /\ sizeEst' \in Nat
          /\ minTime' \in Nat /\ maxTime' \in Nat /\ service' \in ServiceName
      <3>1. CASE R = {} /\ minTime' = 0 /\ maxTime' = 0 /\ service' = ""
        BY <2>1, <3>1, ServiceNames DEF Replayed
      <3>2. CASE \E first, earliest, latest \in R :
                    /\ service' = Service[first]
                    /\ minTime' = Timestamp[earliest]
                    /\ maxTime' = Timestamp[latest]
        <4>1. PICK first, earliest, latest \in R :
                 /\ service' = Service[first]
                 /\ minTime' = Timestamp[earliest]
                 /\ maxTime' = Timestamp[latest]
          BY <3>2
        <4>2. first \in Entry /\ earliest \in Entry /\ latest \in Entry
          OBVIOUS
        <4>3. Timestamp[earliest] \in Nat /\ Timestamp[latest] \in Nat
          BY <4>2, FlusherAssumption
        <4>4. entries' = R /\ sizeEst' = 0
          BY <2>1 DEF Replayed
        <4> QED BY <4>1, <4>2, <4>3, <4>4, ServiceNames
      <3>3. entries' = R /\ sizeEst' = 0
        BY <2>1 DEF Replayed
      <3>4. \/ R = {} /\ minTime' = 0 /\ maxTime' = 0 /\ service' = ""
            \/ \E first, earliest, latest \in R :
                 /\ service' = Service[first]
                 /\ minTime' = Timestamp[earliest]
                 /\ maxTime' = Timestamp[latest]
        BY <2>1, Zenon DEF Replayed
      <3> QED BY <3>1, <3>2, <3>3, <3>4
    <2>2a. <<>> \in Seq(Batch)
      OBVIOUS
    <2>3. BufferTypeOK'
      BY <1>9, <2>2, <2>2a DEF Start, FreshLoops, StopSteps, BufferTypeOK, TypeOK
    <2>4. WALTypeOK'
      BY <1>9, WALOpTypes DEF Start, TypeOK
    <2>5. ServerTypeOK'
      BY <1>9 DEF Start, ServerTypeOK, TypeOK
    <2> QED BY <1>a, <1>b, <1>9, <2>3, <2>4, <2>5 DEF Start, TypeOK
  <1>10. CASE UNCHANGED vars
    BY <1>a, <1>b, <1>c, <1>10 DEF vars, serverVars, ServerTypeOK, TypeOK
  <1> QED BY <1>1, <1>2, <1>3, <1>4, <1>5, <1>6, <1>7, <1>8, <1>9, <1>10 DEF Next

\* TypeOK holds at the start.
LEMMA TypeInit ==
  ASSUME Init
  PROVE  TypeOK
  <1>1. <<>> \in Seq(SUBSET Fragment) /\ <<>> \in Seq(Batch) /\ <<>> \in Seq(Entry)
    OBVIOUS
  <1>2. WALTypeOK
    BY <1>1 DEF Init, WALInit, WALTypeOK
  <1>3. BrokerTypeOK
    BY <1>1 DEF Init, BrokerInit, BrokerTypeOK
  <1>4. FlusherTypeOK
    BY DEF Init, FlusherInit, FlusherTypeOK
  <1>5. BufferTypeOK
    BY <1>1, ServiceNames DEF Init, BufferInit, BufferTypeOK, StopSteps
  <1>6. ServerTypeOK
    BY DEF Init, ServerTypeOK
  <1> QED BY <1>2, <1>3, <1>4, <1>5, <1>6 DEF TypeOK

\* Type correctness of the whole ingester.
THEOREM TypeCorrect == Spec => []TypeOK
  BY TypeInit, TypeInductive, PTL DEF Spec

----------------------------------------------------------------------------
(* Batches.  What is recorded about a batch is true of it, and an index    *)
(* file never precedes its chunk: both follow from one invariant, BatchInv. *)
(* Its step is proved once per thing that can happen to batches, by the    *)
(* lemma BatchStep that sorts the steps of the ingester accordingly.       *)

contents == <<entries, minTime, maxTime, service>>
shipped == <<flushCh, flushing, chunks, indexes>>

\* Every step leaves the batches alone, fills the buffer, dispatches it, gives
\* it up in a panic, advances a flush, ends the process or starts one.
LEMMA BatchStep ==
  ASSUME [Next]_vars
  PROVE  \/ UNCHANGED <<contents, shipped>>
         \/ \E r \in Request, e \in Entry :
              At(r, e) /\ Fill(entries, e) /\ UNCHANGED shipped
         \/ \E r \in Request, e \in Entry :
              At(r, e) /\ entries # {} /\ SendBatch /\ Fill({}, e)
         \/ entries # {} /\ SendBatch /\ ClearBuffer
         \/ ClearBuffer /\ UNCHANGED shipped /\ entries \subseteq dropped'
         \/ LoopTake
         \/ (\E f \in flushing : FlushStep(f)) /\ UNCHANGED <<contents, flushCh>>
         \/ \E how \in {"crashed", "exited"} : Die(how)
         \/ Start
  <1> USE DEF contents, shipped
  <1>1. ASSUME NEW r \in Request, Receive(r) \/ Respond(r) PROVE UNCHANGED <<contents, shipped>>
    BY <1>1 DEF Receive, Respond, bufferVars, contentVars, flusherVars
  <1>2. ASSUME NEW r \in Request, NEW e \in Entry, SkipEntry(r, e)
        PROVE  UNCHANGED <<contents, shipped>>
    BY <1>2 DEF SkipEntry, bufferVars, contentVars, flusherVars
  <1>3. ASSUME NEW r \in Request, NEW e \in Entry, AcceptEntry(r, e)
        PROVE  /\ At(r, e)
               /\ \/ Fill(entries, e) /\ UNCHANGED shipped
                  \/ entries # {} /\ SendBatch /\ Fill({}, e)
    BY <1>3 DEF AcceptEntry, AddFits, AddDispatches, Exceeds, queueVars
  <1>4. ASSUME NEW r \in Request, NEW e \in Entry, AbortRequest(r, e)
        PROVE  ClearBuffer /\ UNCHANGED shipped /\ entries \subseteq dropped'
    BY <1>4 DEF AbortRequest, AddPanics, SendPanics
  <1>5. CASE Background
    <2>1. CASE TickFire \/ TickReturn \/ LoopReturn \/ StopTicker \/ StopCloseCh
                 \/ StopWait \/ StopReset \/ StopCloseWAL
      BY <2>1 DEF TickFire, TickReturn, LoopReturn, StopTicker, StopCloseCh, StopWait,
                  StopReset, StopTruncate, StopRenew, StopRecount, StopCloseWAL,
                  contentVars, queueVars, flusherVars
    <2>2. CASE TickBody \/ StopFlush
      BY <2>2 DEF TickBody, StopFlush, contentVars, queueVars
    <2>3. CASE RunFlush
      BY <2>3 DEF RunFlush, bufferVars, contentVars
    <2> QED BY <1>5, <2>1, <2>2, <2>3 DEF Background
  <1>6. CASE Tailing \/ Shutdown
    BY <1>6 DEF Tailing, Shutdown, bufferVars, contentVars, flusherVars
  <1>7. CASE UNCHANGED vars
    BY <1>7 DEF vars, bufferVars, contentVars, flusherVars
  <1>8. ASSUME NEW r \in Request, Handle(r)
        PROVE  \/ UNCHANGED <<contents, shipped>>
               \/ \E e \in Entry : At(r, e) /\ Fill(entries, e) /\ UNCHANGED shipped
               \/ \E e \in Entry : At(r, e) /\ entries # {} /\ SendBatch /\ Fill({}, e)
               \/ ClearBuffer /\ UNCHANGED shipped /\ entries \subseteq dropped'
    <2>1. CASE Receive(r) \/ Respond(r)
      BY <1>1, <2>1
    <2>2. CASE \E e \in Entry : SkipEntry(r, e) \/ AcceptEntry(r, e) \/ AbortRequest(r, e)
      <3>1. PICK e \in Entry : SkipEntry(r, e) \/ AcceptEntry(r, e) \/ AbortRequest(r, e)
        BY <2>2
      <3> HIDE DEF contents, shipped
      <3> QED BY <1>2, <1>3, <1>4, <3>1
    <2> QED BY <1>8, <2>1, <2>2 DEF Handle
  <1>9. CASE Exit \/ TickCrash \/ Crash \/ \E r \in Request, e \in Entry : CrashInAdd(r, e)
    BY <1>9 DEF Exit, TickCrash, Crash, CrashInAdd
  <1> HIDE DEF contents, shipped
  <1> QED BY <1>5, <1>6, <1>7, <1>8, <1>9 DEF Next

----------------------------------------------------------------------------
(* The invariant.                                                          *)

\* The batches are described, and a flush that is at its index file has stored
\* its chunk.
BatchInv ==
  /\ BatchesDescribed
  /\ IndexedChunksExist
  /\ \A f \in flushing : f.step = "index" => f.batch \in chunks

\* Filling the buffer leaves it described: an empty buffer starts over, one
\* that holds entries widens its range.
LEMMA FillDescribes ==
  ASSUME TypeOK, NEW held \in SUBSET Entry, NEW e \in Entry, Fill(held, e),
         held = {} \/ (held = entries /\ Describes(CurrentBatch))
  PROVE  Describes(CurrentBatch)'
  <1>1. Timestamp[e] \in Nat /\ \A x \in Entry : Timestamp[x] \in Nat
    BY FlusherAssumption
  <1>2. minTime \in Nat /\ maxTime \in Nat
    BY DEF TypeOK, BufferTypeOK
  <1>3. CASE held = {}
    BY <1>1, <1>3 DEF Fill, Describes, CurrentBatch
  <1>4. CASE held # {} /\ held = entries /\ Describes(CurrentBatch)
    <2>1. /\ \E x \in entries : Service[x] = service
          /\ \E x \in entries : Timestamp[x] = minTime
          /\ \E x \in entries : Timestamp[x] = maxTime
          /\ \A x \in entries : minTime <= Timestamp[x] /\ Timestamp[x] <= maxTime
      BY <1>4 DEF Describes, CurrentBatch
    <2>2. /\ entries' = entries \cup {e}
          /\ service' = service
          /\ minTime' = IF Timestamp[e] < minTime THEN Timestamp[e] ELSE minTime
          /\ maxTime' = IF Timestamp[e] > maxTime THEN Timestamp[e] ELSE maxTime
      BY <1>4 DEF Fill
    <2>3. /\ \E x \in entries' : Service[x] = service'
          /\ \E x \in entries' : Timestamp[x] = minTime'
          /\ \E x \in entries' : Timestamp[x] = maxTime'
      BY <2>1, <2>2
    <2>4. \A x \in entries' : minTime' <= Timestamp[x] /\ Timestamp[x] <= maxTime'
      BY <1>1, <1>2, <1>4, <2>1, <2>2
    <2> QED BY <2>3, <2>4 DEF Describes, CurrentBatch
  <1> QED BY <1>3, <1>4

\* Dispatching a described buffer keeps every shipped batch described.
LEMMA SendDescribes ==
  ASSUME TypeOK, BatchInv, entries # {}, SendBatch
  PROVE  /\ \A b \in Range(flushCh)' \cup chunks' \cup indexes' : Describes(b)
         /\ \A f \in flushing' : Describes(f.batch)
         /\ indexes' \subseteq chunks'
         /\ \A f \in flushing' : f.step = "index" => f.batch \in chunks'
  <1>1. Describes(CurrentBatch) /\ CurrentBatch \in Batch
    BY SendBatchTypes DEF BatchInv, BatchesDescribed, TypeOK
  <1>2. chunks' = chunks /\ indexes' = indexes
    BY DEF SendBatch
  <1>3. CASE flushCh' = Append(flushCh, CurrentBatch) /\ UNCHANGED flushing
    <2>1. Range(flushCh)' = Range(flushCh) \cup {CurrentBatch}
      BY <1>1, <1>3, RangeAppend DEF TypeOK, BufferTypeOK
    <2> QED BY <1>1, <1>2, <1>3, <2>1 DEF BatchInv, BatchesDescribed, IndexedChunksExist
  <1>4. CASE flushing' = flushing \cup {NewFlush(CurrentBatch, FALSE)} /\ UNCHANGED flushCh
    <2>1. /\ NewFlush(CurrentBatch, FALSE).batch = CurrentBatch
          /\ NewFlush(CurrentBatch, FALSE).step = "put"
      BY DEF NewFlush
    <2> QED BY <1>1, <1>2, <1>4, <2>1 DEF BatchInv, BatchesDescribed, IndexedChunksExist
  <1> QED BY <1>3, <1>4 DEF SendBatch

\* A step of a flush keeps every shipped batch described and stores the chunk
\* before its index file.
LEMMA FlushDescribes ==
  ASSUME TypeOK, BatchInv, NEW f \in flushing, FlushStep(f)
  PROVE  /\ \A b \in chunks' \cup indexes' : Describes(b)
         /\ \A g \in flushing' : Describes(g.batch)
         /\ indexes' \subseteq chunks'
         /\ \A g \in flushing' : g.step = "index" => g.batch \in chunks'
  <1>1. f \in Flush /\ Describes(f.batch)
    BY DEF TypeOK, FlusherTypeOK, BatchInv, BatchesDescribed
  <1>2. CASE PutOK(f)
    <2>1. [f EXCEPT !.step = "index"].batch = f.batch
      BY <1>1 DEF Flush
    <2> QED BY <1>1, <1>2, <2>1 DEF PutOK, BatchInv, BatchesDescribed, IndexedChunksExist
  <1>3. CASE PutError(f)
    <2>1. /\ [f EXCEPT !.attempt = @ + 1].batch = f.batch
          /\ [f EXCEPT !.attempt = @ + 1].step = f.step
      BY <1>1 DEF Flush
    <2>2. f.step = "put" /\ indexes' = indexes
      BY <1>3 DEF PutError
    <2>3. chunks' = chunks \/ chunks' = chunks \cup {f.batch}
      BY <1>3 DEF PutError
    <2>4. \A g \in flushing' : g \in flushing \/ g = [f EXCEPT !.attempt = @ + 1]
      BY <1>3 DEF PutError
    <2> QED BY <1>1, <2>1, <2>2, <2>3, <2>4 DEF BatchInv, BatchesDescribed, IndexedChunksExist
  <1>4. CASE IndexWrite(f)
    BY <1>1, <1>4 DEF IndexWrite, BatchInv, BatchesDescribed, IndexedChunksExist
  <1> QED BY <1>2, <1>3, <1>4 DEF FlushStep

\* BatchInv is inductive.
LEMMA BatchInductive ==
  ASSUME TypeOK, BatchInv, [Next]_vars
  PROVE  BatchInv'
  <1>1. CASE UNCHANGED <<contents, shipped>>
    BY <1>1 DEF contents, shipped, BatchInv, BatchesDescribed, IndexedChunksExist,
                CurrentBatch, Describes, Range
  <1>2. ASSUME NEW e \in Entry, Fill(entries, e), UNCHANGED shipped PROVE BatchInv'
    <2>1. Describes(CurrentBatch)'
      BY <1>2, FillDescribes DEF TypeOK, BufferTypeOK, BatchInv, BatchesDescribed
    <2> QED BY <1>2, <2>1 DEF shipped, BatchInv, BatchesDescribed, IndexedChunksExist, Range
  <1>3. ASSUME NEW e \in Entry, entries # {}, SendBatch, Fill({}, e) PROVE BatchInv'
    <2>1. Describes(CurrentBatch)'
      BY <1>3, FillDescribes
    <2> QED BY <1>3, <2>1, SendDescribes DEF BatchInv, BatchesDescribed, IndexedChunksExist
  <1>4. CASE entries # {} /\ SendBatch /\ ClearBuffer
    BY <1>4, SendDescribes DEF ClearBuffer, BatchInv, BatchesDescribed, IndexedChunksExist
  <1>5. CASE ClearBuffer /\ UNCHANGED shipped
    BY <1>5 DEF ClearBuffer, shipped, BatchInv, BatchesDescribed, IndexedChunksExist, Range
  <1>6. CASE LoopTake
    <2>1. Range(flushCh) = {Head(flushCh)} \cup Range(Tail(flushCh))
      BY <1>6, RangeHeadTail DEF LoopTake, TypeOK, BufferTypeOK
    <2>2. /\ NewFlush(Head(flushCh), TRUE).batch = Head(flushCh)
          /\ NewFlush(Head(flushCh), TRUE).step = "put"
      BY DEF NewFlush
    <2>3. /\ flushing' = flushing \cup {NewFlush(Head(flushCh), TRUE)}
          /\ Range(flushCh)' = Range(Tail(flushCh))
          /\ UNCHANGED <<contents, chunks, indexes>>
      BY <1>6 DEF LoopTake, contentVars, contents
    <2>4. (entries # {} => Describes(CurrentBatch))'
      BY <2>3 DEF contents, CurrentBatch, Describes, BatchInv, BatchesDescribed
    <2> QED BY <2>1, <2>2, <2>3, <2>4 DEF BatchInv, BatchesDescribed, IndexedChunksExist
  <1>7. ASSUME NEW f \in flushing, FlushStep(f), UNCHANGED <<contents, flushCh>> PROVE BatchInv'
    <2>1. (entries # {} => Describes(CurrentBatch))'
      BY <1>7 DEF contents, CurrentBatch, Describes, BatchInv, BatchesDescribed
    <2>2. \A b \in Range(flushCh)' : Describes(b)
      BY <1>7 DEF BatchInv, BatchesDescribed, Range
    <2> QED BY <1>7, <2>1, <2>2, FlushDescribes DEF BatchInv, BatchesDescribed, IndexedChunksExist
  <1>8. ASSUME NEW how \in {"crashed", "exited"}, Die(how) PROVE BatchInv'
    BY <1>8, RangeEmpty DEF Die, BufferLost, FreshLoops, FlushesLost,
                            BatchInv, BatchesDescribed, IndexedChunksExist
  <1>9. CASE Start
    <2>1. PICK R \in SUBSET Entry : Replayed(R)
      BY <1>9 DEF Start
    <2>2. (entries # {} => Describes(CurrentBatch))'
      <3>1. CASE R = {}
        BY <2>1, <3>1 DEF Replayed
      <3>2. CASE R # {}
        <4>1. PICK first, earliest, latest \in R :
                /\ \A e \in R : Timestamp[earliest] <= Timestamp[e]
                                  /\ Timestamp[e] <= Timestamp[latest]
                /\ service' = Service[first]
                /\ minTime' = Timestamp[earliest]
                /\ maxTime' = Timestamp[latest]
          BY <2>1, <3>2, Zenon DEF Replayed
        <4>2. entries' = R
          BY <2>1 DEF Replayed
        <4> QED BY <4>1, <4>2 DEF Describes, CurrentBatch
      <3> QED BY <3>1, <3>2
    <2>3. flushCh' = <<>> /\ UNCHANGED <<flushing, chunks, indexes>>
      BY <1>9 DEF Start, FreshLoops, flusherVars
    <2> QED BY <2>2, <2>3, RangeEmpty DEF BatchInv, BatchesDescribed, IndexedChunksExist
  <1> QED BY <1>1, <1>2, <1>3, <1>4, <1>5, <1>6, <1>7, <1>8, <1>9, BatchStep, Zenon

\* BatchInv holds at the start.
LEMMA BatchInit ==
  ASSUME Init
  PROVE  BatchInv
  BY RangeEmpty DEF Init, BufferInit, FlusherInit, BatchInv, BatchesDescribed, IndexedChunksExist

\* Whatever is replayed, batched, queued, retried or lost, the time range and
\* the service that readers select a chunk by describe the chunk.
THEOREM BatchesAreDescribed == Spec => []BatchesDescribed
  <1>1. Init => BatchInv
    BY BatchInit
  <1>2. TypeOK /\ BatchInv /\ [Next]_vars => BatchInv'
    BY BatchInductive
  <1>3. BatchInv => BatchesDescribed
    BY DEF BatchInv
  <1> QED BY <1>1, <1>2, <1>3, TypeCorrect, PTL DEF Spec

\* A reader that finds an index file in the bucket finds the chunk it names.
THEOREM IndexFollowsChunk == Spec => []IndexedChunksExist
  <1>1. Init => BatchInv
    BY BatchInit
  <1>2. TypeOK /\ BatchInv /\ [Next]_vars => BatchInv'
    BY BatchInductive
  <1>3. BatchInv => IndexedChunksExist
    BY DEF BatchInv
  <1> QED BY <1>1, <1>2, <1>3, TypeCorrect, PTL DEF Spec

----------------------------------------------------------------------------
(* Handing batches on.                                                     *)

\* Dispatching moves the buffer's entries and neither adds nor loses any.
LEMMA SendMoves ==
  ASSUME TypeOK, SendBatch
  PROVE  /\ Queued' \cup InFlight' = entries \cup Queued \cup InFlight
         /\ Stored' = Stored
  <1>1. CurrentBatch \in Batch /\ CurrentBatch.entries = entries
    BY SendBatchTypes DEF TypeOK, CurrentBatch
  <1>2. Stored' = Stored
    BY DEF SendBatch, Stored
  <1>3. CASE flushCh' = Append(flushCh, CurrentBatch) /\ UNCHANGED flushing
    <2>1. Range(flushCh)' = Range(flushCh) \cup {CurrentBatch}
      BY <1>1, <1>3, RangeAppend DEF TypeOK, BufferTypeOK
    <2>2. Queued' = Queued \cup entries
      BY <1>1, <2>1 DEF Queued
    <2>3. InFlight' = InFlight
      BY <1>3 DEF InFlight
    <2> QED BY <1>2, <2>2, <2>3
  <1>4. CASE flushing' = flushing \cup {NewFlush(CurrentBatch, FALSE)} /\ UNCHANGED flushCh
    <2>1. NewFlush(CurrentBatch, FALSE).batch = CurrentBatch
      BY DEF NewFlush
    <2>2. InFlight' = InFlight \cup entries
      BY <1>1, <1>4, <2>1 DEF InFlight
    <2>3. Queued' = Queued
      BY <1>4 DEF Queued, Range
    <2> QED BY <1>2, <2>2, <2>3
  <1> QED BY <1>3, <1>4 DEF SendBatch

\* Taking a batch off the queue moves its entries into flight.
LEMMA TakeMoves ==
  ASSUME TypeOK, LoopTake
  PROVE  InMemory' = InMemory /\ Stored' = Stored
  <1>1. Range(flushCh) = {Head(flushCh)} \cup Range(flushCh)'
    BY RangeHeadTail DEF LoopTake, TypeOK, BufferTypeOK
  <1>2. NewFlush(Head(flushCh), TRUE).batch = Head(flushCh)
    BY DEF NewFlush
  <1>3. Queued = Head(flushCh).entries \cup Queued'
    BY <1>1 DEF Queued
  <1>4. InFlight' = Head(flushCh).entries \cup InFlight
    BY <1>2 DEF LoopTake, InFlight
  <1>5. entries' = entries /\ Stored' = Stored
    BY DEF LoopTake, contentVars, Stored
  <1> QED BY <1>3, <1>4, <1>5 DEF InMemory
=============================================================================
