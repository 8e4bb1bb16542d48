-------------------------- MODULE RefinementProofs --------------------------
(***************************************************************************)
(* The ingester implements DurableLog: with a write-ahead log on a disk    *)
(* that works, and lines that fit the scanner, no accepted entry is let go *)
(* of except by a process that was told to stop, and none comes back.      *)
(*                                                                         *)
(* The invariants are those of OnceProofs and DurabilityProofs and one of  *)
(* its own, HeldInv.  A step is mapped through the six facts of            *)
(* AbstractStep, of which only the sets an entry is in appear.             *)
(***************************************************************************)
EXTENDS OnceProofs, DurabilityProofs

\* Where an entry may be that is not lost, besides the bucket.
Kept == InMemory \cup Recovered

\* Until Stop is called, what was accepted and is in memory is in the log too.
HeldInv == proc = "up" /\ stopPc = "run" => accepted \cap InMemory \subseteq Recovered

RefinementInv ==
  TypeOK /\ BatchInv /\ StopInv /\ DurabilityInv /\ FreshInv /\ GoneInv /\ HeldInv

----------------------------------------------------------------------------
(* The fate of an entry.                                                   *)

\* FateOf by the sets it is defined from, before and after a step.
LEMMA FateCases ==
  ASSUME NEW e
  PROVE  /\ e \notin accepted => FateOf(e) = "new"
         /\ e \in accepted /\ e \in Stored => FateOf(e) = "stored"
         /\ e \in accepted /\ e \notin Stored /\ e \in Kept => FateOf(e) = "held"
         /\ e \in accepted /\ e \notin Stored /\ e \notin Kept => FateOf(e) = "lost"
         /\ e \notin accepted' => FateOf(e)' = "new"
         /\ e \in accepted' /\ e \in Stored' => FateOf(e)' = "stored"
         /\ e \in accepted' /\ e \notin Stored' /\ e \in Kept' => FateOf(e)' = "held"
         /\ e \in accepted' /\ e \notin Stored' /\ e \notin Kept' => FateOf(e)' = "lost"
  BY DEF FateOf, Kept

\* Accepting e takes it from "new" to "held" and leaves every other fate.
LEMMA AbstractAccept ==
  ASSUME NEW e \in Entry, e \notin accepted, accepted' = accepted \cup {e},
         e \in Kept', e \notin Stored', stopPc' = stopPc, Stored' = Stored,
         \A d \in Entry : d # e => (d \in Kept' <=> d \in Kept)
  PROVE  Durable!DurableNext
  <1>1. FateOf(e) = "new" /\ FateOf(e)' = "held"
    BY FateCases
  <1>2. ASSUME NEW d \in Entry, d # e PROVE FateOf(d)' = FateOf(d)
    BY <1>2, FateCases
  <1>3. Durable!Accept(e)
    BY <1>1, <1>2 DEF Durable!Accept, Durable!Become
  <1> QED BY <1>3 DEF Durable!DurableNext

\* Any other step that brings no accepted entry back, that empties the log only
\* while the process stops, and that loses and stores nothing at once.
LEMMA AbstractStep ==
  ASSUME accepted' = accepted,
         Stored \subseteq Stored' /\ Stored' \subseteq Stored \cup InMemory,
         accepted \cap Kept' \subseteq Kept,
         stopPc = "run" => accepted \cap Kept \subseteq Kept' \cup Stored',
         Stored' = Stored \/ accepted \cap Kept \subseteq Kept' \cup Stored',
         stopPc' # stopPc /\ "run" \in {stopPc, stopPc'} => Stored' = Stored
  PROVE  Durable!DurableNext
  <1> DEFINE gained == {e \in Entry : FateOf(e) = "held" /\ FateOf(e)' = "stored"}
             gone == {e \in Entry : FateOf(e) = "held" /\ FateOf(e)' = "lost"}
  <1>1. gained \in SUBSET Durable!Held /\ gone \in SUBSET Durable!Held
    BY DEF Durable!Held
  <1>2. \A e \in Entry : FateOf(e)' = FateOf(e) \/ e \in gained \/ e \in gone
    <2> SUFFICES ASSUME NEW e \in Entry
                 PROVE  FateOf(e)' = FateOf(e) \/ e \in gained \/ e \in gone
      OBVIOUS
    <2>1. CASE e \notin accepted
      BY <2>1, FateCases
    <2>2. CASE e \in accepted /\ e \in Stored
      BY <2>2, FateCases
    <2>3. CASE e \in accepted /\ e \notin Stored /\ e \in Kept
      BY <2>3, FateCases
    <2>4. CASE e \in accepted /\ e \notin Stored /\ e \notin Kept
      BY <2>4, FateCases DEF Kept
    <2> QED BY <2>1, <2>2, <2>3, <2>4
  <1>3. ASSUME Stored' = Stored PROVE gained = {}
    <2> SUFFICES ASSUME NEW e \in gained PROVE FALSE
      OBVIOUS
    <2>1. FateOf(e) = "held" /\ FateOf(e)' = "stored"
      OBVIOUS
    <2>2. e \in accepted /\ e \notin Stored
      BY <2>1, FateCases
    <2> QED BY <1>3, <2>1, <2>2, FateCases
  <1>4. ASSUME accepted \cap Kept \subseteq Kept' \cup Stored' PROVE gone = {}
    <2> SUFFICES ASSUME NEW e \in gone PROVE FALSE
      OBVIOUS
    <2>1. FateOf(e) = "held" /\ FateOf(e)' = "lost"
      OBVIOUS
    <2>2. e \in accepted /\ e \in Kept
      BY <2>1, FateCases
    <2>3. e \notin Stored' /\ e \notin Kept'
      BY <2>1, <2>2, FateCases
    <2> QED BY <1>4, <2>2, <2>3
  <1>5. gained \in SUBSET Entry /\ \A e \in gained : FateOf(e)' = "stored"
    OBVIOUS
  <1>6. gone \in SUBSET Entry /\ \A e \in gone : FateOf(e)' = "lost"
    OBVIOUS
  <1> HIDE DEF gained, gone
  <1>7. CASE (stopPc = "run") <=> (stopPc' = "run")
    <2>0. UNCHANGED (stopPc # "run")
      BY <1>7
    <2>1. CASE accepted \cap Kept \subseteq Kept' \cup Stored'
      <3>1. Durable!Store(gained)
        BY <1>2, <1>4, <1>5, <2>0, <2>1 DEF Durable!Store, Durable!Become
      <3> QED BY <1>1, <3>1 DEF Durable!DurableNext
    <2>2. CASE ~(accepted \cap Kept \subseteq Kept' \cup Stored')
      <3>1. stopPc # "run" /\ gained = {}
        BY <1>3, <2>2
      <3>2. Durable!Lose(gone)
        BY <1>2, <1>6, <2>0, <3>1 DEF Durable!Lose, Durable!Become
      <3> QED BY <1>1, <3>2 DEF Durable!DurableNext
    <2> QED BY <2>1, <2>2
  <1>8. CASE stopPc = "run" /\ stopPc' # "run"
    <2>1. gained = {} /\ gone = {}
      BY <1>3, <1>4, <1>8
    <2>2. Durable!StopAsked
      BY <1>2, <1>8, <2>1 DEF Durable!StopAsked
    <2> QED BY <2>2 DEF Durable!DurableNext
  <1>9. CASE stopPc # "run" /\ stopPc' = "run"
    <2>1. gained = {}
      BY <1>3, <1>9
    <2>2. Durable!End(gone)
      BY <1>2, <1>6, <1>9, <2>1 DEF Durable!End, Durable!Become
    <2> QED BY <1>1, <2>2 DEF Durable!DurableNext
  <1> QED BY <1>7, <1>8, <1>9

----------------------------------------------------------------------------
(* The steps of the ingester, as far as fates go.                          *)

\* Only a flush stores anything.
LEMMA StoredStep ==
  ASSUME TypeOK, [Next]_vars
  PROVE  Stored' = Stored \/ (Background /\ RunFlush)
  <1>a. UNCHANGED flusherVars => Stored' = Stored
    BY DEF flusherVars, Stored
  <1>1. ASSUME NEW r \in Request, Handle(r) PROVE Stored' = Stored
    <2>1. CASE Receive(r) \/ Respond(r)
      BY <1>a, <2>1 DEF Receive, Respond
    <2>2. ASSUME NEW e \in Entry, SkipEntry(r, e) PROVE Stored' = Stored
      BY <1>a, <2>2 DEF SkipEntry
    <2>3. ASSUME NEW e \in Entry, AcceptEntry(r, e) \/ AbortRequest(r, e) PROVE Stored' = Stored
      BY <2>3, AddMoves DEF AcceptEntry, AbortRequest
    <2> QED BY <1>1, <2>1, <2>2, <2>3 DEF Handle
  <1>2. CASE Exit \/ TickCrash \/ Crash \/ \E r \in Request, e \in Entry : CrashInAdd(r, e)
    BY <1>2, DieMoves DEF Exit, TickCrash, Crash, CrashInAdd
  <1>3. CASE Background
    BY <1>3, HandOn
  <1>4. CASE Tailing \/ Shutdown \/ Start \/ UNCHANGED vars
    BY <1>a, <1>4 DEF Tailing, Shutdown, Start, vars
  <1> QED BY <1>1, <1>2, <1>3, <1>4 DEF Next

\* Stop is called once in a process, and its steps never lead back.
LEMMA StopPcStep ==
  ASSUME [Next]_vars
  PROVE  \/ (stopPc = "run") <=> (stopPc' = "run")
         \/ Background /\ StopTicker
         \/ \E how \in {"crashed", "exited"} : Die(how)
         \/ Start
  <1>1. ASSUME NEW r \in Request, Handle(r) PROVE stopPc' = stopPc
    BY <1>1 DEF Handle, Receive, Respond, SkipEntry, AcceptEntry, AbortRequest, AddFits,
                AddDispatches, AddPanics, bufferVars, loopVars
  <1>2. CASE Exit \/ TickCrash \/ Crash \/ \E r \in Request, e \in Entry : CrashInAdd(r, e)
    BY <1>2 DEF Exit, TickCrash, Crash, CrashInAdd
  <1>3. CASE Background
    BY <1>3 DEF Background, TickFire, TickBody, TickReturn, LoopTake, LoopReturn, RunFlush,
                StopFlush, StopCloseCh, StopWait, StopReset, StopTruncate, StopRenew, StopRecount,
                StopCloseWAL, bufferVars, loopVars
  <1>4. CASE Tailing \/ Shutdown \/ UNCHANGED vars
    BY <1>4 DEF Tailing, Shutdown, vars, bufferVars, loopVars
  <1> QED BY <1>1, <1>2, <1>3, <1>4 DEF Next

\* Until Stop is called, the log has everything that was accepted and is kept.
LEMMA RunHeld ==
  ASSUME GoneInv, HeldInv, stopPc = "run"
  PROVE  accepted \cap Kept \subseteq Recovered
  <1>1. proc # "up" => InMemory = {}
    BY RangeEmpty DEF GoneInv, InMemory, Queued, InFlight
  <1> QED BY <1>1 DEF HeldInv, Kept

\* What the log recovers: a step that handles e may add e, which has not been
\* accepted; only Stop's Reset takes anything away.
LEMMA RecoveredStep ==
  ASSUME Lossless, RefinementInv, [Next]_vars
  PROVE  /\ Recovered \subseteq Recovered' \/ stopPc = "reset"
         /\ accepted \cap Recovered' \subseteq Recovered
  <1>1. ASSUME NEW r \in Request, NEW e \in Entry,
               AcceptEntry(r, e) \/ AbortRequest(r, e) \/ CrashInAdd(r, e)
        PROVE  Recovered \subseteq Recovered' /\ accepted \cap Recovered' \subseteq Recovered
    <2>1. e \notin accepted
      <3>1. At(r, e)
        BY <1>1 DEF AcceptEntry, AbortRequest, CrashInAdd
      <3> QED BY <3>1, AtAwaits DEF RefinementInv, FreshInv
    <2>2. LogClean /\ WALTypeOK
      BY DEF RefinementInv, DurabilityInv, TypeOK
    <2>3. Recovered \subseteq Recovered' /\ Recovered' \subseteq Recovered \cup {e}
      <3>1. CASE LogFirst(e)
        BY <2>2, <3>1, LogFirstRecovers
      <3>2. CASE AppendCutShort(e)
        <4>1. CASE UNCHANGED <<lines, tail>>
          BY <4>1, SameLogRecovers
        <4>2. CASE lines' = Append(lines, tail \cup {Whole(e)}) /\ tail' = {}
          BY <2>2, <4>2, AppendRecovers DEF Lossless
        <4> QED BY <3>2, <4>1, <4>2 DEF AppendCutShort, Lossless
      <3> QED BY <1>1, <3>1, <3>2
              DEF AcceptEntry, AbortRequest, CrashInAdd, AddFits, AddDispatches, AddPanics
    <2> QED BY <2>1, <2>3
  <1>2. CASE UNCHANGED <<lines, tail>>
    BY <1>2, SameLogRecovers
  <1>3. CASE stopPc = "reset" /\ lines' = <<>> /\ tail' = {}
    BY <1>3, EmptyLogRecovers
  <1> QED BY <1>1, <1>2, <1>3, HandlerStep DEF RefinementInv

\* A flush that stores its batch loses nothing.
LEMMA FlushStoresOrLoses ==
  ASSUME TypeOK, RunFlush
  PROVE  /\ Stored \subseteq Stored'
         /\ Stored' = Stored \/ InMemory \subseteq InMemory' \cup Stored'
  <1>1. PICK f \in flushing : FlushStep(f)
    BY DEF RunFlush
  <1>2. flushing \ {f} \subseteq flushing'
    BY <1>1 DEF FlushStep, PutOK, PutError, IndexWrite
  <1>3. InFlight \subseteq InFlight' \cup f.batch.entries
    BY <1>2 DEF InFlight
  <1>4. Queued' = Queued /\ entries' = entries
    BY DEF RunFlush, bufferVars, contentVars, Queued, Range
  <1>5. chunks' = chunks \/ chunks' = chunks \cup {f.batch}
    BY <1>1 DEF FlushStep, PutOK, PutError, IndexWrite
  <1>6. CASE chunks' = chunks
    BY <1>6 DEF Stored
  <1>7. CASE chunks' = chunks \cup {f.batch}
    <2>1. Stored' = Stored \cup f.batch.entries
      BY <1>7 DEF Stored
    <2> QED BY <1>3, <1>4, <2>1 DEF InMemory
  <1> QED BY <1>5, <1>6, <1>7

\* HeldInv is preserved: Add logs before it fills the buffer.
LEMMA HeldInductive ==
  ASSUME Lossless, RefinementInv, [Next]_vars
  PROVE  HeldInv'
  <1> USE DEF RefinementInv
  <1> SUFFICES ASSUME proc' = "up", stopPc' = "run"
               PROVE  accepted' \cap InMemory' \subseteq Recovered'
    BY DEF HeldInv
  <1>1. stopPc = "run"
    <2>1. ~\E how \in {"crashed", "exited"} : Die(how)
      BY DEF Die
    <2>2. Start => stopPc = "run"
      BY DEF Start, GoneInv
    <2> QED BY <2>1, <2>2, StopPcStep DEF StopTicker
  <1>2. /\ accepted \cap Kept \subseteq Recovered
        /\ Recovered \subseteq Recovered'
    BY <1>1, RunHeld, RecoveredStep
  <1>3. ASSUME NEW r \in Request, NEW e \in Entry, AcceptEntry(r, e)
        PROVE  accepted' \cap InMemory' \subseteq Recovered'
    <2>1. accepted' = accepted \cup {e} /\ InMemory' = InMemory \cup {e}
      BY <1>3, AddMoves DEF AcceptEntry
    <2>2. LogFirst(e) /\ proc = "up"
      BY <1>3 DEF AcceptEntry, AddFits, AddDispatches, At
    <2>3. e \in Recovered'
      BY <1>1, <2>2, LogFirstRecovers DEF DurabilityInv, TypeOK
    <2> QED BY <1>2, <2>1, <2>3 DEF Kept
  <1>4. ASSUME NEW r \in Request, NEW e \in Entry, AbortRequest(r, e) \/ CrashInAdd(r, e)
        PROVE  FALSE
    BY <1>1, <1>4 DEF AbortRequest, AddPanics, SendPanics, StopInv, CrashInAdd, Die
  <1>5. CASE accepted' = accepted /\ InMemory' \subseteq InMemory \cup Recovered
    BY <1>2, <1>5 DEF Kept
  <1> QED BY <1>3, <1>4, <1>5, HandlerStep

\* Every step of the ingester is a step of DurableLog.
LEMMA DurableStep ==
  ASSUME Lossless, RefinementInv, [Next]_vars
  PROVE  Durable!DurableNext
  <1> USE DEF RefinementInv
  <1>1. ASSUME NEW r \in Request, NEW e \in Entry, AcceptEntry(r, e)
        PROVE  Durable!DurableNext
    <2>1. /\ accepted' = accepted \cup {e} /\ InMemory' = InMemory \cup {e} /\ Stored' = Stored
      BY <1>1, AddMoves DEF AcceptEntry
    <2>2. LogFirst(e) /\ stopPc' = stopPc /\ At(r, e)
      BY <1>1 DEF AcceptEntry, AddFits, AddDispatches, loopVars
    <2>3. e \notin accepted /\ e \notin Stored
      BY <2>2, AtAwaits DEF FreshInv
    <2>4. Recovered \subseteq Recovered' /\ Recovered' \subseteq Recovered \cup {e}
      BY <2>2, LogFirstRecovers DEF DurabilityInv, TypeOK
    <2> QED BY <2>1, <2>2, <2>3, <2>4, AbstractAccept DEF Kept
  <1>2. ASSUME accepted' = accepted, accepted \cap InMemory' \subseteq InMemory \cup Recovered
        PROVE  Durable!DurableNext
    <2>1. accepted \cap Kept' \subseteq Kept
      BY <1>2, RecoveredStep DEF Kept
    <2>2. stopPc = "run" => accepted \cap Kept \subseteq Kept' \cup Stored'
      BY RunHeld, RecoveredStep DEF Kept
    <2>3. /\ Stored \subseteq Stored' /\ Stored' \subseteq Stored \cup InMemory
          /\ Stored' = Stored \/ accepted \cap Kept \subseteq Kept' \cup Stored'
          /\ stopPc' # stopPc /\ "run" \in {stopPc, stopPc'} => Stored' = Stored
      <3>1. CASE Stored' = Stored
        BY <3>1
      <3>2. CASE Background /\ RunFlush
        <4>1. UNCHANGED <<lines, tail, stopPc>>
          BY <3>2 DEF RunFlush, walVars, bufferVars, loopVars
        <4>2. Recovered' = Recovered
          BY <4>1, SameLogRecovers
        <4> QED BY <3>2, <4>1, <4>2, FlushStoresOrLoses, BackgroundMoves DEF Kept
      <3> QED BY <3>1, <3>2, StoredStep
    <2> QED BY <1>2, <2>1, <2>2, <2>3, AbstractStep
  <1>3. ASSUME NEW r \in Request, NEW e \in Entry, AbortRequest(r, e) \/ CrashInAdd(r, e)
        PROVE  accepted' = accepted /\ InMemory' \subseteq InMemory
    BY <1>3, AddMoves, DieMoves DEF AbortRequest, CrashInAdd, Die, InMemory
  <1>4. \/ \E r \in Request, e \in Entry : AcceptEntry(r, e)
        \/ accepted' = accepted /\ accepted \cap InMemory' \subseteq InMemory \cup Recovered
    BY <1>3, HandlerStep
  <1> QED BY <1>1, <1>2, <1>4

\* With a write-ahead log on a disk that works, and lines that fit the scanner,
\* the ingester keeps the promises of DurableLog: every accepted entry is held
\* until it is stored, stored entries stay, and only a process that was told to
\* stop loses any.
THEOREM IngesterIsDurable ==
  ASSUME Lossless
  PROVE  Spec => KeepsDurablePromises
  <1>1. Init => RefinementInv
    <2>1. Init => HeldInv
      BY DEF Init, HeldInv
    <2> QED BY <2>1, TypeInit, BatchInit, DurabilityInit, OnceInit DEF RefinementInv
  <1>2. RefinementInv /\ [Next]_vars => RefinementInv'
    <2> SUFFICES ASSUME RefinementInv, [Next]_vars PROVE RefinementInv'
      OBVIOUS
    <2>1. HeldInv'
      BY HeldInductive
    <2> QED BY <2>1, TypeInductive, BatchInductive, StopInductive, DurabilityInductive,
               FreshInductive, GoneInductive DEF RefinementInv
  <1>3. Init => Durable!DurableInit
    <2>1. ASSUME Init PROVE \A e \in Entry : FateOf(e) = "new"
      BY <2>1, FateCases DEF Init
    <2>2. ASSUME Init PROVE stopPc = "run"
      BY <2>2 DEF Init, BufferInit
    <2> QED BY <2>1, <2>2 DEF Durable!DurableInit
  <1>4. RefinementInv /\ [Next]_vars => [Durable!DurableNext]_(Durable!durableVars)
    BY DurableStep
  <1> QED BY <1>1, <1>2, <1>3, <1>4, PTL DEF Spec, KeepsDurablePromises, Durable!DurableSpec
=============================================================================
