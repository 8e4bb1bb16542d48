----------------------------- MODULE OnceProofs -----------------------------
(***************************************************************************)
(* Every submission is handled once: a running process never holds an      *)
(* entry in two places (BatchesDisjoint) and counts it once towards the    *)
(* limit (BatchesWithinLimit), a tail client sees accepted entries only,   *)
(* each once (TailShowsAccepted) and none missing but those dropped        *)
(* (TailFaithful), and the log is given each entry once (IngesterDrivesLog).*)
(*                                                                         *)
(* In the ingester all rest on FreshInv: what a handler has still to add   *)
(* is nowhere yet, neither in memory nor in the bucket nor in the log that *)
(* a restart replays.                                                      *)
(***************************************************************************)
EXTENDS IngesterProofs

\* A handler that is running, or may yet run, has e before it.
Awaited(e) ==
  \E r \in Request :
    /\ reqPc[r] \in {"new", "adding"}
    /\ \E i \in DOMAIN Body[r] : i >= pos[r] /\ Body[r][i] = e

FreshInv ==
  \A e \in Entry :
    Awaited(e) => e \notin accepted \cup InMemory \cup Stored /\ Unwritten(e)

----------------------------------------------------------------------------
(* Where entries come from.                                                *)

\* A flush brings nothing into memory or the bucket that was in neither.
LEMMA FlushMoves ==
  ASSUME TypeOK, NEW f \in flushing, FlushStep(f)
  PROVE  InFlight' \subseteq InFlight /\ Stored' \subseteq InFlight \cup Stored
  <1>1. f \in Flush
    BY DEF TypeOK, FlusherTypeOK
  <1>2. /\ [f EXCEPT !.step = "index"].batch = f.batch
        /\ [f EXCEPT !.attempt = @ + 1].batch = f.batch
    BY <1>1 DEF Flush
  <1>3. \A g \in flushing' : \/ g \in flushing
                             \/ g = [f EXCEPT !.step = "index"]
                             \/ g = [f EXCEPT !.attempt = @ + 1]
    BY DEF FlushStep, PutOK, PutError, IndexWrite
  <1>4. InFlight' \subseteq InFlight
    BY <1>2, <1>3 DEF InFlight
  <1>5. chunks' \subseteq chunks \cup {f.batch}
    BY DEF FlushStep, PutOK, PutError, IndexWrite
  <1> QED BY <1>4, <1>5 DEF InFlight, Stored

\* Add brings its entry into memory and no other.
LEMMA AddMoves ==
  ASSUME TypeOK, NEW e \in Entry
  PROVE  /\ AddFits(e) \/ AddDispatches(e) => InMemory' = InMemory \cup {e}
         /\ AddPanics(e) => InMemory' = Queued \cup InFlight
         /\ AddFits(e) \/ AddDispatches(e) \/ AddPanics(e) => Stored' = Stored
  <1>1. CASE AddFits(e)
    <2>1. entries' = entries \cup {e} /\ UNCHANGED <<flushCh, flushing, chunks>>
      BY <1>1 DEF AddFits, Fill, queueVars
    <2>2. Queued' = Queued /\ InFlight' = InFlight /\ Stored' = Stored
      BY <2>1 DEF Queued, InFlight, Stored, Range
    <2>3. ~AddPanics(e)
      BY <1>1 DEF AddFits, AddPanics
    <2> QED BY <2>1, <2>2, <2>3 DEF InMemory
  <1>2. CASE AddDispatches(e)
    <2>1. entries' = {e} /\ SendBatch
      BY <1>2 DEF AddDispatches, Fill
    <2>2. ~AddPanics(e)
      BY <2>1 DEF SendBatch, AddPanics, SendPanics
    <2> QED BY <2>1, <2>2, SendMoves DEF InMemory
  <1>3. CASE AddPanics(e)
    <2>1. entries' = {} /\ UNCHANGED <<flushCh, flushing, chunks>>
      BY <1>3 DEF AddPanics, SendPanics, ClearBuffer
    <2>2. Queued' = Queued /\ InFlight' = InFlight /\ Stored' = Stored
      BY <2>1 DEF Queued, InFlight, Stored, Range
    <2>3. ~AddFits(e) /\ ~AddDispatches(e)
      BY <1>3 DEF AddFits, AddDispatches, AddPanics, SendBatch, SendPanics
    <2> QED BY <2>1, <2>2, <2>3 DEF InMemory
  <1> QED BY <1>1, <1>2, <1>3

\* Apart from the flushes, the goroutines of a process only hand entries on.
LEMMA HandOn ==
  ASSUME TypeOK, Background
  PROVE  RunFlush \/ (InMemory' = InMemory /\ Stored' = Stored)
  <1>1. CASE UNCHANGED <<entries, flushCh, flushing, chunks>>
    BY <1>1 DEF InMemory, Queued, InFlight, Stored, Range
  <1>2. CASE TickFire \/ TickReturn \/ LoopReturn \/ StopTicker \/ StopCloseCh
               \/ StopWait \/ StopReset \/ StopCloseWAL
    BY <1>1, <1>2 DEF TickFire, TickReturn, LoopReturn, StopTicker, StopCloseCh, StopWait,
                      StopReset, StopTruncate, StopRenew, StopRecount, StopCloseWAL,
                      contentVars, queueVars, flusherVars
  <1>3. CASE TickBody \/ StopFlush
    <2>1. CASE entries = {}
      <3>1. UNCHANGED <<entries, flushCh, flushing, chunks>>
        BY <1>3, <2>1 DEF TickBody, StopFlush, contentVars, queueVars
      <3> QED BY <1>1, <3>1
    <2>2. CASE entries # {}
      <3>1. SendBatch /\ entries' = {}
        BY <1>3, <2>2 DEF TickBody, StopFlush, ClearBuffer
      <3> QED BY <3>1, SendMoves DEF InMemory
    <2> QED BY <2>1, <2>2
  <1>4. CASE LoopTake
    BY <1>4, TakeMoves
  <1> QED BY <1>2, <1>3, <1>4 DEF Background

\* The goroutines bring nothing into memory, and into the bucket only what was
\* in memory.
LEMMA BackgroundMoves ==
  ASSUME TypeOK, Background
  PROVE  InMemory' \subseteq InMemory /\ Stored' \subseteq InMemory \cup Stored
  <1>1. CASE RunFlush
    <2>1. PICK f \in flushing : FlushStep(f)
      BY <1>1 DEF RunFlush
    <2>2. Queued' = Queued /\ entries' = entries
      BY <1>1 DEF RunFlush, bufferVars, contentVars, Queued, Range
    <2> QED BY <2>1, <2>2, FlushMoves DEF InMemory
  <1> QED BY <1>1, HandOn

\* With the process goes all it held.
LEMMA DieMoves ==
  ASSUME NEW how, Die(how)
  PROVE  InMemory' = {} /\ Stored' = Stored
  <1>1. entries' = {} /\ flushCh' = <<>> /\ flushing' = {} /\ chunks' = chunks
    BY DEF Die, BufferLost, FreshLoops, FlushesLost
  <1> QED BY <1>1, RangeEmpty DEF InMemory, Queued, InFlight, Stored

\* A new process holds what it has replayed, besides what is already in flight.
LEMMA StartMoves ==
  ASSUME Start
  PROVE  InMemory' \subseteq InMemory \cup Recovered /\ Stored' = Stored
  <1>1. entries' \subseteq Recovered
    BY DEF Start, Replayed, OpenAndRecover
  <1>2. flushCh' = <<>> /\ flushing' = flushing /\ chunks' = chunks
    BY DEF Start, FreshLoops, flusherVars
  <1> QED BY <1>1, <1>2, RangeEmpty DEF InMemory, Queued, InFlight, Stored

----------------------------------------------------------------------------
(* What has still to be added is nowhere yet.                              *)

\* The entry a handler is at is awaited, and no other handler has it before it.
LEMMA AtAwaits ==
  ASSUME TypeOK, NEW r \in Request, NEW e \in Entry, At(r, e)
  PROVE  /\ Awaited(e)
         /\ \A q \in Request : \A i \in DOMAIN Body[q] :
              Body[q][i] = e => q = r /\ i = pos[r]
  <1>1. pos[r] \in DOMAIN Body[r] /\ Body[r][pos[r]] = e /\ reqPc[r] = "adding"
    <2>1. Body[r] \in Seq(Entry) /\ pos[r] \in Nat \ {0}
      BY IngesterAssumption DEF TypeOK, ServerTypeOK
    <2> QED BY <2>1 DEF At
  <1>2. pos[r] \in Nat
    BY DEF TypeOK, ServerTypeOK
  <1>3. Awaited(e)
    BY <1>1, <1>2 DEF Awaited
  <1> QED BY <1>1, <1>3, IngesterAssumption

\* A step that ends a handler's wait for e, and starts none, keeps what remains
\* awaited apart from e.
LEMMA StillAwaited ==
  ASSUME TypeOK, NEW r \in Request, NEW e \in Entry, At(r, e),
         \/ pos' = [pos EXCEPT ![r] = @ + 1] /\ reqPc' = reqPc
         \/ pos' = pos /\ reqPc' = [reqPc EXCEPT ![r] = "aborted"]
         \/ pos' = pos /\ reqPc' = [q \in Request |->
                                     IF reqPc[q] = "adding" THEN "lost" ELSE reqPc[q]],
         NEW d \in Entry, Awaited(d)'
  PROVE  Awaited(d) /\ d # e
  <1>1. PICK q \in Request : /\ reqPc'[q] \in {"new", "adding"}
                            /\ \E i \in DOMAIN Body[q] : i >= pos'[q] /\ Body[q][i] = d
    BY DEF Awaited
  <1>2. PICK i \in DOMAIN Body[q] : i >= pos'[q] /\ Body[q][i] = d
    BY <1>1
  <1>3. /\ reqPc \in [Request -> {"new", "adding", "refused", "aborted", "lost", "done"}]
        /\ pos \in [Request -> Nat \ {0}]
        /\ Body[q] \in Seq(Entry)
    BY IngesterAssumption DEF TypeOK, ServerTypeOK
  <1>4. i \in Nat
    BY <1>3
  <1>5. reqPc[q] \in {"new", "adding"} /\ i >= pos[q]
    BY <1>1, <1>2, <1>3, <1>4
  <1>6. Awaited(d)
    BY <1>2, <1>5 DEF Awaited
  <1>7. d = e => q = r /\ i = pos[r]
    BY <1>2, AtAwaits
  <1>8. reqPc[r] = "adding"
    BY DEF At
  <1>9. ~(q = r /\ i = pos[r])
    BY <1>1, <1>2, <1>3, <1>4, <1>8
  <1> QED BY <1>6, <1>7, <1>9

\* Every step either is one of the three that end a handler's work on an entry,
\* or adds nothing to what is awaited, accepted or in the log's file.
LEMMA HandlerStep ==
  ASSUME TypeOK, [Next]_vars
  PROVE  \/ \E r \in Request, e \in Entry :
              AcceptEntry(r, e) \/ AbortRequest(r, e) \/ CrashInAdd(r, e)
         \/ /\ accepted' = accepted
            /\ \A d \in Entry : Awaited(d)' => Awaited(d)
            /\ UNCHANGED <<lines, tail>> \/ (stopPc = "reset" /\ lines' = <<>> /\ tail' = {})
            /\ InMemory' \subseteq InMemory \cup Recovered
            /\ Stored' \subseteq InMemory \cup Stored
  <1> DEFINE Quiet == /\ accepted' = accepted
                      /\ \A d \in Entry : Awaited(d)' => Awaited(d)
                      /\ UNCHANGED <<lines, tail>> \/ (stopPc = "reset" /\ lines' = <<>> /\ tail' = {})
                      /\ InMemory' \subseteq InMemory \cup Recovered
                      /\ Stored' \subseteq InMemory \cup Stored
  <1>t. /\ reqPc \in [Request -> {"new", "adding", "refused", "aborted", "lost", "done"}]
        /\ pos \in [Request -> Nat \ {0}]
        /\ Body \in [Request -> Seq(Entry)]
    BY IngesterAssumption DEF TypeOK, ServerTypeOK
  <1>a. UNCHANGED <<entries, flushCh, flushing, chunks>>
          => InMemory' = InMemory /\ Stored' = Stored
    BY DEF InMemory, Queued, InFlight, Stored, Range
  <1>b. UNCHANGED <<bufferVars, flusherVars>> => InMemory' = InMemory /\ Stored' = Stored
    BY <1>a DEF bufferVars, contentVars, flusherVars
  <1>1. ASSUME NEW r \in Request, Receive(r) \/ Respond(r) PROVE Quiet
    <2>1. UNCHANGED <<accepted, pos, lines, tail>>
      BY <1>1 DEF Receive, Respond, walVars
    <2>2. \A q \in Request : reqPc'[q] \in {"new", "adding"} => reqPc[q] \in {"new", "adding"}
      BY <1>1, <1>t DEF Receive, Respond
    <2>3. InMemory' = InMemory /\ Stored' = Stored
      BY <1>b, <1>1 DEF Receive, Respond
    <2> QED BY <2>1, <2>2, <2>3 DEF Awaited
  <1>2. ASSUME NEW r \in Request, NEW e \in Entry, SkipEntry(r, e) PROVE Quiet
    <2>1. UNCHANGED <<accepted, reqPc, lines, tail>> /\ pos' = [pos EXCEPT ![r] = @ + 1]
      BY <1>2 DEF SkipEntry, Advance, walVars
    <2>2. At(r, e)
      BY <1>2 DEF SkipEntry
    <2>3. InMemory' = InMemory /\ Stored' = Stored
      BY <1>b, <1>2 DEF SkipEntry
    <2> QED BY <2>1, <2>2, <2>3, StillAwaited
  <1>3. ASSUME Background PROVE Quiet
    <2>1. UNCHANGED <<accepted, reqPc, pos>>
      BY <1>3 DEF Background, serverVars
    <2>2. UNCHANGED <<lines, tail>> \/ (stopPc = "reset" /\ lines' = <<>> /\ tail' = {})
      BY <1>3 DEF Background, TickFire, TickBody, TickReturn, LoopTake, LoopReturn, RunFlush,
                  StopTicker, StopFlush, StopCloseCh, StopWait, StopReset, StopTruncate,
                  StopRenew, StopRecount, StopCloseWAL, EmptyFile, CloseWAL, walVars
    <2> QED BY <1>3, <2>1, <2>2, BackgroundMoves DEF Awaited
  <1>4. ASSUME Tailing \/ Shutdown \/ UNCHANGED vars PROVE Quiet
    <2>1. UNCHANGED <<accepted, reqPc, pos, lines, tail>>
      BY <1>4 DEF Tailing, Shutdown, vars, serverVars, walVars
    <2>2. InMemory' = InMemory /\ Stored' = Stored
      BY <1>a, <1>4 DEF Tailing, Shutdown, vars, bufferVars, contentVars, flusherVars
    <2> QED BY <2>1, <2>2 DEF Awaited
  <1>5. ASSUME Exit \/ TickCrash \/ Crash PROVE Quiet
    <2>1. /\ UNCHANGED <<accepted, pos, lines, tail>>
          /\ reqPc' = [q \in Request |-> IF reqPc[q] = "adding" THEN "lost" ELSE reqPc[q]]
      BY <1>5 DEF Exit, TickCrash, Crash, Die
    <2>2. \A q \in Request : reqPc'[q] \in {"new", "adding"} => reqPc[q] \in {"new", "adding"}
      BY <1>t, <2>1
    <2>3. InMemory' = {} /\ Stored' = Stored
      BY <1>5, DieMoves DEF Exit, TickCrash, Crash
    <2> QED BY <2>1, <2>2, <2>3 DEF Awaited
  <1>6. ASSUME Start PROVE Quiet
    <2>1. UNCHANGED <<accepted, reqPc, pos, lines, tail>>
      BY <1>6 DEF Start, OpenAndRecover, walVars
    <2> QED BY <1>6, <2>1, StartMoves DEF Awaited
  <1> HIDE DEF Quiet
  <1>7. ASSUME NEW r \in Request, Handle(r)
        PROVE  Quiet \/ \E e \in Entry : AcceptEntry(r, e) \/ AbortRequest(r, e)
    BY <1>1, <1>2, <1>7 DEF Handle
  <1>8. \/ Quiet
        \/ \E r \in Request, e \in Entry :
             AcceptEntry(r, e) \/ AbortRequest(r, e) \/ CrashInAdd(r, e)
    <2>1. CASE \E r \in Request : Handle(r)
      BY <1>7, <2>1
    <2>2. CASE \E r \in Request, e \in Entry : CrashInAdd(r, e)
      BY <2>2
    <2> QED BY <1>3, <1>4, <1>5, <1>6, <2>1, <2>2 DEF Next
  <1> QED BY <1>8 DEF Quiet

\* The log of a line sequence L and a tail T has no fragment of d, read as one
\* sequence or in its two parts.
LEMMA ContentParts ==
  ASSUME NEW L \in Seq(SUBSET Fragment), NEW T \in SUBSET Fragment, NEW d
  PROVE  (\A line \in Range(IF T = {} THEN L ELSE Append(L, T)) : \A f \in line : f.entry # d)
           <=> /\ \A line \in Range(L) : \A f \in line : f.entry # d
               /\ \A f \in T : f.entry # d
  <1>1. CASE T = {}
    BY <1>1
  <1>2. CASE T # {}
    <2>1. Range(Append(L, T)) = Range(L) \cup {T}
      BY RangeAppend
    <2> QED BY <1>2, <2>1
  <1> QED BY <1>1, <1>2

\* Writing e, whatever comes of the write, leaves every other entry unwritten.
LEMMA OthersUnwritten ==
  ASSUME WALTypeOK, WALTypeOK', NEW e \in Entry, NEW d \in Entry, d # e, Unwritten(d),
         \/ UNCHANGED <<lines, tail>>
         \/ lines' = Append(lines, tail \cup {Whole(e)}) /\ tail' = {}
         \/ tail' \in TornTails(e) /\ UNCHANGED lines
  PROVE  Unwritten(d)'
  <1>1. /\ \A line \in Range(lines) : \A f \in line : f.entry # d
        /\ \A f \in tail : f.entry # d
    BY ContentParts DEF Unwritten, Content, WALTypeOK
  <1>2. Whole(e).entry = e /\ \A long \in BOOLEAN : Part(e, long).entry = e
    BY DEF Whole, Part
  <1>3. /\ \A line \in Range(lines)' : \A f \in line : f.entry # d
        /\ \A f \in tail' : f.entry # d
    <2>1. CASE UNCHANGED <<lines, tail>>
      BY <1>1, <2>1
    <2>2. CASE lines' = Append(lines, tail \cup {Whole(e)}) /\ tail' = {}
      <3> DEFINE Lines == SUBSET Fragment
                 line == tail \cup {Whole(e)}
      <3>1. Whole(e) \in Fragment
        BY DEF Whole, Fragment
      <3>2. line \in Lines /\ lines \in Seq(Lines)
        BY <3>1 DEF WALTypeOK
      <3>3. Range(Append(lines, line)) = Range(lines) \cup {line}
        <4> HIDE DEF Lines, line
        <4> QED BY <3>2, RangeAppend
      <3> QED BY <1>1, <1>2, <2>2, <3>3
    <2>3. CASE tail' \in TornTails(e) /\ UNCHANGED lines
      <3>1. (e \in Oversize) \in BOOLEAN
        OBVIOUS
      <3>2. \/ tail' = tail \/ tail' = tail \cup {Whole(e)}
            \/ tail' = tail \cup {Part(e, FALSE)} \/ tail' = tail \cup {Part(e, e \in Oversize)}
        BY <2>3, Zenon DEF TornTails
      <3>3. \A f \in tail' : f.entry # d
        BY <1>1, <1>2, <3>1, <3>2, Zenon
      <3> QED BY <1>1, <2>3, <3>3
    <2> QED BY <2>1, <2>2, <2>3
  <1> QED BY <1>3, ContentParts DEF Unwritten, Content, WALTypeOK

\* What is not written is not recovered.
LEMMA UnwrittenUnrecovered ==
  ASSUME NEW d \in Entry, Unwritten(d)
  PROVE  d \notin Recovered
  <1>1. Whole(d).entry = d
    BY DEF Whole
  <1> QED BY <1>1 DEF Recovered, ParsesTo, Unwritten

\* FreshInv is inductive.
LEMMA FreshInductive ==
  ASSUME TypeOK, FreshInv, [Next]_vars
  PROVE  FreshInv'
  <1> SUFFICES ASSUME NEW d \in Entry, Awaited(d)'
               PROVE  d \notin accepted' \cup InMemory' \cup Stored' /\ Unwritten(d)'
    BY DEF FreshInv
  <1>t. WALTypeOK /\ WALTypeOK'
    BY TypeInductive DEF TypeOK
  <1>f. Awaited(d) => /\ d \notin accepted \cup InMemory \cup Stored
                      /\ Unwritten(d) /\ d \notin Recovered
    BY UnwrittenUnrecovered DEF FreshInv
  <1>1. ASSUME NEW r \in Request, NEW e \in Entry,
               AcceptEntry(r, e) \/ AbortRequest(r, e) \/ CrashInAdd(r, e)
        PROVE  d \notin accepted' \cup InMemory' \cup Stored' /\ Unwritten(d)'
    <2>1. At(r, e)
      BY <1>1 DEF AcceptEntry, AbortRequest, CrashInAdd
    <2>2. Awaited(d) /\ d # e
      BY <1>1, <2>1, StillAwaited DEF AcceptEntry, AbortRequest, CrashInAdd, Advance, Die
    <2>3. accepted' \subseteq accepted \cup {e}
      BY <1>1 DEF AcceptEntry, AbortRequest, CrashInAdd, Die
    <2>4. InMemory' \subseteq InMemory \cup {e} /\ Stored' = Stored
      BY <1>1, AddMoves, DieMoves DEF AcceptEntry, AbortRequest, CrashInAdd, InMemory
    <2>5. \/ UNCHANGED <<lines, tail>>
          \/ lines' = Append(lines, tail \cup {Whole(e)}) /\ tail' = {}
          \/ tail' \in TornTails(e) /\ UNCHANGED lines
      BY <1>1 DEF AcceptEntry, AbortRequest, CrashInAdd, AddFits, AddDispatches, AddPanics,
                  LogFirst, AppendEntry, AppendOK, AppendRefused, AppendWriteError,
                  AppendSyncError, AppendCutShort, walVars
    <2>6. Unwritten(d)'
      BY <1>f, <1>t, <2>2, <2>5, OthersUnwritten
    <2> QED BY <1>f, <2>2, <2>3, <2>4, <2>6
  <1>2. CASE /\ accepted' = accepted
             /\ \A x \in Entry : Awaited(x)' => Awaited(x)
             /\ UNCHANGED <<lines, tail>> \/ (stopPc = "reset" /\ lines' = <<>> /\ tail' = {})
             /\ InMemory' \subseteq InMemory \cup Recovered
             /\ Stored' \subseteq InMemory \cup Stored
    <2>1. Awaited(d)
      BY <1>2
    <2>2. Unwritten(d)'
      <3>1. CASE UNCHANGED <<lines, tail>>
        BY <1>f, <2>1, <3>1 DEF Unwritten, Content, Range
      <3>2. CASE lines' = <<>> /\ tail' = {}
        BY <3>2, RangeEmpty DEF Unwritten, Content
      <3> QED BY <1>2, <3>1, <3>2
    <2> QED BY <1>f, <1>2, <2>1, <2>2
  <1> QED BY <1>1, <1>2, HandlerStep, Zenon

----------------------------------------------------------------------------
(* A process holds an entry in one place.                                  *)

\* Between two processes nothing is in memory, and nobody is stopping.
GoneInv ==
  proc # "up" => entries = {} /\ flushCh = <<>> /\ flushing = {} /\ stopPc = "run"

\* A step is of a process that is up and stays up, or ends one, or starts one.
LEMMA ProcStep ==
  ASSUME [Next]_vars
  PROVE  \/ proc = "up" /\ proc' = "up"
         \/ proc = "up" /\ \E how \in {"crashed", "exited"} : Die(how)
         \/ Start
         \/ UNCHANGED vars
  <1>1. ASSUME NEW r \in Request, Handle(r) PROVE proc = "up" /\ proc' = "up"
    BY <1>1 DEF Handle, Receive, Respond, SkipEntry, AcceptEntry, AbortRequest, At
  <1>2. CASE Exit \/ TickCrash \/ Crash \/ \E r \in Request, e \in Entry : CrashInAdd(r, e)
    BY <1>2 DEF Exit, TickCrash, Crash, CrashInAdd, At
  <1>3. CASE Background \/ Tailing \/ Shutdown
    BY <1>3 DEF Background, Tailing, Shutdown, serverVars
  <1> QED BY <1>1, <1>2, <1>3 DEF Next

\* GoneInv is inductive.
LEMMA GoneInductive ==
  ASSUME GoneInv, [Next]_vars
  PROVE  GoneInv'
  <1>1. ASSUME NEW how \in {"crashed", "exited"}, Die(how) PROVE GoneInv'
    BY <1>1 DEF Die, BufferLost, FreshLoops, FlushesLost, GoneInv
  <1>2. CASE Start
    BY <1>2 DEF Start, GoneInv
  <1>3. CASE UNCHANGED vars
    BY <1>3 DEF vars, serverVars, bufferVars, contentVars, flusherVars, loopVars, GoneInv
  <1>4. CASE proc' = "up"
    BY <1>4 DEF GoneInv
  <1> QED BY <1>1, <1>2, <1>3, <1>4, ProcStep

\* Dispatching keeps the queue and the flushes apart.
LEMMA SendDisjoint ==
  ASSUME TypeOK, BatchesDisjoint, SendBatch
  PROVE  /\ Queued' \cap InFlight' = {}
         /\ \A i, j \in DOMAIN flushCh' : i # j => flushCh'[i].entries \cap flushCh'[j].entries = {}
         /\ \A f, g \in flushing' : f # g => f.batch.entries \cap g.batch.entries = {}
  <1>1. CurrentBatch \in Batch /\ CurrentBatch.entries = entries
    BY SendBatchTypes DEF TypeOK, CurrentBatch
  <1>2. flushCh \in Seq(Batch)
    BY DEF TypeOK, BufferTypeOK
  <1>3. \A i \in DOMAIN flushCh : flushCh[i].entries \subseteq Queued
    BY DEF Queued, Range
  <1>4. \A f \in flushing : f.batch.entries \subseteq InFlight
    BY DEF InFlight
  <1>5. CASE flushCh' = Append(flushCh, CurrentBatch) /\ UNCHANGED flushing
    <2>1. /\ DOMAIN flushCh' = 1 .. Len(flushCh) + 1
          /\ \A i \in 1 .. Len(flushCh) : flushCh'[i] = flushCh[i]
          /\ flushCh'[Len(flushCh) + 1] = CurrentBatch
          /\ DOMAIN flushCh = 1 .. Len(flushCh) /\ Len(flushCh) \in Nat
      BY <1>1, <1>2, <1>5
    <2>2. \A i \in DOMAIN flushCh' : i \in DOMAIN flushCh \/ i = Len(flushCh) + 1
      BY <2>1
    <2>3. entries \cap Queued = {}
      BY DEF BatchesDisjoint
    <2>4. ASSUME NEW i \in DOMAIN flushCh', NEW j \in DOMAIN flushCh', i # j
          PROVE  flushCh'[i].entries \cap flushCh'[j].entries = {}
      <3>1. CASE i \in DOMAIN flushCh /\ j \in DOMAIN flushCh
        BY <2>1, <2>4, <3>1 DEF BatchesDisjoint
      <3>2. CASE i \in DOMAIN flushCh /\ j = Len(flushCh) + 1
        BY <1>1, <1>3, <2>1, <2>3, <3>2
      <3>3. CASE i = Len(flushCh) + 1 /\ j \in DOMAIN flushCh
        BY <1>1, <1>3, <2>1, <2>3, <3>3
      <3> QED BY <2>2, <2>4, <3>1, <3>2, <3>3
    <2>5. Range(flushCh)' = Range(flushCh) \cup {CurrentBatch}
      BY <1>1, <1>2, <1>5, RangeAppend
    <2>6. Queued' = Queued \cup entries /\ InFlight' = InFlight
      BY <1>1, <1>5, <2>5 DEF Queued, InFlight
    <2> QED BY <1>5, <2>4, <2>6 DEF BatchesDisjoint
  <1>6. CASE flushing' = flushing \cup {NewFlush(CurrentBatch, FALSE)} /\ UNCHANGED flushCh
    <2>1. NewFlush(CurrentBatch, FALSE).batch.entries = entries
      BY <1>1 DEF NewFlush
    <2>2. InFlight' = InFlight \cup entries /\ Queued' = Queued
      BY <1>6, <2>1 DEF InFlight, Queued, Range
    <2>3. \A f, g \in flushing' : f # g => f.batch.entries \cap g.batch.entries = {}
      BY <1>4, <1>6, <2>1 DEF BatchesDisjoint
    <2> QED BY <1>6, <2>2, <2>3 DEF BatchesDisjoint
  <1> QED BY <1>5, <1>6 DEF SendBatch

\* Taking a batch off the queue keeps the batches apart.
LEMMA TakeDisjoint ==
  ASSUME TypeOK, BatchesDisjoint, LoopTake
  PROVE  BatchesDisjoint'
  <1>1. flushCh \in Seq(Batch) /\ flushCh # <<>> /\ flushCh' = Tail(flushCh)
    BY DEF TypeOK, BufferTypeOK, LoopTake
  <1>2. /\ DOMAIN flushCh' = 1 .. Len(flushCh) - 1
        /\ \A i \in 1 .. Len(flushCh) - 1 : flushCh'[i] = flushCh[i + 1]
        /\ Head(flushCh) = flushCh[1]
        /\ DOMAIN flushCh = 1 .. Len(flushCh) /\ Len(flushCh) \in Nat /\ 1 \in DOMAIN flushCh
    BY <1>1
  <1>3. \A i \in DOMAIN flushCh' : i + 1 \in DOMAIN flushCh /\ flushCh'[i] = flushCh[i + 1]
    BY <1>2
  <1>4. ASSUME NEW i \in DOMAIN flushCh', NEW j \in DOMAIN flushCh', i # j
        PROVE  flushCh'[i].entries \cap flushCh'[j].entries = {}
    <2>1. i + 1 # j + 1
      BY <1>2, <1>4
    <2> QED BY <1>3, <2>1 DEF BatchesDisjoint
  <1>5. \A i \in DOMAIN flushCh' : Head(flushCh).entries \cap flushCh'[i].entries = {}
    <2> SUFFICES ASSUME NEW i \in DOMAIN flushCh'
                 PROVE  Head(flushCh).entries \cap flushCh'[i].entries = {}
      OBVIOUS
    <2>1. i + 1 # 1
      BY <1>2
    <2> QED BY <1>2, <1>3, <2>1 DEF BatchesDisjoint
  <1>6. Head(flushCh).entries \cap Queued' = {}
    BY <1>5 DEF Queued, Range
  <1>7. Range(flushCh) = {Head(flushCh)} \cup Range(flushCh)'
    BY <1>1, RangeHeadTail
  <1>8. Queued = Head(flushCh).entries \cup Queued'
    BY <1>7 DEF Queued
  <1>9. /\ NewFlush(Head(flushCh), TRUE).batch = Head(flushCh)
        /\ flushing' = flushing \cup {NewFlush(Head(flushCh), TRUE)}
        /\ entries' = entries
    BY DEF NewFlush, LoopTake, contentVars
  <1>10. InFlight' = Head(flushCh).entries \cup InFlight
    BY <1>9 DEF InFlight
  <1>11. \A f \in flushing : f.batch.entries \subseteq InFlight
    BY DEF InFlight
  <1>12. Queued \cap InFlight = {} /\ entries \cap (Queued \cup InFlight) = {}
    BY DEF BatchesDisjoint
  <1>13. \A f, g \in flushing' : f # g => f.batch.entries \cap g.batch.entries = {}
    BY <1>8, <1>9, <1>11, <1>12 DEF BatchesDisjoint
  <1> QED BY <1>4, <1>6, <1>8, <1>9, <1>10, <1>12, <1>13 DEF BatchesDisjoint

\* A step of a flush replaces it by one of the same batch, or ends it.
LEMMA FlushDisjoint ==
  ASSUME TypeOK, BatchesDisjoint, NEW f \in flushing, FlushStep(f), UNCHANGED <<entries, flushCh>>
  PROVE  BatchesDisjoint'
  <1>1. f \in Flush
    BY DEF TypeOK, FlusherTypeOK
  <1>2. /\ [f EXCEPT !.step = "index"].batch = f.batch
        /\ [f EXCEPT !.attempt = @ + 1].batch = f.batch
    BY <1>1 DEF Flush
  <1>3. \/ flushing' \subseteq flushing
        \/ \E n : n.batch = f.batch /\ flushing' = (flushing \ {f}) \cup {n}
    BY <1>2 DEF FlushStep, PutOK, PutError, IndexWrite
  <1>4. \A g, h \in flushing' : g # h => g.batch.entries \cap h.batch.entries = {}
    <2>1. CASE flushing' \subseteq flushing
      BY <2>1 DEF BatchesDisjoint
    <2>2. ASSUME NEW n, n.batch = f.batch, flushing' = (flushing \ {f}) \cup {n}
          PROVE  \A g, h \in flushing' : g # h => g.batch.entries \cap h.batch.entries = {}
      BY <2>2 DEF BatchesDisjoint
    <2> QED BY <1>3, <2>1, <2>2
  <1>5. InFlight' \subseteq InFlight
    BY FlushMoves
  <1>6. Queued' = Queued
    BY DEF Queued, Range
  <1> QED BY <1>4, <1>5, <1>6 DEF BatchesDisjoint

\* BatchesDisjoint is preserved: what is filled in is fresh, and every other
\* step moves batches whole.
LEMMA DisjointInductive ==
  ASSUME TypeOK, FreshInv, GoneInv, BatchesDisjoint, [Next]_vars
  PROVE  BatchesDisjoint'
  <1>a. UNCHANGED shipped => /\ UNCHANGED <<flushCh, flushing>>
                             /\ Queued' = Queued /\ InFlight' = InFlight
    BY DEF shipped, Queued, InFlight, Range
  <1>b. ASSUME NEW r \in Request, NEW e \in Entry, At(r, e)
        PROVE  e \notin entries \cup Queued \cup InFlight
    BY <1>b, AtAwaits DEF FreshInv, InMemory
  <1>1. CASE UNCHANGED <<contents, shipped>>
    BY <1>a, <1>1 DEF contents, BatchesDisjoint
  <1>2. ASSUME NEW r \in Request, NEW e \in Entry,
               At(r, e), Fill(entries, e), UNCHANGED shipped
        PROVE  BatchesDisjoint'
    <2>1. entries' = entries \cup {e}
      BY <1>2 DEF Fill
    <2> QED BY <1>a, <1>b, <1>2, <2>1 DEF BatchesDisjoint
  <1>3. ASSUME NEW r \in Request, NEW e \in Entry,
               At(r, e), SendBatch, Fill({}, e)
        PROVE  BatchesDisjoint'
    <2>1. entries' = {e}
      BY <1>3 DEF Fill
    <2>2. entries' \cap (Queued' \cup InFlight') = {}
      BY <1>b, <1>3, <2>1, SendMoves
    <2> QED BY <1>3, <2>2, SendDisjoint DEF BatchesDisjoint
  <1>4. CASE SendBatch /\ ClearBuffer
    BY <1>4, SendDisjoint DEF ClearBuffer, BatchesDisjoint
  <1>5. CASE ClearBuffer /\ UNCHANGED shipped
    BY <1>a, <1>5 DEF ClearBuffer, BatchesDisjoint
  <1>6. CASE LoopTake
    BY <1>6, TakeDisjoint
  <1>7. ASSUME NEW f \in flushing, FlushStep(f), UNCHANGED <<contents, flushCh>>
        PROVE  BatchesDisjoint'
    BY <1>7, FlushDisjoint DEF contents
  <1>8. CASE flushCh' = <<>> /\ flushing' = {}
    <2>1. Queued' = {} /\ InFlight' = {} /\ DOMAIN flushCh' = {}
      BY <1>8, RangeEmpty DEF Queued, InFlight
    <2> QED BY <1>8, <2>1 DEF BatchesDisjoint
  <1>9. ASSUME NEW how \in {"crashed", "exited"}, Die(how) PROVE BatchesDisjoint'
    BY <1>8, <1>9 DEF Die, BufferLost, FreshLoops, FlushesLost
  <1>10. CASE Start
    BY <1>8, <1>10 DEF Start, FreshLoops, flusherVars, GoneInv
  <1> QED BY <1>1, <1>2, <1>3, <1>4, <1>5, <1>6, <1>7, <1>9, <1>10, BatchStep, Zenon

\* The invariants of this module hold at the start.
LEMMA OnceInit ==
  ASSUME Init
  PROVE  FreshInv /\ GoneInv /\ BatchesDisjoint
  <1>1. /\ entries = {} /\ flushCh = <<>> /\ flushing = {} /\ chunks = {}
        /\ lines = <<>> /\ tail = {} /\ accepted = {} /\ proc = "up"
    BY DEF Init, BufferInit, FlusherInit, WALInit
  <1>2. Queued = {} /\ InFlight = {} /\ Stored = {} /\ Range(Content) = {} /\ DOMAIN flushCh = {}
    BY <1>1, RangeEmpty DEF Queued, InFlight, Stored, Content
  <1>3. FreshInv
    BY <1>1, <1>2 DEF FreshInv, Unwritten, InMemory
  <1>4. GoneInv
    BY <1>1 DEF GoneInv
  <1> QED BY <1>1, <1>2, <1>3, <1>4 DEF BatchesDisjoint

\* No entry is in two places of a process at once, whatever the tick, Stop, the
\* queue, the overflow goroutines and replay do: what dispatchFlush takes, it
\* takes whole, and nothing is added that was there before.
THEOREM HeldInOnePlace == Spec => []BatchesDisjoint
  <1>1. Init => FreshInv /\ GoneInv /\ BatchesDisjoint
    BY OnceInit
  <1>2. TypeOK /\ FreshInv /\ GoneInv /\ BatchesDisjoint /\ [Next]_vars
          => FreshInv' /\ GoneInv' /\ BatchesDisjoint'
    BY FreshInductive, GoneInductive, DisjointInductive
  <1> QED BY <1>1, <1>2, TypeCorrect, PTL DEF Spec

----------------------------------------------------------------------------
(* The size of batches.                                                    *)

\* Every batch that has left the buffer.
Sent == Range(flushCh) \cup chunks \cup {f.batch : f \in flushing}

\* In a first life the estimate is exact: it counts every entry of the buffer
\* once.  Only a buffer with a single entry may be over the limit.
LimitInv ==
  /\ lives >= 1
  /\ lives = 1 =>
       /\ IsFiniteSet(entries)
       /\ sizeEst = SumFunctionOnSet(Size, entries)
       /\ Cardinality(entries) > 1 => sizeEst <= MaxBytes
  /\ BatchesWithinLimit

\* What a step does to the buffer and its estimate.
LEMMA SizeStep ==
  ASSUME [Next]_vars
  PROVE  \/ UNCHANGED <<entries, sizeEst, lives>>
         \/ \E r \in Request, e \in Entry :
              /\ At(r, e) /\ ~Exceeds(e)
              /\ entries' = entries \cup {e} /\ sizeEst' = sizeEst + Size[e] /\ lives' = lives
         \/ \E e \in Entry : entries' = {e} /\ sizeEst' = Size[e] /\ lives' = lives
         \/ entries' = {} /\ sizeEst' = 0 /\ lives' = lives
         \/ lives' = lives + 1
  <1>1. ASSUME NEW r \in Request, NEW e \in Entry, AcceptEntry(r, e)
        PROVE  \/ /\ At(r, e) /\ ~Exceeds(e)
                  /\ entries' = entries \cup {e} /\ sizeEst' = sizeEst + Size[e] /\ lives' = lives
               \/ entries' = {e} /\ sizeEst' = Size[e] /\ lives' = lives
    BY <1>1 DEF AcceptEntry, AddFits, AddDispatches, Fill
  <1>2. ASSUME NEW r \in Request, NEW e \in Entry, AbortRequest(r, e)
        PROVE  entries' = {} /\ sizeEst' = 0 /\ lives' = lives
    BY <1>2 DEF AbortRequest, AddPanics, ClearBuffer
  <1>3. ASSUME NEW r \in Request, NEW e \in Entry, SkipEntry(r, e)
        PROVE  UNCHANGED <<entries, sizeEst, lives>>
    BY <1>3 DEF SkipEntry, bufferVars, contentVars
  <1>4. ASSUME NEW r \in Request, Receive(r) \/ Respond(r)
        PROVE  UNCHANGED <<entries, sizeEst, lives>>
    BY <1>4 DEF Receive, Respond, bufferVars, contentVars
  <1>5. ASSUME Background
        PROVE  \/ UNCHANGED <<entries, sizeEst, lives>>
               \/ entries' = {} /\ sizeEst' = 0 /\ lives' = lives
    BY <1>5 DEF Background, TickFire, TickBody, TickReturn, LoopTake, LoopReturn, RunFlush,
                StopTicker, StopFlush, StopCloseCh, StopWait, StopReset, StopTruncate,
                StopRenew, StopRecount, StopCloseWAL, ClearBuffer, serverVars, bufferVars, contentVars
  <1>6. ASSUME Exit \/ TickCrash \/ Crash \/ \E r \in Request, e \in Entry : CrashInAdd(r, e)
        PROVE  entries' = {} /\ sizeEst' = 0 /\ lives' = lives
    BY <1>6 DEF Exit, TickCrash, Crash, CrashInAdd, Die, BufferLost
  <1>7. ASSUME Tailing \/ Shutdown \/ UNCHANGED vars PROVE UNCHANGED <<entries, sizeEst, lives>>
    BY <1>7 DEF Tailing, Shutdown, vars, serverVars, bufferVars, contentVars
  <1>8. Start => lives' = lives + 1
    BY DEF Start
  <1>9. ASSUME NEW r \in Request, Handle(r)
        PROVE  \/ UNCHANGED <<entries, sizeEst, lives>>
               \/ \E e \in Entry :
                    /\ At(r, e) /\ ~Exceeds(e)
                    /\ entries' = entries \cup {e} /\ sizeEst' = sizeEst + Size[e] /\ lives' = lives
               \/ \E e \in Entry : entries' = {e} /\ sizeEst' = Size[e] /\ lives' = lives
               \/ entries' = {} /\ sizeEst' = 0 /\ lives' = lives
    BY <1>1, <1>2, <1>3, <1>4, <1>9, Zenon DEF Handle
  <1> QED BY <1>5, <1>6, <1>7, <1>8, <1>9, Zenon DEF Next

\* A batch that leaves the buffer is the buffer's.
LEMMA SentStep ==
  ASSUME TypeOK, [Next]_vars
  PROVE  \A b \in Sent' : b \in Sent \/ b = CurrentBatch
  <1>1. CASE UNCHANGED shipped
    BY <1>1 DEF shipped, Sent, Range
  <1>2. CASE SendBatch
    <2>1. CurrentBatch \in Batch /\ flushCh \in Seq(Batch)
      BY SendBatchTypes DEF TypeOK, BufferTypeOK
    <2>2. Range(Append(flushCh, CurrentBatch)) = Range(flushCh) \cup {CurrentBatch}
      BY <2>1, RangeAppend
    <2>3. NewFlush(CurrentBatch, FALSE).batch = CurrentBatch
      BY DEF NewFlush
    <2>4. Range(flushCh)' \subseteq Range(flushCh) \cup {CurrentBatch}
      BY <1>2, <2>2 DEF SendBatch
    <2>5. \A f \in flushing' : f \in flushing \/ f.batch = CurrentBatch
      BY <1>2, <2>3 DEF SendBatch
    <2>6. chunks' = chunks
      BY <1>2 DEF SendBatch
    <2> QED BY <2>4, <2>5, <2>6 DEF Sent
  <1>3. CASE LoopTake
    <2>1. Range(flushCh) = {Head(flushCh)} \cup Range(Tail(flushCh))
      BY <1>3, RangeHeadTail DEF LoopTake, TypeOK, BufferTypeOK
    <2>2. NewFlush(Head(flushCh), TRUE).batch = Head(flushCh)
      BY DEF NewFlush
    <2>3. /\ flushing' = flushing \cup {NewFlush(Head(flushCh), TRUE)}
          /\ Range(flushCh)' = Range(Tail(flushCh)) /\ chunks' = chunks
      BY <1>3 DEF LoopTake
    <2> QED BY <2>1, <2>2, <2>3 DEF Sent
  <1>4. ASSUME NEW f \in flushing, FlushStep(f), flushCh' = flushCh
        PROVE  \A b \in Sent' : b \in Sent
    <2>1. f \in Flush
      BY DEF TypeOK, FlusherTypeOK
    <2>2. /\ [f EXCEPT !.step = "index"].batch = f.batch
          /\ [f EXCEPT !.attempt = @ + 1].batch = f.batch
      BY <2>1 DEF Flush
    <2>3. \A g \in flushing' : g \in flushing \/ g.batch = f.batch
      BY <1>4, <2>2 DEF FlushStep, PutOK, PutError, IndexWrite
    <2>4. chunks' \subseteq chunks \cup {f.batch}
      BY <1>4 DEF FlushStep, PutOK, PutError, IndexWrite
    <2> QED BY <1>4, <2>3, <2>4 DEF Sent
  <1>5. ASSUME flushCh' = <<>>, flushing' \subseteq flushing, chunks' = chunks
        PROVE  \A b \in Sent' : b \in Sent
    BY <1>5, RangeEmpty DEF Sent
  <1>6. ASSUME NEW how, Die(how) PROVE \A b \in Sent' : b \in Sent
    BY <1>5, <1>6 DEF Die, BufferLost, FreshLoops, FlushesLost
  <1>7. Start => \A b \in Sent' : b \in Sent
    BY <1>5 DEF Start, FreshLoops, flusherVars
  <1>8. UNCHANGED <<contents, flushCh>> => flushCh' = flushCh
    OBVIOUS
  <1>9. UNCHANGED <<contents, shipped>> => UNCHANGED shipped
    OBVIOUS
  <1> HIDE DEF shipped, contents
  <1> QED BY <1>1, <1>2, <1>3, <1>4, <1>6, <1>7, <1>8, <1>9, BatchStep, Zenon

\* LimitInv is inductive.
LEMMA LimitInductive ==
  ASSUME TypeOK, FreshInv, LimitInv, [Next]_vars
  PROVE  LimitInv'
  <1>t. /\ lives \in Nat /\ sizeEst \in Nat /\ MaxBytes \in Nat
        /\ entries \subseteq Entry /\ Size \in [Entry -> Nat \ {0}]
    BY BufferAssumption DEF TypeOK, ServerTypeOK, BufferTypeOK
  <1>1. (lives' = lives \/ lives' = lives + 1) /\ lives' >= 1
    BY <1>t, SizeStep DEF LimitInv
  <1>2. ASSUME lives' = 1
        PROVE  /\ IsFiniteSet(entries')
               /\ sizeEst' = SumFunctionOnSet(Size, entries')
               /\ Cardinality(entries') > 1 => sizeEst' <= MaxBytes
    <2>1. lives = 1
      BY <1>t, <1>1, <1>2 DEF LimitInv
    <2>2. /\ IsFiniteSet(entries) /\ sizeEst = SumFunctionOnSet(Size, entries)
          /\ Cardinality(entries) > 1 => sizeEst <= MaxBytes
      BY <2>1 DEF LimitInv
    <2>3. CASE UNCHANGED <<entries, sizeEst>>
      BY <2>2, <2>3
    <2>4. ASSUME NEW r \in Request, NEW e \in Entry, At(r, e), ~Exceeds(e),
                 entries' = entries \cup {e}, sizeEst' = sizeEst + Size[e]
          PROVE  /\ IsFiniteSet(entries')
                 /\ sizeEst' = SumFunctionOnSet(Size, entries')
                 /\ Cardinality(entries') > 1 => sizeEst' <= MaxBytes
      <3>1. e \notin entries
        BY <2>4, AtAwaits DEF FreshInv, InMemory
      <3>2. SumFunctionOnSet(Size, entries \cup {e}) = SumFunctionOnSet(Size, entries) + Size[e]
        BY <1>t, <2>2, <3>1, SumAdd
      <3>3. IsFiniteSet(entries \cup {e})
        BY <2>2, FS_AddElement
      <3>4. CASE entries = {}
        <4>1. entries' = {e}
          BY <2>4, <3>4
        <4>2. Cardinality(entries') = 1
          BY <4>1, FS_Singleton
        <4> QED BY <2>2, <2>4, <3>2, <3>3, <4>2
      <3>5. CASE entries # {}
        <4>1. sizeEst + Size[e] <= MaxBytes
          BY <1>t, <2>4, <3>5 DEF Exceeds
        <4> QED BY <2>2, <2>4, <3>2, <3>3, <4>1
      <3> QED BY <3>4, <3>5
    <2>5. ASSUME NEW e \in Entry, entries' = {e}, sizeEst' = Size[e]
          PROVE  /\ IsFiniteSet(entries')
                 /\ sizeEst' = SumFunctionOnSet(Size, entries')
                 /\ Cardinality(entries') > 1 => sizeEst' <= MaxBytes
      <3>1. IsFiniteSet({}) /\ {} \cup {e} = {e} /\ e \notin {} /\ Size[e] \in Nat
        BY <1>t, FS_EmptySet
      <3>2. SumFunctionOnSet(Size, {}) = 0
        BY <3>1, SumEquation
      <3>3. SumFunctionOnSet(Size, {} \cup {e}) = SumFunctionOnSet(Size, {}) + Size[e]
        BY <3>1, SumAdd
      <3>4. IsFiniteSet({e}) /\ Cardinality({e}) = 1
        BY FS_Singleton
      <3> QED BY <2>5, <3>1, <3>2, <3>3, <3>4
    <2>6. CASE entries' = {} /\ sizeEst' = 0
      BY <2>6, FS_EmptySet, SumEquation
    <2>7. lives' # lives + 1
      BY <1>2, <2>1
    <2> QED BY <2>3, <2>4, <2>5, <2>6, <2>7, SizeStep
  <1>3. BatchesWithinLimit'
    <2> SUFFICES ASSUME lives' = 1, NEW b \in Sent', Cardinality(b.entries) > 1
                 PROVE  BatchBytes(b) <= MaxBytes
      BY DEF BatchesWithinLimit, Sent
    <2>1. lives = 1
      BY <1>t, <1>1 DEF LimitInv
    <2>2. CASE b \in Sent
      BY <2>1, <2>2 DEF LimitInv, BatchesWithinLimit, Sent
    <2>3. CASE b = CurrentBatch
      <3>1. b.entries = entries
        BY <2>3 DEF CurrentBatch
      <3> QED BY <2>1, <3>1 DEF LimitInv, BatchBytes
    <2> QED BY <2>2, <2>3, SentStep
  <1> QED BY <1>1, <1>2, <1>3 DEF LimitInv

\* In a process that has replayed nothing, a batch of more than one entry is
\* within MaxBytes, wherever it is: dispatchFlush starts the estimate over, Add
\* tests it before it adds, and no entry is counted twice or not at all.
THEOREM BatchesKeepToLimit == Spec => []BatchesWithinLimit
  <1>1. Init => FreshInv /\ LimitInv
    <2> SUFFICES ASSUME Init PROVE FreshInv /\ LimitInv
      OBVIOUS
    <2>1. /\ entries = {} /\ sizeEst = 0 /\ lives = 1
          /\ flushCh = <<>> /\ flushing = {} /\ chunks = {}
      BY DEF Init, BufferInit, FlusherInit
    <2>2. BatchesWithinLimit
      BY <2>1, RangeEmpty DEF BatchesWithinLimit
    <2>3. LimitInv
      BY <2>1, <2>2, FS_EmptySet, SumEquation DEF LimitInv
    <2> QED BY <2>3, OnceInit
  <1>2. TypeOK /\ FreshInv /\ LimitInv /\ [Next]_vars => FreshInv' /\ LimitInv'
    BY FreshInductive, LimitInductive
  <1>3. LimitInv => BatchesWithinLimit
    BY DEF LimitInv
  <1> QED BY <1>1, <1>2, <1>3, TypeCorrect, PTL DEF Spec

----------------------------------------------------------------------------
(* What a tail client sees.                                                *)

\* What the client of s has, what is being written to it and what waits for it.
Seen(s) == got[s] \o hand[s] \o ch[s]

\* Outside a write the handler holds nothing, unless it is on its way out.
SeenInv ==
  \A s \in Sub :
    /\ tailPc[s] \in {"idle", "stream", "refused"} => hand[s] = <<>>
    /\ IsInjective(Seen(s)) /\ Range(Seen(s)) \subseteq accepted

\* Appending a new element keeps a sequence injective.
LEMMA InjectiveAppend ==
  ASSUME NEW S, NEW s \in Seq(S), NEW x \in S, IsInjective(s), x \notin Range(s)
  PROVE  IsInjective(Append(s, x))
  <1>1. /\ DOMAIN Append(s, x) = 1 .. Len(s) + 1
        /\ \A i \in 1 .. Len(s) : Append(s, x)[i] = s[i]
        /\ Append(s, x)[Len(s) + 1] = x
        /\ DOMAIN s = 1 .. Len(s) /\ Len(s) \in Nat
    OBVIOUS
  <1>2. \A i \in DOMAIN s : s[i] # x
    BY DEF Range
  <1>3. \A i \in 1 .. Len(s) + 1 : i \in 1 .. Len(s) \/ i = Len(s) + 1
    BY <1>1
  <1> QED BY <1>1, <1>2, <1>3 DEF IsInjective

\* A part of an injective sequence is injective.
LEMMA InjectivePrefix ==
  ASSUME NEW S, NEW s \in Seq(S), NEW t \in Seq(S), IsInjective(s \o t)
  PROVE  IsInjective(s) /\ Range(s) \subseteq Range(s \o t)
  <1>1. /\ DOMAIN s = 1 .. Len(s) /\ Len(s) \in Nat /\ Len(t) \in Nat
        /\ DOMAIN (s \o t) = 1 .. Len(s) + Len(t)
        /\ \A i \in 1 .. Len(s) : (s \o t)[i] = s[i]
    OBVIOUS
  <1>2. \A i \in DOMAIN s : i \in DOMAIN (s \o t) /\ (s \o t)[i] = s[i]
    BY <1>1
  <1> QED BY <1>2 DEF IsInjective, Range

\* Seen reads the same from its parts, however they are bracketed.
LEMMA ConcatFacts ==
  ASSUME NEW S, NEW g \in Seq(S), NEW h \in Seq(S), NEW c \in Seq(S)
  PROVE  /\ g \o h \o c \in Seq(S)
         /\ \A x \in S : g \o h \o Append(c, x) = Append(g \o h \o c, x)
         /\ c # <<>> => g \o <<>> \o c = g \o <<Head(c)>> \o Tail(c)
         /\ g \o h \o <<>> = g \o h
         /\ (g \o h) \o <<>> \o c = g \o h \o c
         /\ g \o <<>> \o <<>> = g
  <1>1. g \o h \o c \in Seq(S) /\ g \o h \o <<>> = g \o h /\ g \o <<>> \o <<>> = g
    OBVIOUS
  <1>2. \A x \in S : g \o h \o Append(c, x) = Append(g \o h \o c, x)
    OBVIOUS
  <1>3. ASSUME c # <<>> PROVE g \o <<>> \o c = g \o <<Head(c)>> \o Tail(c)
    BY <1>3
  <1>4. (g \o h) \o <<>> \o c = g \o h \o c
    OBVIOUS
  <1> QED BY <1>1, <1>2, <1>3, <1>4

\* Leaving out the middle of an injective sequence keeps it injective.
LEMMA InjectiveMiddle ==
  ASSUME NEW S, NEW g \in Seq(S), NEW h \in Seq(S), NEW c \in Seq(S),
         IsInjective(g \o h \o c)
  PROVE  IsInjective(g \o <<>> \o c) /\ Range(g \o <<>> \o c) \subseteq Range(g \o h \o c)
  <1> DEFINE long == g \o h \o c
             short == g \o <<>> \o c
             at(i) == IF i <= Len(g) THEN i ELSE i + Len(h)
  <1>1. Len(g) \in Nat /\ Len(h) \in Nat /\ Len(c) \in Nat
    OBVIOUS
  <1>2. /\ DOMAIN short = 1 .. Len(g) + Len(c)
        /\ \A i \in 1 .. Len(g) + Len(c) :
             short[i] = IF i <= Len(g) THEN g[i] ELSE c[i - Len(g)]
    OBVIOUS
  <1>3. /\ DOMAIN long = 1 .. Len(g) + Len(h) + Len(c)
        /\ \A i \in 1 .. Len(g) : long[i] = g[i]
        /\ \A i \in 1 .. Len(c) : long[Len(g) + Len(h) + i] = c[i]
    OBVIOUS
  <1>i. IsInjective(long)
    OBVIOUS
  <1> HIDE DEF long, short
  <1>4. \A i \in DOMAIN short : at(i) \in DOMAIN long /\ long[at(i)] = short[i]
    <2> SUFFICES ASSUME NEW i \in DOMAIN short
                 PROVE  at(i) \in DOMAIN long /\ long[at(i)] = short[i]
      OBVIOUS
    <2>1. CASE i <= Len(g)
      BY <1>1, <1>2, <1>3, <2>1
    <2>2. CASE ~(i <= Len(g))
      <3>1. i - Len(g) \in 1 .. Len(c) /\ Len(g) + Len(h) + (i - Len(g)) = at(i)
        BY <1>1, <1>2, <2>2
      <3> QED BY <1>1, <1>2, <1>3, <2>2, <3>1
    <2> QED BY <2>1, <2>2
  <1>5. \A i, j \in DOMAIN short : at(i) = at(j) => i = j
    BY <1>1, <1>2
  <1> HIDE DEF at
  <1>6. IsInjective(short) /\ Range(short) \subseteq Range(long)
    BY <1>i, <1>4, <1>5 DEF IsInjective, Range
  <1> QED BY <1>6 DEF long, short

\* A step of the tail handler of s shows nothing new and nothing twice.
LEMMA TailKeepsSeen ==
  ASSUME TypeOK, SeenInv, NEW s \in Sub, TailStep(s), accepted' = accepted
  PROVE  SeenInv'
  <1>t. /\ ch \in [Sub -> Seq(Entry)] /\ hand \in [Sub -> Seq(Entry)]
        /\ got \in [Sub -> Seq(Entry)]
        /\ tailPc \in [Sub -> {"idle", "stream", "write", "leave", "refused", "done"}]
    BY DEF TypeOK, BrokerTypeOK
  <1>a. UNCHANGED <<got, hand, ch>> => \A q \in Sub : Seen(q)' = Seen(q)
    BY DEF Seen
  <1>1. CASE TailUpgrade(s)
    BY <1>1, <1>a, <1>t DEF TailUpgrade, Subscribe, SeenInv
  <1>2. CASE TailReceive(s)
    <2>1. /\ ch[s] # <<>> /\ hand[s] = <<>> /\ got' = got
          /\ hand' = [hand EXCEPT ![s] = <<Head(ch[s])>>]
          /\ ch' = [ch EXCEPT ![s] = Tail(ch[s])]
          /\ tailPc' = [tailPc EXCEPT ![s] = "write"]
      BY <1>2 DEF TailReceive, SeenInv
    <2>2. Seen(s)' = Seen(s)
      BY <1>t, <2>1, ConcatFacts DEF Seen
    <2>3. \A q \in Sub : q # s => Seen(q)' = Seen(q) /\ tailPc'[q] = tailPc[q] /\ hand'[q] = hand[q]
      BY <1>t, <2>1 DEF Seen
    <2>4. tailPc'[s] = "write"
      BY <1>t, <2>1
    <2> QED BY <2>2, <2>3, <2>4 DEF SeenInv
  <1>3. CASE TailWrite(s)
    <2>1. /\ hand' = [hand EXCEPT ![s] = <<>>] /\ ch' = ch
          /\ got' = [got EXCEPT ![s] = @ \o hand[s]] \/ got' = got
          /\ tailPc' = [tailPc EXCEPT ![s] = "stream"]
      BY <1>3 DEF TailWrite
    <2>2. \A q \in Sub : q # s => Seen(q)' = Seen(q) /\ tailPc'[q] = tailPc[q] /\ hand'[q] = hand[q]
      BY <1>t, <2>1 DEF Seen
    <2>3. hand'[s] = <<>> /\ ch'[s] = ch[s]
      BY <1>t, <2>1
    <2>4. IsInjective(Seen(s)') /\ Range(Seen(s)') \subseteq accepted
      <3>1. CASE got' = [got EXCEPT ![s] = @ \o hand[s]]
        <4>1. got'[s] = got[s] \o hand[s]
          BY <1>t, <3>1
        <4>2. Seen(s)' = Seen(s)
          BY <1>t, <2>3, <4>1, ConcatFacts DEF Seen
        <4> QED BY <4>2 DEF SeenInv
      <3>2. CASE got' = got
        <4>1. Seen(s)' = got[s] \o <<>> \o ch[s]
          BY <2>3, <3>2 DEF Seen
        <4> QED BY <1>t, <4>1, InjectiveMiddle DEF Seen, SeenInv
      <3> QED BY <2>1, <3>1, <3>2
    <2> QED BY <2>2, <2>3, <2>4 DEF SeenInv
  <1>4. CASE TailWriteError(s) \/ TailLeave(s) \/ ClientGone(s)
    BY <1>4, <1>a, <1>t DEF TailWriteError, TailLeave, ClientGone, Unsubscribe, SeenInv
  <1> QED BY <1>1, <1>2, <1>3, <1>4 DEF TailStep

\* SeenInv is inductive: what is published is accepted in the same step, and was
\* not accepted before.
LEMMA SeenInductive ==
  ASSUME TypeOK, FreshInv, SeenInv, [Next]_vars
  PROVE  SeenInv'
  <1>t. /\ ch \in [Sub -> Seq(Entry)] /\ hand \in [Sub -> Seq(Entry)]
        /\ got \in [Sub -> Seq(Entry)]
        /\ tailPc \in [Sub -> {"idle", "stream", "write", "leave", "refused", "done"}]
    BY DEF TypeOK, BrokerTypeOK
  <1>a. UNCHANGED <<brokerVars, accepted>> => SeenInv'
    BY DEF brokerVars, SeenInv, Seen
  <1>1. ASSUME NEW r \in Request, NEW e \in Entry, AcceptEntry(r, e) PROVE SeenInv'
    <2>1. Publish(e) /\ accepted' = accepted \cup {e} /\ At(r, e)
      BY <1>1 DEF AcceptEntry, AddFits, AddDispatches
    <2>2. e \notin accepted
      BY <2>1, AtAwaits DEF FreshInv
    <2>3. UNCHANGED <<got, hand, tailPc>>
      BY <2>1 DEF Publish, handlerVars
    <2>4. ASSUME NEW s \in Sub
          PROVE  IsInjective(Seen(s)') /\ Range(Seen(s)') \subseteq accepted'
      <3>1. IsInjective(Seen(s)) /\ Range(Seen(s)) \subseteq accepted /\ Seen(s) \in Seq(Entry)
        BY <1>t, ConcatFacts DEF SeenInv, Seen
      <3>2. ch'[s] = Append(ch[s], e) \/ ch'[s] = ch[s]
        BY <2>1 DEF Publish
      <3>3. CASE ch'[s] = Append(ch[s], e)
        <4>1. Seen(s)' = Append(Seen(s), e)
          BY <1>t, <2>3, <3>3, ConcatFacts DEF Seen
        <4>2. IsInjective(Append(Seen(s), e))
          BY <2>2, <3>1, InjectiveAppend
        <4>3. Range(Append(Seen(s), e)) = Range(Seen(s)) \cup {e}
          BY <3>1, RangeAppend
        <4> QED BY <2>1, <3>1, <4>1, <4>2, <4>3
      <3>4. CASE ch'[s] = ch[s]
        <4>1. Seen(s)' = Seen(s)
          BY <2>3, <3>4 DEF Seen
        <4> QED BY <2>1, <3>1, <4>1
      <3> QED BY <3>2, <3>3, <3>4
    <2> QED BY <2>3, <2>4 DEF SeenInv
  <1>2. ASSUME NEW r \in Request, Handle(r) PROVE SeenInv'
    <2>1. CASE Receive(r) \/ Respond(r)
      BY <1>a, <2>1 DEF Receive, Respond
    <2>2. ASSUME NEW e \in Entry, SkipEntry(r, e) \/ AbortRequest(r, e) PROVE SeenInv'
      BY <1>a, <2>2 DEF SkipEntry, AbortRequest, AddPanics
    <2> QED BY <1>1, <1>2, <2>1, <2>2 DEF Handle
  <1>3. ASSUME NEW how, Die(how) PROVE SeenInv'
    <2>1. /\ got' = got /\ accepted' = accepted
          /\ hand' = [s \in Sub |-> <<>>] /\ ch' = [s \in Sub |-> <<>>]
      BY <1>3 DEF Die, BrokerLost
    <2>2. ASSUME NEW s \in Sub
          PROVE  IsInjective(Seen(s)') /\ Range(Seen(s)') \subseteq accepted /\ hand'[s] = <<>>
      <3>1. Seen(s)' = got[s]
        BY <1>t, <2>1, ConcatFacts DEF Seen
      <3>2. IsInjective(got[s] \o (hand[s] \o ch[s])) /\ hand[s] \o ch[s] \in Seq(Entry)
              /\ got[s] \o (hand[s] \o ch[s]) = Seen(s)
        <4>1. got[s] \o (hand[s] \o ch[s]) = Seen(s) /\ hand[s] \o ch[s] \in Seq(Entry)
          BY <1>t DEF Seen
        <4> QED BY <4>1 DEF SeenInv
      <3>3. IsInjective(got[s]) /\ Range(got[s]) \subseteq Range(Seen(s))
        BY <1>t, <3>2, InjectivePrefix
      <3> QED BY <2>1, <3>1, <3>3 DEF SeenInv
    <2> QED BY <2>1, <2>2 DEF SeenInv
  <1>4. CASE Exit \/ TickCrash \/ Crash \/ \E r \in Request, e \in Entry : CrashInAdd(r, e)
    BY <1>3, <1>4 DEF Exit, TickCrash, Crash, CrashInAdd
  <1>5. CASE Background
    BY <1>a, <1>5 DEF Background, TickFire, TickBody, TickReturn, LoopTake, LoopReturn, RunFlush,
                      StopTicker, StopFlush, StopCloseCh, StopWait, StopReset, StopTruncate,
                      StopRenew, StopRecount, StopCloseWAL, serverVars
  <1>6. CASE Tailing
    BY <1>6, TailKeepsSeen DEF Tailing, serverVars
  <1>7. CASE Shutdown \/ Start \/ UNCHANGED vars
    BY <1>a, <1>7 DEF Shutdown, Start, vars, serverVars
  <1> QED BY <1>2, <1>4, <1>5, <1>6, <1>7 DEF Next

\* A tail client sees accepted entries only, and each of them once, across
\* dispatch, upload, panics, crashes and replay.
THEOREM TailShowsOnlyAccepted == Spec => []TailShowsAccepted
  <1>1. Init => FreshInv /\ SeenInv
    <2>1. Init => SeenInv
      BY RangeEmpty DEF Init, BrokerInit, SeenInv, Seen, IsInjective
    <2> QED BY <2>1, OnceInit
  <1>2. TypeOK /\ FreshInv /\ SeenInv /\ [Next]_vars => FreshInv' /\ SeenInv'
    BY FreshInductive, SeenInductive
  <1>3. SeenInv => TailShowsAccepted
    BY DEF SeenInv, Seen, TailShowsAccepted
  <1> QED BY <1>1, <1>2, <1>3, TypeCorrect, PTL DEF Spec

----------------------------------------------------------------------------
(* What a tail client misses.                                              *)

\* The bookkeeping of one connection: nothing is kept for it before it is open,
\* the handler of an open one is in its loop, only what was owed can have been
\* missed, and Seen spells the rest.
Faithful(s) ==
  /\ tailPc[s] = "idle" =>
       /\ s \notin subs /\ client[s] = "none"
       /\ owed[s] = <<>> /\ missed[s] = {} /\ Seen(s) = <<>>
  /\ tailPc[s] \in {"idle", "stream", "refused"} => hand[s] = <<>>
  /\ client[s] = "open" => /\ tailPc[s] \in {"stream", "write"}
                            /\ Seen(s) = Only(owed[s], Entry \ missed[s])
  /\ missed[s] \subseteq Range(owed[s])

FaithInv == \A s \in Sub : Faithful(s)

\* Publishing an entry for the first time.
LEMMA PublishFaithful ==
  ASSUME BrokerTypeOK, FaithInv, NEW e \in Entry, Unpublished(e), Publish(e)
  PROVE  FaithInv'
  <1> SUFFICES ASSUME NEW s \in Sub PROVE Faithful(s)'
    BY DEF FaithInv
  <1>t. /\ ch[s] \in Seq(Entry) /\ hand[s] \in Seq(Entry) /\ got[s] \in Seq(Entry)
        /\ owed[s] \in Seq(Entry) /\ missed[s] \in SUBSET Entry
    BY DEF BrokerTypeOK
  <1>i. Faithful(s)
    BY DEF FaithInv
  <1>u. UNCHANGED <<subs, hand, tailPc, client, got>>
    BY DEF Publish, handlerVars
  <1>1. CASE s \notin Matching(e)
    <2>1. ch'[s] = ch[s] /\ owed'[s] = owed[s] /\ missed'[s] = missed[s]
      BY <1>1 DEF Publish
    <2> QED BY <1>i, <1>u, <2>1 DEF Faithful, Seen
  <1>2. CASE s \in Matching(e)
    <2>1. /\ owed'[s] = Append(owed[s], e)
          /\ ch'[s] = IF Full(s) THEN ch[s] ELSE Append(ch[s], e)
          /\ missed'[s] = IF Full(s) THEN missed[s] \cup {e} ELSE missed[s]
      BY <1>2 DEF Publish
    <2>2. e \notin Range(owed[s]) /\ e \notin missed[s]
      BY <1>i DEF Unpublished, Faithful
    <2>3. Range(owed'[s]) = Range(owed[s]) \cup {e}
      BY <1>t, <2>1, RangeAppend
    <2>4. missed'[s] \subseteq Range(owed'[s])
      BY <1>i, <2>1, <2>3 DEF Faithful
    <2>5. tailPc[s] # "idle"
      BY <1>i, <1>2 DEF Faithful, Matching
    <2>6. ASSUME client[s] = "open" PROVE Seen(s)' = Only(owed'[s], Entry \ missed'[s])
      <3>1. Seen(s) = Only(owed[s], Entry \ missed[s])
        BY <1>i, <2>6 DEF Faithful
      <3>2. Only(Append(owed[s], e), Entry \ missed'[s])
              = IF e \in Entry \ missed'[s] THEN Append(Only(owed[s], Entry \ missed'[s]), e)
                ELSE Only(owed[s], Entry \ missed'[s])
        <4>1. PICK q, M : q = owed[s] /\ M = Entry \ missed'[s]
          OBVIOUS
        <4>2. q \in Seq(Entry)
          BY <1>t, <4>1
        <4>3. Only(Append(q, e), M) = IF e \in M THEN Append(Only(q, M), e) ELSE Only(q, M)
          BY <4>2, OnlyAppend
        <4> QED BY <4>1, <4>3, Zenon
      <3>3. Only(owed[s], Entry \ missed'[s]) = Only(owed[s], Entry \ missed[s])
        <4>1. \A x \in Range(owed[s]) : x \in Entry \ missed'[s] <=> x \in Entry \ missed[s]
          BY <2>1, <2>2
        <4> QED BY <1>t, <4>1, OnlySame
      <3>4. CASE Full(s)
        <4>1. e \notin Entry \ missed'[s]
          BY <2>1, <3>4
        <4>2. Seen(s)' = Seen(s)
          BY <1>u, <2>1, <3>4 DEF Seen
        <4> QED BY <2>1, <3>1, <3>2, <3>3, <4>1, <4>2
      <3>5. CASE ~Full(s)
        <4>1. e \in Entry \ missed'[s]
          BY <2>1, <2>2, <3>5
        <4>2. Seen(s)' = Append(Seen(s), e)
          <5>1. ch'[s] = Append(ch[s], e) /\ hand'[s] = hand[s] /\ got'[s] = got[s]
            BY <1>u, <2>1, <3>5
          <5>2. got[s] \o hand[s] \o Append(ch[s], e) = Append(got[s] \o hand[s] \o ch[s], e)
            <6>1. PICK g, h, c : g = got[s] /\ h = hand[s] /\ c = ch[s]
              OBVIOUS
            <6>2. g \in Seq(Entry) /\ h \in Seq(Entry) /\ c \in Seq(Entry)
              BY <1>t, <6>1
            <6>3. g \o h \o Append(c, e) = Append(g \o h \o c, e)
              BY <6>2
            <6> QED BY <6>1, <6>3, Zenon
          <5>3. Seen(s)' = got[s] \o hand[s] \o Append(ch[s], e)
            BY <5>1 DEF Seen
          <5> QED BY <5>2, <5>3 DEF Seen
        <4> QED BY <2>1, <3>1, <3>2, <3>3, <4>1, <4>2
      <3> QED BY <3>4, <3>5
    <2> QED BY <1>i, <1>u, <2>4, <2>5, <2>6 DEF Faithful
  <1> QED BY <1>1, <1>2

\* A step of a handler or of its client.
LEMMA TailStepFaithful ==
  ASSUME BrokerTypeOK, FaithInv, NEW s \in Sub, TailStep(s)
  PROVE  FaithInv'
  <1>t. /\ ch \in [Sub -> Seq(Entry)] /\ hand \in [Sub -> Seq(Entry)]
        /\ got \in [Sub -> Seq(Entry)] /\ client \in [Sub -> {"none", "open", "gone"}]
        /\ tailPc \in [Sub -> {"idle", "stream", "write", "leave", "refused", "done"}]
    BY DEF BrokerTypeOK
  <1>i. \A q \in Sub : Faithful(q)
    BY DEF FaithInv
  <1>o. UNCHANGED <<owed, missed>>
    BY DEF TailStep, TailUpgrade, Subscribe, TailReceive, TailWrite, TailWriteError, TailLeave,
           Unsubscribe, ClientGone
  <1>p. ASSUME NEW q \in Sub, q # s
        PROVE  /\ ch'[q] = ch[q] /\ hand'[q] = hand[q] /\ got'[q] = got[q]
               /\ client'[q] = client[q] /\ tailPc'[q] = tailPc[q] /\ (q \in subs' <=> q \in subs)
    BY <1>t, <1>p DEF TailStep, TailUpgrade, Subscribe, TailReceive, TailWrite, TailWriteError,
                 TailLeave, Unsubscribe, ClientGone
  <1>q. ASSUME NEW q \in Sub, q # s PROVE Faithful(q)'
    BY <1>i, <1>o, <1>p, <1>q DEF Faithful, Seen
  <1>s. Faithful(s)'
    <2>1. CASE TailUpgrade(s)
      <3>1. /\ tailPc[s] = "idle" /\ UNCHANGED <<ch, hand, got>>
            /\ \/ tailPc'[s] = "stream"
               \/ tailPc'[s] = "refused" /\ client'[s] = client[s]
        BY <1>t, <2>1 DEF TailUpgrade, Subscribe
      <3>2. /\ owed[s] = <<>> /\ missed[s] = {} /\ Seen(s) = <<>> /\ hand[s] = <<>>
            /\ client[s] = "none"
        BY <1>i, <3>1 DEF Faithful
      <3>3. <<>> \in Seq(Entry)
        OBVIOUS
      <3>4. Only(<<>>, Entry \ {}) = <<>>
        BY OnlyEmpty
      <3>5. Seen(s)' = <<>> /\ owed'[s] = <<>> /\ missed'[s] = {} /\ hand'[s] = <<>>
        BY <1>o, <3>1, <3>2 DEF Seen
      <3> QED BY <3>1, <3>2, <3>4, <3>5 DEF Faithful
    <2>2. CASE TailReceive(s)
      <3>1. /\ tailPc[s] = "stream" /\ ch[s] # <<>> /\ got'[s] = got[s] /\ client' = client
            /\ hand'[s] = <<Head(ch[s])>> /\ ch'[s] = Tail(ch[s]) /\ tailPc'[s] = "write"
        BY <1>t, <2>2 DEF TailReceive
      <3>2. hand[s] = <<>>
        BY <1>i, <3>1 DEF Faithful
      <3>3. Seen(s)' = Seen(s)
        BY <1>t, <3>1, <3>2, ConcatFacts DEF Seen
      <3> QED BY <1>i, <1>o, <3>1, <3>3 DEF Faithful
    <2>3. CASE TailWrite(s)
      <3>1. /\ tailPc[s] = "write" /\ ch'[s] = ch[s] /\ client' = client
            /\ hand'[s] = <<>> /\ tailPc'[s] = "stream"
            /\ client[s] = "open" => got'[s] = got[s] \o hand[s]
        BY <1>t, <2>3 DEF TailWrite
      <3>2. ASSUME client[s] = "open" PROVE Seen(s)' = Seen(s)
        <4>1. got'[s] = got[s] \o hand[s] /\ hand'[s] = <<>> /\ ch'[s] = ch[s]
          BY <3>1, <3>2
        <4>2. (got[s] \o hand[s]) \o <<>> \o ch[s] = got[s] \o hand[s] \o ch[s]
          BY <1>t, ConcatFacts
        <4> QED BY <4>1, <4>2 DEF Seen
      <3> QED BY <1>i, <1>o, <3>1, <3>2 DEF Faithful
    <2>4. CASE TailWriteError(s)
      <3>1. client[s] = "gone" /\ UNCHANGED <<ch, hand, got, client, subs>> /\ tailPc'[s] = "leave"
        BY <1>t, <2>4 DEF TailWriteError
      <3> QED BY <1>i, <1>o, <3>1 DEF Faithful
    <2>5. CASE TailLeave(s)
      <3>1. /\ tailPc[s] = "leave" /\ UNCHANGED <<ch, hand, got, client>> /\ tailPc'[s] = "done"
        BY <1>t, <2>5 DEF TailLeave, Unsubscribe
      <3> QED BY <1>i, <1>o, <3>1 DEF Faithful
    <2>6. CASE ClientGone(s)
      <3>1. /\ client[s] = "open" /\ client'[s] = "gone"
            /\ UNCHANGED <<ch, hand, got, tailPc, subs>>
        BY <1>t, <2>6 DEF ClientGone
      <3> QED BY <1>i, <1>o, <3>1 DEF Faithful, Seen
    <2> QED BY <2>1, <2>2, <2>3, <2>4, <2>5, <2>6 DEF TailStep
  <1> QED BY <1>q, <1>s DEF FaithInv

\* The other steps there are: the process dies, or the broker is left alone.
LEMMA RestFaithful ==
  ASSUME BrokerTypeOK, FaithInv, BrokerLost \/ UNCHANGED brokerVars
  PROVE  FaithInv'
  <1>1. CASE UNCHANGED brokerVars
    BY <1>1 DEF brokerVars, FaithInv, Faithful, Seen
  <1>2. CASE BrokerLost
    <2> SUFFICES ASSUME NEW s \in Sub PROVE Faithful(s)'
      BY DEF FaithInv
    <2>1. /\ subs' = {} /\ ch'[s] = <<>> /\ hand'[s] = <<>> /\ client'[s] # "open"
          /\ tailPc'[s] = IF tailPc[s] = "idle" THEN "idle" ELSE "done"
          /\ client[s] # "open" => client'[s] = client[s]
          /\ UNCHANGED <<got, owed, missed>>
      BY <1>2 DEF BrokerLost
    <2>2. Faithful(s) /\ got[s] \in Seq(Entry) /\ hand[s] \in Seq(Entry) /\ ch[s] \in Seq(Entry)
      BY DEF FaithInv, BrokerTypeOK
    <2>3. Seen(s) = <<>> => Seen(s)' = <<>>
      <3>1. Seen(s) = <<>> => got[s] = <<>>
        BY <2>2 DEF Seen
      <3> QED BY <2>1, <3>1 DEF Seen
    <2> QED BY <2>1, <2>2, <2>3 DEF Faithful
  <1> QED BY <1>1, <1>2

LEMMA FaithInit == BrokerInit => BrokerTypeOK /\ FaithInv
  <1> SUFFICES ASSUME BrokerInit PROVE BrokerTypeOK /\ FaithInv
    OBVIOUS
  <1>1. BrokerTypeOK
    BY DEF BrokerInit, BrokerTypeOK
  <1>2. \A s \in Sub : Seen(s) = <<>>
    BY DEF BrokerInit, Seen
  <1> QED BY <1>1, <1>2, RangeEmpty DEF BrokerInit, FaithInv, Faithful

\* A connected client is shown, in order, what matched since it subscribed less
\* what found its channel full: for the broker on its own, whoever publishes and
\* in whatever order, as long as no entry is published twice.
THEOREM TailIsFaithful == BrokerSpec => []TailFaithful
  <1>1. BrokerTypeOK /\ FaithInv /\ [BrokerNext]_brokerVars => BrokerTypeOK' /\ FaithInv'
    <2> SUFFICES ASSUME BrokerTypeOK, FaithInv, [BrokerNext]_brokerVars
                 PROVE  BrokerTypeOK' /\ FaithInv'
      OBVIOUS
    <2>1. BrokerTypeOK'
      BY BrokerOpTypes DEF BrokerNext
    <2>2. FaithInv'
      BY PublishFaithful, TailStepFaithful, RestFaithful DEF BrokerNext
    <2> QED BY <2>1, <2>2
  <1>2. FaithInv => TailFaithful
    BY DEF FaithInv, Faithful, Seen, TailFaithful
  <1> QED BY <1>1, <1>2, FaithInit, PTL DEF BrokerSpec

\* What was owed was accepted, so an entry that Add publishes is published for
\* the first time.
OwedInv == FaithInv /\ \A s \in Sub : Range(owed[s]) \subseteq accepted

LEMMA OwedInductive ==
  ASSUME TypeOK, FreshInv, OwedInv, [Next]_vars
  PROVE  OwedInv'
  <1>t. BrokerTypeOK /\ FaithInv
    BY DEF TypeOK, OwedInv
  <1>a. ASSUME UNCHANGED <<brokerVars, accepted>> PROVE OwedInv'
    <2>1. UNCHANGED brokerVars /\ owed' = owed
      BY <1>a DEF brokerVars
    <2>2. FaithInv'
      BY <1>t, <2>1, RestFaithful
    <2> QED BY <1>a, <2>1, <2>2 DEF OwedInv
  <1>1. ASSUME NEW r \in Request, NEW e \in Entry, AcceptEntry(r, e) PROVE OwedInv'
    <2>1. Publish(e) /\ accepted' = accepted \cup {e} /\ At(r, e)
      BY <1>1 DEF AcceptEntry, AddFits, AddDispatches
    <2>2. e \notin accepted
      BY <2>1, AtAwaits DEF FreshInv
    <2>3. Unpublished(e)
      BY <2>2 DEF OwedInv, Unpublished
    <2>4. FaithInv'
      BY <1>t, <2>1, <2>3, PublishFaithful
    <2>5. ASSUME NEW s \in Sub PROVE Range(owed'[s]) \subseteq accepted'
      <3>1. owed[s] \in Seq(Entry) /\ (owed'[s] = owed[s] \/ owed'[s] = Append(owed[s], e))
        BY <1>t, <2>1 DEF BrokerTypeOK, Publish
      <3>2. Range(Append(owed[s], e)) = Range(owed[s]) \cup {e}
        BY <3>1, RangeAppend
      <3> QED BY <2>1, <3>1, <3>2 DEF OwedInv
    <2> QED BY <2>4, <2>5 DEF OwedInv
  <1>2. ASSUME NEW r \in Request, Handle(r) PROVE OwedInv'
    <2>1. CASE Receive(r) \/ Respond(r)
      BY <1>a, <2>1 DEF Receive, Respond
    <2>2. ASSUME NEW e \in Entry, SkipEntry(r, e) \/ AbortRequest(r, e) PROVE OwedInv'
      BY <1>a, <2>2 DEF SkipEntry, AbortRequest, AddPanics
    <2> QED BY <1>1, <1>2, <2>1, <2>2 DEF Handle
  <1>3. ASSUME NEW how, Die(how) PROVE OwedInv'
    <2>1. BrokerLost /\ UNCHANGED <<owed, accepted>>
      BY <1>3 DEF Die, BrokerLost
    <2>2. FaithInv'
      BY <1>t, <2>1, RestFaithful
    <2> QED BY <2>1, <2>2 DEF OwedInv
  <1>4. CASE Exit \/ TickCrash \/ Crash \/ \E r \in Request, e \in Entry : CrashInAdd(r, e)
    BY <1>3, <1>4 DEF Exit, TickCrash, Crash, CrashInAdd
  <1>5. CASE Background
    BY <1>a, <1>5 DEF Background, TickFire, TickBody, TickReturn, LoopTake, LoopReturn, RunFlush,
                      StopTicker, StopFlush, StopCloseCh, StopWait, StopReset, StopTruncate,
                      StopRenew, StopRecount, StopCloseWAL, serverVars
  <1>6. CASE Tailing
    <2>1. PICK s \in Sub : TailStep(s)
      BY <1>6 DEF Tailing
    <2>2. UNCHANGED <<owed, accepted>>
      BY <1>6, <2>1 DEF Tailing, serverVars, TailStep, TailUpgrade, Subscribe, TailReceive, TailWrite,
                        TailWriteError, TailLeave, Unsubscribe, ClientGone
    <2>3. FaithInv'
      BY <1>t, <2>1, TailStepFaithful
    <2> QED BY <2>2, <2>3 DEF OwedInv
  <1>7. CASE Shutdown \/ Start \/ UNCHANGED vars
    BY <1>a, <1>7 DEF Shutdown, Start, vars, serverVars
  <1> QED BY <1>2, <1>4, <1>5, <1>6, <1>7 DEF Next

\* The same for the broker inside the ingester, where Add publishes, through
\* panics, crashes and restarts.
THEOREM IngesterTailIsFaithful == Spec => []TailFaithful
  <1>1. Init => FreshInv /\ OwedInv
    <2> SUFFICES ASSUME Init PROVE FreshInv /\ OwedInv
      OBVIOUS
    <2>1. BrokerInit
      BY DEF Init
    <2>2. \A s \in Sub : Range(owed[s]) = {}
      BY <2>1, RangeEmpty DEF BrokerInit
    <2> QED BY <2>1, <2>2, FaithInit, OnceInit DEF OwedInv
  <1>2. TypeOK /\ FreshInv /\ OwedInv /\ [Next]_vars => FreshInv' /\ OwedInv'
    BY FreshInductive, OwedInductive
  <1>3. OwedInv => TailFaithful
    BY DEF OwedInv, FaithInv, Faithful, Seen, TailFaithful
  <1> QED BY <1>1, <1>2, <1>3, TypeCorrect, PTL DEF Spec

----------------------------------------------------------------------------
(* The ingester keeps to the protocol of its log.                          *)

\* No process, no open log.
ClosedInv == proc # "up" => ~walOpen

\* ClosedInv is inductive.
LEMMA ClosedInductive ==
  ASSUME ClosedInv, [Next]_vars
  PROVE  ClosedInv'
  <1>1. ASSUME NEW how \in {"crashed", "exited"}, Die(how) PROVE ClosedInv'
    BY <1>1 DEF Die, ClosedInv
  <1>2. CASE Start
    BY <1>2 DEF Start, ClosedInv
  <1>3. CASE UNCHANGED vars
    BY <1>3 DEF vars, serverVars, walVars, ClosedInv
  <1>4. CASE proc' = "up"
    BY <1>4 DEF ClosedInv
  <1> QED BY <1>1, <1>2, <1>3, <1>4, ProcStep

\* The entry a handler is at has never been written to the log.
LEMMA AtUnwritten ==
  ASSUME TypeOK, FreshInv, NEW r \in Request, NEW e \in Entry, At(r, e)
  PROVE  Unwritten(e)
  BY AtAwaits DEF FreshInv

\* Every step of the ingester is a call that the log of its own allows for, or
\* leaves the log alone, or is one of the statements of Stop's Reset.
LEMMA LogStep ==
  ASSUME TypeOK, FreshInv, ClosedInv, [Next]_vars
  PROVE  StopReset \/ [WALNext]_walVars
  <1>1. ASSUME NEW r \in Request, NEW e \in Entry, AcceptEntry(r, e) \/ AbortRequest(r, e)
        PROVE  [WALNext]_walVars
    <2>1. Unwritten(e)
      BY <1>1, AtUnwritten DEF AcceptEntry, AbortRequest
    <2>2. LogFirst(e)
      BY <1>1 DEF AcceptEntry, AbortRequest, AddFits, AddDispatches, AddPanics
    <2>3. AppendEntry(e) \/ UNCHANGED walVars
      BY <2>2 DEF LogFirst
    <2> QED BY <2>1, <2>3 DEF WALNext, WALAppend
  <1>2. ASSUME NEW r \in Request, NEW e \in Entry, CrashInAdd(r, e)
        PROVE  [WALNext]_walVars
    <2>1. Unwritten(e)
      BY <1>2, AtUnwritten DEF CrashInAdd
    <2>2. AppendCutShort(e) /\ walOpen' = FALSE /\ encErr' = FALSE /\ logged' = {}
          /\ stale' = FALSE
      BY <1>2 DEF CrashInAdd, Die
    <2> QED BY <2>1, <2>2 DEF WALNext, WALCrashInAppend
  <1>3. CASE Exit \/ TickCrash \/ Crash
    <2>1. /\ walOpen' = FALSE /\ encErr' = FALSE /\ logged' = {} /\ stale' = FALSE
          /\ UNCHANGED <<lines, tail>>
      BY <1>3 DEF Exit, TickCrash, Crash, Die
    <2> QED BY <2>1 DEF WALNext, WALCrash
  <1>4. CASE Start
    <2>1. ~walOpen
      BY <1>4 DEF Start, ClosedInv
    <2>2. (\E R \in SUBSET Entry : OpenAndRecover(R)) \/ UNCHANGED walVars
      BY <1>4 DEF Start
    <2> QED BY <2>1, <2>2 DEF WALNext, WALStart
  <1>6. CASE StopCloseWAL
    <2>1. CloseWAL \/ UNCHANGED walVars
      BY <1>6 DEF StopCloseWAL
    <2>2. walOpen \in BOOLEAN
      BY DEF TypeOK, WALTypeOK
    <2>3. ~walOpen /\ CloseWAL => UNCHANGED walVars
      BY <2>2 DEF CloseWAL, walVars
    <2> QED BY <2>1, <2>3 DEF WALNext, WALClose
  <1>7. ASSUME Background, ~StopReset, ~StopCloseWAL PROVE UNCHANGED walVars
    BY <1>7 DEF Background, TickFire, TickBody, TickReturn, LoopTake, LoopReturn, RunFlush,
                StopTicker, StopFlush, StopCloseCh, StopWait
  <1>8. ASSUME NEW r \in Request, NEW e \in Entry, Receive(r) \/ SkipEntry(r, e) \/ Respond(r)
        PROVE  UNCHANGED walVars
    BY <1>8 DEF Receive, SkipEntry, Respond
  <1>9. ASSUME NEW r \in Request, Receive(r) \/ Respond(r)
        PROVE  UNCHANGED walVars
    BY <1>9 DEF Receive, Respond
  <1>10. CASE Tailing \/ Shutdown \/ UNCHANGED vars
    BY <1>10 DEF Tailing, Shutdown, vars
  <1>11. ASSUME NEW r \in Request, Handle(r) PROVE [WALNext]_walVars
    BY <1>1, <1>8, <1>9, <1>11 DEF Handle
  <1> QED BY <1>2, <1>3, <1>4, <1>6, <1>7, <1>10, <1>11 DEF Next

\* The ingester keeps to the protocol of its log: whatever handlers, crashes and
\* restarts do, they never append an entry twice and never open a log that is
\* open.  Stop's Reset alone does not, for it takes no lock: its statements are
\* the only steps in which the log is treated otherwise than wal.go has it.
THEOREM IngesterDrivesLog == Spec => WALInit /\ [][StopReset \/ WALNext]_walVars
  <1>1. Init => WALInit /\ FreshInv /\ ClosedInv
    <2>1. Init => WALInit /\ ClosedInv
      BY DEF Init, ClosedInv
    <2> QED BY <2>1, OnceInit
  <1>2. TypeOK /\ FreshInv /\ ClosedInv /\ [Next]_vars => FreshInv' /\ ClosedInv'
    BY FreshInductive, ClosedInductive
  <1>3. TypeOK /\ FreshInv /\ ClosedInv /\ [Next]_vars => [StopReset \/ WALNext]_walVars
    BY LogStep
  <1> QED BY <1>1, <1>2, <1>3, TypeCorrect, PTL DEF Spec

\* A process with an open log that is before Stop's Reset after a step was there
\* before it, and the step was not one of that Reset.
LEMMA BeforeResetStep ==
  ASSUME GoneInv, [Next]_vars, BeforeReset', walOpen'
  PROVE  BeforeReset /\ ~StopReset
  <1>0. ~StopReset
    BY DEF StopReset, StopTruncate, StopRenew, StopRecount, BeforeReset
  <1>1. ASSUME NEW r \in Request, Handle(r) PROVE stopPc' = stopPc
    BY <1>1 DEF Handle, Receive, Respond, SkipEntry, AcceptEntry, AbortRequest, AddFits,
                AddDispatches, AddPanics, bufferVars, loopVars
  <1>2. ~(\E how \in {"crashed", "exited"} : Die(how))
    BY DEF Die
  <1>3. ~(Exit \/ TickCrash \/ Crash \/ \E r \in Request, e \in Entry : CrashInAdd(r, e))
    BY <1>2 DEF Exit, TickCrash, Crash, CrashInAdd
  <1>4. CASE Background
    BY <1>0, <1>4 DEF Background, TickFire, TickBody, TickReturn, LoopTake, LoopReturn, RunFlush,
                      StopTicker, StopFlush, StopCloseCh, StopWait, StopCloseWAL,
                      BeforeReset, bufferVars, loopVars
  <1>5. CASE Start
    BY <1>0, <1>5 DEF Start, GoneInv, BeforeReset
  <1>6. CASE Tailing \/ Shutdown \/ UNCHANGED vars
    BY <1>0, <1>6 DEF Tailing, Shutdown, vars, BeforeReset, bufferVars, loopVars
  <1> QED BY <1>0, <1>1, <1>3, <1>4, <1>5, <1>6 DEF Next, BeforeReset

\* On a disk that works, and with lines that fit, the file holds nothing but
\* complete lines, whatever Stop's Reset and a late Append do to it.
LEMMA CleanInductive ==
  ASSUME ~DiskFaults, Oversize = {}, TypeOK, LogClean, StopReset \/ [WALNext]_walVars
  PROVE  LogClean'
  <1>1. CASE UNCHANGED <<lines, tail>>
    BY <1>1, SameLogRecovers
  <1>2. CASE lines' = <<>> /\ tail' = {}
    BY <1>2, EmptyLogRecovers
  <1>3. ASSUME NEW e \in Entry, lines' = Append(lines, tail \cup {Whole(e)}) /\ tail' = {}
        PROVE  LogClean'
    BY <1>3, AppendRecovers DEF TypeOK
  <1>4. StopReset => UNCHANGED <<lines, tail>> \/ (lines' = <<>> /\ tail' = {})
    BY DEF StopReset, StopTruncate, StopRenew, StopRecount, EmptyFile, walVars
  <1>5. ASSUME NEW e \in Entry, WALAppend(e) \/ WALCrashInAppend(e)
        PROVE  \/ UNCHANGED <<lines, tail>>
               \/ lines' = Append(lines, tail \cup {Whole(e)}) /\ tail' = {}
    BY <1>5 DEF WALAppend, WALCrashInAppend, AppendEntry, AppendOK, AppendRefused,
                AppendWriteError, AppendSyncError, AppendCutShort
  <1>6. WALReset => UNCHANGED <<lines, tail>> \/ (lines' = <<>> /\ tail' = {})
    BY DEF WALReset, ResetWAL, EmptyFile, walVars
  <1>7. WALClose \/ WALCrash \/ WALStart \/ UNCHANGED walVars => UNCHANGED <<lines, tail>>
    BY DEF WALClose, CloseWAL, WALCrash, WALStart, OpenAndRecover, walVars
  <1> QED BY <1>1, <1>2, <1>3, <1>4, <1>5, <1>6, <1>7 DEF WALNext

\* Append's promise in the running ingester: on a disk that works, and for lines
\* that fit the scanner, the counter w.n is at every moment what a restart would
\* replay, through batches, crashes, replays and the requests that Stop still
\* serves, until Stop empties the file.
THEOREM IngesterLogIsDurable ==
  ASSUME ~DiskFaults, Oversize = {}
  PROVE  Spec => []LogCountsRecoverable
  <1> DEFINE Inv == /\ TypeOK /\ FreshInv /\ ClosedInv /\ GoneInv
                    /\ LogClean /\ LogCountsRecoverable
  <1>1. Init => Inv
    <2> SUFFICES ASSUME Init PROVE Inv
      OBVIOUS
    <2>1. TypeOK /\ FreshInv /\ GoneInv
      BY TypeInit, OnceInit
    <2>2. lines = <<>> /\ tail = {} /\ logged = {} /\ proc = "up"
      BY DEF Init, WALInit
    <2>3. Content = <<>>
      BY <2>2 DEF Content
    <2>4. LogClean /\ Recovered = {}
      BY <2>2, <2>3, RangeEmpty DEF LogClean, TooLong, Recovered
    <2> QED BY <2>1, <2>2, <2>4 DEF ClosedInv, LogCountsRecoverable, LoggedRecoverable
  <1>2. Inv /\ [Next]_vars => Inv'
    <2> SUFFICES ASSUME Inv, [Next]_vars PROVE Inv'
      OBVIOUS
    <2>1. StopReset \/ [WALNext]_walVars
      BY LogStep
    <2>2. LogClean'
      BY <2>1, CleanInductive
    <2>3. ASSUME BeforeReset', walOpen' PROVE LoggedRecoverable'
      <3>1. BeforeReset /\ ~StopReset
        BY <2>3, BeforeResetStep
      <3>2. LogInv /\ [WALNext]_walVars
        BY <2>1, <3>1 DEF LogInv, LogCountsRecoverable, TypeOK
      <3> QED BY <3>2, LogInductive DEF LogInv
    <2>4. LogCountsRecoverable'
      BY <2>3 DEF LogCountsRecoverable, LoggedRecoverable
    <2> QED BY <2>2, <2>4, TypeInductive, FreshInductive, ClosedInductive, GoneInductive
  <1>3. Inv => LogCountsRecoverable
    OBVIOUS
  <1> HIDE DEF Inv
  <1> QED BY <1>1, <1>2, <1>3, PTL DEF Spec

\* And torn writes cost the running ingester at most two entries of its log,
\* whatever writes, fsyncs and reads fail, until Stop empties the file.
THEOREM IngesterDamageIsContained == Spec => [](BeforeReset => TornWriteContained)
  <1> DEFINE Inv == /\ TypeOK /\ FreshInv /\ ClosedInv /\ GoneInv
                    /\ BeforeReset => TornInv
  <1>1. Init => Inv
    <2> SUFFICES ASSUME Init PROVE Inv
      OBVIOUS
    <2>1. TypeOK /\ FreshInv /\ GoneInv
      BY TypeInit, OnceInit
    <2>2. tail = {} /\ logged = {} /\ proc = "up"
      BY DEF Init, WALInit
    <2> QED BY <2>1, <2>2 DEF ClosedInv, TornInv
  <1>2. Inv /\ [Next]_vars => Inv'
    <2> SUFFICES ASSUME Inv, [Next]_vars PROVE Inv'
      OBVIOUS
    <2>1. ASSUME BeforeReset', walOpen' PROVE TornInv'
      <3>1. BeforeReset /\ [WALNext]_walVars
        BY <2>1, BeforeResetStep, LogStep
      <3> QED BY <3>1, TornInductive DEF TypeOK
    <2>2. (BeforeReset => TornInv)'
      BY <2>1 DEF TornInv
    <2> QED BY <2>2, TypeInductive, FreshInductive, ClosedInductive, GoneInductive
  <1>3. Inv => (BeforeReset => TornWriteContained)
    BY TornContains
  <1> HIDE DEF Inv
  <1> QED BY <1>1, <1>2, <1>3, PTL DEF Spec
=============================================================================
