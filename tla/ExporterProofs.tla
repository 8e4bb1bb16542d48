--------------------------- MODULE ExporterProofs ---------------------------
(***************************************************************************)
(* The export pool, for any number of jobs and slots: the semaphore and    *)
(* the wait group count the jobs they should (SlotsMatchJobs), and the     *)
(* exporter makes only the moves that BoundedPool allows.                  *)
(*                                                                         *)
(* Nothing is assumed of how many requests are made: that the jobs to be   *)
(* counted are finitely many is part of the invariant.                     *)
(*                                                                         *)
(* Then the account each job gives of itself (ErrorsCounted and            *)
(* ExportedCounted), for any bucket: ExportInv relates what a job has      *)
(* handled of each entry to what the chunks it has passed hold of it.      *)
(***************************************************************************)
EXTENDS Exporter, DataProofs

RunPcs == {"start", "list", "next", "fetch", "drain"}

InSlot == {j \in Job : pc[j] = "slot"}
Leaving == {j \in Job : pc[j] = "leaving"}

PoolInv ==
  /\ pc \in [Job -> {"new", "invalid", "full", "slot", "leaving", "done"} \cup RunPcs]
  /\ stopPc \in {"run", "wait", "shutdown", "exited"}
  /\ IsFiniteSet(InRun) /\ IsFiniteSet(InSlot) /\ IsFiniteSet(Leaving)
  /\ SlotsMatchJobs

----------------------------------------------------------------------------
(* What a step does to the pool.                                           *)

poolState == <<pc, slots, waiting, stopPc>>

\* A job takes a slot, is refused one or asks for none, enters Run, moves within
\* it, returns from it, or leaves.
JobMoves(j) ==
  /\ stopPc' = stopPc /\ stopPc # "exited"
  /\ \/ /\ pc[j] = "new" /\ Goto(j, "invalid")
        /\ UNCHANGED <<slots, waiting>>
     \/ /\ pc[j] = "new" /\ Goto(j, "full") /\ slots >= MaxConcurrent
        /\ UNCHANGED <<slots, waiting>>
     \/ /\ pc[j] = "new" /\ Goto(j, "slot") /\ slots < MaxConcurrent
        /\ slots' = slots + 1 /\ waiting' = waiting
     \/ /\ pc[j] = "slot" /\ Goto(j, "start")
        /\ waiting' = waiting + 1 /\ slots' = slots
     \/ /\ pc[j] \in RunPcs /\ \E where \in RunPcs : Goto(j, where)
        /\ UNCHANGED <<slots, waiting>>
     \/ /\ pc[j] \in RunPcs /\ Goto(j, "leaving")
        /\ slots' = slots - 1 /\ waiting' = waiting
     \/ /\ pc[j] = "leaving" /\ Goto(j, "done")
        /\ waiting' = waiting - 1 /\ slots' = slots

\* Every step leaves the pool alone, moves one job, or is one of main's.
LEMMA PoolStep ==
  ASSUME [ExporterNext]_exportVars
  PROVE  \/ UNCHANGED poolState
         \/ \E j \in Job : JobMoves(j)
         \/ /\ UNCHANGED <<pc, slots, waiting>>
            /\ \/ stopPc = "run" /\ stopPc' = "wait"
               \/ stopPc = "wait" /\ waiting = 0 /\ stopPc' = "shutdown"
               \/ stopPc = "shutdown" /\ stopPc' = "exited"
  <1> USE DEF JobMoves
  <1>1. ASSUME NEW j \in Job, Submit(j) PROVE JobMoves(j)
    BY <1>1 DEF Submit
  <1>2. ASSUME NEW j \in Job, Launch(j) \/ Leave(j) PROVE JobMoves(j)
    BY <1>2 DEF Launch, Leave, At
  <1>3. ASSUME NEW j \in Job, ListOK(j) \/ FetchOK(j) \/ FetchError(j) \/ ChunkDone(j)
        PROVE  JobMoves(j)
    BY <1>3 DEF ListOK, FetchOK, FetchError, ChunkDone, At, RunPcs
  <1>4. ASSUME NEW j \in Job, NEW written,
               BeginRun(j, written) \/ FinishRun(j, written)
        PROVE  JobMoves(j)
    BY <1>4 DEF BeginRun, FinishRun, LoopOver, Return, At, RunPcs
  <1>5. ASSUME NEW j \in Job, ListFails(j) PROVE JobMoves(j)
    BY <1>5 DEF ListFails, RunFails, Return, At, RunPcs
  <1>6. ASSUME NEW j \in Job, NextChunk(j) PROVE JobMoves(j)
    BY <1>6 DEF NextChunk, RunFails, Return, At, RunPcs
  <1>7. ASSUME NEW j \in Job, BulkSend(j) \/ BulkAbandon(j) \/ BulkOK(j) \/ BulkError(j)
        PROVE  UNCHANGED poolState
    BY <1>7 DEF BulkSend, BulkAbandon, BulkOK, BulkError, poolState
  <1>8. ASSUME NEW j \in Job, Cancel(j) PROVE UNCHANGED poolState
    BY <1>8 DEF Cancel, runVars, poolState
  <1>9. CASE Signal \/ StopPool \/ Exit
    BY <1>9 DEF Signal, StopPool, Exit, runVars
  <1>10. CASE UNCHANGED exportVars
    BY <1>10 DEF exportVars, runVars, poolState
  <1> HIDE DEF JobMoves
  <1>11. ASSUME NEW j \in Job, RunStep(j) \/ CancelRaces(j)
         PROVE  JobMoves(j) \/ UNCHANGED poolState
    BY <1>2, <1>3, <1>4, <1>5, <1>6, <1>7, <1>11 DEF RunStep, CancelRaces
  <1>12. ASSUME NEW j \in Job, Submit(j) \/ RunStep(j) \/ Cancel(j) \/ CancelRaces(j)
         PROVE  JobMoves(j) \/ UNCHANGED poolState
    BY <1>1, <1>8, <1>11, <1>12
  <1> QED BY <1>9, <1>10, <1>12 DEF ExporterNext

----------------------------------------------------------------------------
(* The counts.                                                             *)

\* Sets that differ in one member at most are both finite or neither, and their
\* sizes differ by it.
LEMMA SizeChanges ==
  ASSUME NEW S, NEW T, NEW j, IsFiniteSet(S), T \ {j} = S \ {j}
  PROVE  /\ IsFiniteSet(T) /\ Cardinality(S) \in Nat /\ Cardinality(T) \in Nat
         /\ j \notin S /\ j \notin T => Cardinality(T) = Cardinality(S)
         /\ j \in S /\ j \in T => Cardinality(T) = Cardinality(S)
         /\ j \notin S /\ j \in T => Cardinality(T) = Cardinality(S) + 1
         /\ j \in S /\ j \notin T => Cardinality(T) = Cardinality(S) - 1
  <1>1. /\ IsFiniteSet(S \cup {j}) /\ Cardinality(S) \in Nat
        /\ j \notin S => Cardinality(S \cup {j}) = Cardinality(S) + 1
    BY FS_AddElement, FS_CardinalityType
  <1>2. /\ IsFiniteSet(S \ {j})
        /\ j \in S => Cardinality(S \ {j}) = Cardinality(S) - 1
    BY FS_RemoveElement
  <1>3. /\ j \in S /\ j \in T => T = S
        /\ j \notin S /\ j \notin T => T = S
        /\ j \in T /\ j \notin S => T = S \cup {j}
        /\ j \notin T /\ j \in S => T = S \ {j}
    OBVIOUS
  <1>4. IsFiniteSet(T) /\ Cardinality(T) \in Nat
    BY <1>1, <1>2, <1>3, FS_CardinalityType
  <1> QED BY <1>1, <1>2, <1>3, <1>4

\* A job that goes from one place to another changes the number of jobs in Run,
\* in Submit with a slot, or on their way out, by what it leaves and joins.
LEMMA PlacesMove ==
  ASSUME PoolInv, NEW j \in Job, NEW where, Goto(j, where)
  PROVE  LET Moves(from, to, n, m) ==
               /\ n \in Nat /\ m \in Nat
               /\ ~from /\ ~to => m = n
               /\ from /\ to => m = n
               /\ ~from /\ to => m = n + 1
               /\ from /\ ~to => m = n - 1
         IN  /\ IsFiniteSet(InRun') /\ IsFiniteSet(InSlot') /\ IsFiniteSet(Leaving')
             /\ Moves(pc[j] \in RunPcs, where \in RunPcs, Cardinality(InRun), Cardinality(InRun'))
             /\ Moves(pc[j] = "slot", where = "slot", Cardinality(InSlot), Cardinality(InSlot'))
             /\ Moves(pc[j] = "leaving", where = "leaving",
                      Cardinality(Leaving), Cardinality(Leaving'))
  <1>1. \A i \in Job : pc'[i] = IF i = j THEN where ELSE pc[i]
    BY DEF PoolInv, Goto
  <1>2. IsFiniteSet(InRun) /\ IsFiniteSet(InSlot) /\ IsFiniteSet(Leaving)
    BY DEF PoolInv
  <1>3. /\ InRun' \ {j} = InRun \ {j}
        /\ j \in InRun <=> pc[j] \in RunPcs
        /\ j \in InRun' <=> where \in RunPcs
    BY <1>1 DEF InRun, RunPcs
  <1>4. /\ InSlot' \ {j} = InSlot \ {j}
        /\ j \in InSlot <=> pc[j] = "slot"
        /\ j \in InSlot' <=> where = "slot"
    BY <1>1 DEF InSlot
  <1>5. /\ Leaving' \ {j} = Leaving \ {j}
        /\ j \in Leaving <=> pc[j] = "leaving"
        /\ j \in Leaving' <=> where = "leaving"
    BY <1>1 DEF Leaving
  <1> QED BY <1>2, <1>3, <1>4, <1>5, SizeChanges

\* A job's step keeps the counts: it moves the job between places and changes
\* each count by what it changes the places it counts.
LEMMA JobMovesCounted ==
  ASSUME PoolInv, NEW j \in Job, JobMoves(j)
  PROVE  PoolInv'
  <1> DEFINE r == Cardinality(InRun)   s == Cardinality(InSlot)   l == Cardinality(Leaving)
  <1>1. slots = r + s /\ slots <= MaxConcurrent /\ waiting = r + l
    BY DEF PoolInv, SlotsMatchJobs, InSlot, Leaving
  <1>2. MaxConcurrent \in Nat
    BY ExporterAssumption
  <1>3. PICK where \in {"invalid", "full", "slot", "leaving", "done"} \cup RunPcs : Goto(j, where)
    BY DEF JobMoves, RunPcs
  <1>4. pc' \in [Job -> {"new", "invalid", "full", "slot", "leaving", "done"} \cup RunPcs]
    BY <1>3 DEF PoolInv, Goto
  <1>5. pc'[j] = where
    BY <1>3 DEF PoolInv, Goto
  <1>6. /\ IsFiniteSet(InRun') /\ IsFiniteSet(InSlot') /\ IsFiniteSet(Leaving')
        /\ r \in Nat /\ r' \in Nat /\ s \in Nat /\ s' \in Nat /\ l \in Nat /\ l' \in Nat
        /\ pc[j] \notin RunPcs /\ where \notin RunPcs => r' = r
        /\ pc[j] \in RunPcs /\ where \in RunPcs => r' = r
        /\ pc[j] \notin RunPcs /\ where \in RunPcs => r' = r + 1
        /\ pc[j] \in RunPcs /\ where \notin RunPcs => r' = r - 1
        /\ pc[j] # "slot" /\ where # "slot" => s' = s
        /\ pc[j] # "slot" /\ where = "slot" => s' = s + 1
        /\ pc[j] = "slot" /\ where # "slot" => s' = s - 1
        /\ pc[j] # "leaving" /\ where # "leaving" => l' = l
        /\ pc[j] # "leaving" /\ where = "leaving" => l' = l + 1
        /\ pc[j] = "leaving" /\ where # "leaving" => l' = l - 1
    BY <1>3, PlacesMove
  <1> HIDE DEF r, s, l
  <1>7. \A to : pc' = [pc EXCEPT ![j] = to] => to = where
    BY <1>5 DEF PoolInv
  <1>8. /\ pc[j] = "new" =>
             \/ where \in {"invalid", "full"} /\ slots' = slots /\ waiting' = waiting
             \/ where = "slot" /\ slots < MaxConcurrent /\ slots' = slots + 1 /\ waiting' = waiting
        /\ pc[j] = "slot" => where = "start" /\ waiting' = waiting + 1 /\ slots' = slots
        /\ pc[j] = "leaving" => where = "done" /\ waiting' = waiting - 1 /\ slots' = slots
        /\ pc[j] \in RunPcs =>
             \/ where \in RunPcs /\ slots' = slots /\ waiting' = waiting
             \/ where = "leaving" /\ slots' = slots - 1 /\ waiting' = waiting
        /\ pc[j] \in {"new", "slot", "leaving"} \cup RunPcs
    BY <1>7 DEF JobMoves, RunPcs, Goto
  <1>9. slots' = r' + s' /\ slots' <= MaxConcurrent /\ waiting' = r' + l'
    <2>1. CASE pc[j] = "new"
      BY <2>1, <1>1, <1>2, <1>6, <1>8 DEF RunPcs
    <2>2. CASE pc[j] = "slot"
      BY <2>2, <1>1, <1>2, <1>6, <1>8 DEF RunPcs
    <2>3. CASE pc[j] = "leaving"
      BY <2>3, <1>1, <1>2, <1>6, <1>8 DEF RunPcs
    <2>4. CASE pc[j] \in RunPcs
      BY <2>4, <1>1, <1>2, <1>6, <1>8 DEF RunPcs
    <2> QED BY <2>1, <2>2, <2>3, <2>4, <1>8
  <1>10. stopPc' \in {"run", "wait", "shutdown", "exited"}
    BY DEF JobMoves, PoolInv
  <1> QED BY <1>4, <1>6, <1>9, <1>10 DEF PoolInv, SlotsMatchJobs, InSlot, Leaving, r, s, l

LEMMA PoolInductive ==
  ASSUME PoolInv, [ExporterNext]_exportVars
  PROVE  PoolInv'
  <1>1. ASSUME UNCHANGED <<pc, slots, waiting>>,
               stopPc' \in {"run", "wait", "shutdown", "exited"}
        PROVE  PoolInv'
    BY <1>1 DEF PoolInv, SlotsMatchJobs, InRun, InSlot, Leaving
  <1> QED BY <1>1, PoolStep, JobMovesCounted DEF PoolInv, poolState

LEMMA PoolInvInit == ExporterInit => PoolInv
  <1> SUFFICES ASSUME ExporterInit PROVE PoolInv
    OBVIOUS
  <1>1. InRun = {} /\ InSlot = {} /\ Leaving = {}
    BY DEF ExporterInit, InRun, InSlot, Leaving
  <1>2. IsFiniteSet({}) /\ Cardinality({}) = 0
    BY FS_EmptySet
  <1>3. /\ slots = Cardinality(InRun) + Cardinality(InSlot) /\ slots <= MaxConcurrent
        /\ waiting = Cardinality(InRun) + Cardinality(Leaving)
    BY <1>1, <1>2, ExporterAssumption DEF ExporterInit
  <1>4. SlotsMatchJobs
    BY <1>3 DEF SlotsMatchJobs, InSlot, Leaving
  <1> QED BY <1>1, <1>2, <1>4 DEF PoolInv, ExporterInit

\* The semaphore and the wait group count their jobs on every path through
\* Pool.Submit and out of Run, and no more than MaxConcurrent hold a slot, however
\* many requests come and however they are cancelled.
THEOREM SlotsAreCounted == ExporterSpec => []SlotsMatchJobs
  <1>1. PoolInv /\ [ExporterNext]_exportVars => PoolInv'
    BY PoolInductive
  <1>2. PoolInv => SlotsMatchJobs
    BY DEF PoolInv
  <1> QED BY PoolInvInit, <1>1, <1>2, PTL DEF ExporterSpec

----------------------------------------------------------------------------
(* Every step of the exporter is one of BoundedPool's, or changes nothing  *)
(* there.                                                                  *)

phaseOf == [j \in Job |-> PhaseOf(pc[j])]

\* What the two maps make of each place.
LEMMA Phases ==
  /\ PhaseOf("new") = "new" /\ PhaseOf("invalid") = "new" /\ PhaseOf("full") = "refused"
  /\ PhaseOf("slot") = "admitted" /\ PhaseOf("leaving") = "ended" /\ PhaseOf("done") = "ended"
  /\ \A where \in RunPcs : PhaseOf(where) = "active"
  /\ StageOf("run") = "open" /\ StageOf("wait") = "stopping"
  /\ StageOf("shutdown") = "closed" /\ StageOf("exited") = "gone"
  BY DEF PhaseOf, StageOf, RunPcs

\* The taken slots are the jobs that BoundedPool says hold one.
LEMMA HoldingCounted ==
  ASSUME PoolInv
  PROVE  Pool!Cardinality(Pool!Holding) = slots
  <1>1. \A j \in Job : PhaseOf(pc[j]) \in {"admitted", "active"} <=> j \in InRun \cup InSlot
    BY Phases DEF PoolInv, InRun, InSlot, RunPcs
  <1>2. Pool!Holding = InRun \cup InSlot
    BY <1>1 DEF Pool!Holding, InRun, InSlot
  <1>3. InRun \cap InSlot = {}
    BY DEF InRun, InSlot
  <1>4. IsFiniteSet(InRun) /\ IsFiniteSet(InSlot) /\ slots = Cardinality(InRun) + Cardinality(InSlot)
    BY DEF PoolInv, SlotsMatchJobs, InSlot
  <1>5. Cardinality({}) = 0
    BY FS_EmptySet
  <1>6. Cardinality(InRun) \in Nat /\ Cardinality(InSlot) \in Nat
    BY <1>4, FS_CardinalityType
  <1>7. Cardinality(InRun \cup InSlot) =
          Cardinality(InRun) + Cardinality(InSlot) - Cardinality(InRun \cap InSlot)
    BY <1>4, FS_Union
  <1>8. Cardinality(InRun \cap InSlot) = 0
    BY <1>3, <1>5
  <1>9. Cardinality(InRun \cup InSlot) = slots
    BY <1>4, <1>6, <1>7, <1>8
  <1>10. Pool!Cardinality(Pool!Holding) = Cardinality(Pool!Holding)
    BY DEF Pool!Cardinality, Cardinality
  <1> QED BY <1>2, <1>9, <1>10

\* wg.Wait returns only when no job is in Run.
LEMMA NoneWaitedFor ==
  ASSUME PoolInv, waiting = 0
  PROVE  InRun = {}
  <1>1. IsFiniteSet(InRun) /\ IsFiniteSet(Leaving) /\ Cardinality(InRun) + Cardinality(Leaving) = 0
    BY DEF PoolInv, SlotsMatchJobs, Leaving
  <1>2. Cardinality(InRun) \in Nat /\ Cardinality(Leaving) \in Nat
    BY <1>1, FS_CardinalityType
  <1> QED BY <1>1, <1>2, FS_EmptySet

\* A job's step, seen through the map.
LEMMA JobRefines ==
  ASSUME PoolInv, NEW j \in Job, JobMoves(j)
  PROVE  [Pool!PoolNext]_(Pool!poolVars)
  <1> DEFINE Moves(from, to) ==
        /\ phaseOf[j] = from /\ phaseOf' = [phaseOf EXCEPT ![j] = to]
  <1>1. ASSUME NEW where, Goto(j, where)
        PROVE  Moves(PhaseOf(pc[j]), PhaseOf(where))
    BY <1>1 DEF PoolInv, Goto, phaseOf
  <1>2. StageOf(stopPc) # "gone" /\ StageOf(stopPc') = StageOf(stopPc)
    BY Phases DEF PoolInv, JobMoves
  <1>3. Pool!Cardinality(Pool!Holding) = slots /\ slots <= MaxConcurrent /\ slots \in Int
    <2>1. Cardinality(InRun) \in Nat /\ Cardinality(InSlot) \in Nat
      BY FS_CardinalityType DEF PoolInv
    <2> QED BY <2>1, HoldingCounted DEF PoolInv, SlotsMatchJobs, InSlot
  <1>4. MaxConcurrent \in Nat
    BY ExporterAssumption
  <1>5. \/ Moves("new", "new") \/ Moves("active", "active") \/ Moves("ended", "ended")
        \/ Moves("new", "refused") /\ slots = MaxConcurrent
        \/ Moves("new", "admitted") /\ slots < MaxConcurrent
        \/ Moves("admitted", "active") \/ Moves("active", "ended")
    <2> HIDE DEF Moves
    <2>1. CASE pc[j] = "new"
      BY <2>1, <1>1, <1>3, <1>4, Phases DEF JobMoves, RunPcs
    <2>2. CASE pc[j] = "slot"
      BY <2>2, <1>1, Phases DEF JobMoves, RunPcs
    <2>3. CASE pc[j] = "leaving"
      BY <2>3, <1>1, Phases DEF JobMoves, RunPcs
    <2>4. CASE pc[j] \in RunPcs
      BY <2>4, <1>1, Phases DEF JobMoves, RunPcs
    <2> QED BY <2>1, <2>2, <2>3, <2>4 DEF JobMoves
  <1>6. ASSUME NEW from, NEW to, Moves(from, to)
        PROVE  /\ Pool!Move(j, from, to)
               /\ from = to => UNCHANGED Pool!poolVars
    <2>1. from = to => phaseOf' = phaseOf
      BY <1>6 DEF phaseOf
    <2> QED BY <1>2, <1>6, <2>1 DEF Pool!Move, Pool!poolVars, phaseOf
  <1> HIDE DEF Moves
  <1> QED BY <1>3, <1>5, <1>6 DEF Pool!PoolNext, Pool!Admit, Pool!Refuse, Pool!Begin, Pool!End

LEMMA PoolRefines ==
  ASSUME PoolInv, [ExporterNext]_exportVars
  PROVE  [Pool!PoolNext]_(Pool!poolVars)
  <1>1. CASE UNCHANGED poolState
    BY <1>1 DEF poolState, Pool!poolVars
  <1>2. ASSUME UNCHANGED <<pc, slots, waiting>>,
               \/ stopPc = "run" /\ stopPc' = "wait"
               \/ stopPc = "wait" /\ waiting = 0 /\ stopPc' = "shutdown"
               \/ stopPc = "shutdown" /\ stopPc' = "exited"
        PROVE  Pool!PoolNext
    <2>1. phaseOf' = phaseOf
      BY <1>2 DEF phaseOf
    <2>2. CASE stopPc = "run" /\ stopPc' = "wait"
      BY <2>1, <2>2, Phases DEF Pool!PoolNext, Pool!StopAsked, phaseOf
    <2>3. CASE stopPc = "wait" /\ waiting = 0 /\ stopPc' = "shutdown"
      <3>1. \A j \in Job : phaseOf[j] # "active"
        <4>1. \A j \in Job : pc[j] \notin RunPcs
          BY <2>3, NoneWaitedFor DEF InRun, RunPcs
        <4> QED BY <4>1, Phases DEF phaseOf, PoolInv
      <3> QED BY <2>1, <2>3, <3>1, Phases DEF Pool!PoolNext, Pool!Close, phaseOf
    <2>4. CASE stopPc = "shutdown" /\ stopPc' = "exited"
      BY <2>1, <2>4, Phases DEF Pool!PoolNext, Pool!Vanish, phaseOf
    <2> QED BY <1>2, <2>2, <2>3, <2>4
  <1> QED BY <1>1, <1>2, JobRefines, PoolStep

\* The semaphore, the wait group, Run with its failures, and main's shutdown
\* implement the bounded pool, its promise to close apart: a job is admitted
\* exactly when a slot is free, and Stop returns only when none is active.
THEOREM ExporterIsBounded == ExporterSpec => Pool!PoolSafety
  <1>1. PoolInv /\ [ExporterNext]_exportVars => PoolInv'
    BY PoolInductive
  <1>2. ExporterInit => Pool!PoolInit
    <2>1. ASSUME ExporterInit PROVE \A j \in Job : PhaseOf(pc[j]) = "new"
      BY <2>1, Phases DEF ExporterInit
    <2>2. ASSUME ExporterInit PROVE StageOf(stopPc) = "open"
      BY <2>2, Phases DEF ExporterInit
    <2> QED BY <2>1, <2>2 DEF Pool!PoolInit
  <1>3. PoolInv /\ [ExporterNext]_exportVars => [Pool!PoolNext]_(Pool!poolVars)
    BY PoolRefines
  <1> QED BY PoolInvInit, <1>1, <1>2, <1>3, PTL DEF ExporterSpec, Pool!PoolSafety

----------------------------------------------------------------------------
(* The account of an export.                                               *)

\* The chunks at which the loop has arrived, counted from the first.
Place(j) == IF pc[j] = "drain" THEN processed[j] + 1 ELSE processed[j]

\* How often e is to be exported of the first n chunks of the listing s.
Due(j, s, n, e) == SumFunctionOnSet(Share(j, e), {s[i] : i \in 1 .. n})

\* The copies of e that have been fetched and selected, wherever they are now.
Handled(j, e) == docs[j][e] + refused[j][e] + Count(pending[j], e)

\* Where a job is in its loop: nothing is kept before the chunks are listed, each
\* is then listed once, and a job that counts as completed has been through all.
Walk(j) ==
  /\ pc[j] \in {"new", "invalid", "full", "slot", "start", "list"} =>
       keys[j] = <<>> /\ processed[j] = 0 /\ pending[j] = <<>> /\ counted[j] = "none"
  /\ pc[j] \in {"next", "fetch", "drain"} =>
       Range(keys[j]) = Listed(Criteria[j]) /\ counted[j] = "none"
  /\ Range(keys[j]) \subseteq Listed(Criteria[j])
  /\ \A m, n \in 1 .. Len(keys[j]) : keys[j][m] = keys[j][n] => m = n
  /\ Place(j) <= Len(keys[j])
  /\ pc[j] = "fetch" => processed[j] < Len(keys[j])
  /\ counted[j] = "completed" =>
       /\ Range(keys[j]) = Listed(Criteria[j]) /\ Place(j) = Len(keys[j])
       /\ pending[j] = <<>>

\* Without a failed request nothing is handled twice, without an error nothing is
\* left out, and the two totals go together.
Account(j) ==
  /\ \A e \in Entry :
       /\ ~failedBulk[j] => Handled(j, e) <= Due(j, keys[j], Place(j), e)
       /\ errors[j] = 0 => Due(j, keys[j], Place(j), e) <= Handled(j, e)
  /\ exported[j] <= Indexed(j)
  /\ ~failedBulk[j] => exported[j] = Indexed(j)

ExportInv == \A j \in Job : Walk(j) /\ Account(j)

----------------------------------------------------------------------------
(* Types.                                                                  *)

\* What a listing is: the keys listed, each once.
LEMMA ListingFacts ==
  ASSUME NEW j \in Job, NEW s \in Listings(Criteria[j])
  PROVE  /\ s \in Seq(Key) /\ Range(s) = Listed(Criteria[j])
         /\ \A m, n \in 1 .. Len(s) : s[m] = s[n] => m = n
  <1>1. PICK L, n : L = Listed(Criteria[j]) /\ n = Cardinality(L)
    OBVIOUS
  <1>2. L \subseteq Key /\ IsFiniteSet(L)
    <2>1. L \subseteq Key
      BY <1>1 DEF Listed
    <2>2. IsFiniteSet(Key)
      BY ExporterAssumption DEF Key
    <2> QED BY <2>1, <2>2, FS_Subset
  <1>3. n \in Nat
    BY <1>1, <1>2, FS_CardinalityType
  <1>4. s \in [1 .. n -> L] /\ IsInjective(s)
    BY <1>1 DEF Listings
  <1>5. \A k, m \in 1 .. n : s[k] = s[m] => k = m
    BY <1>4 DEF IsInjective
  <1>6. s \in Seq(Key) /\ Len(s) = n
    BY <1>2, <1>3, <1>4
  <1>7. s \in Injection(1 .. n, L)
    BY <1>4 DEF Injection
  <1>8. Cardinality(1 .. n) = n
    BY <1>3, FS_Interval
  <1>9. s \in Surjection(1 .. n, L)
    BY <1>1, <1>2, <1>7, <1>8, FS_Injection
  <1>10. Range(s) = L
    BY <1>4, <1>9 DEF Range, Surjection
  <1> QED BY <1>1, <1>5, <1>6, <1>10

\* What the job wants of a chunk is a sequence of entries.
LEMMA MatchedType ==
  ASSUME NEW j \in Job, NEW k \in Key
  PROVE  Matched(j, k) \in Seq(Entry)
  <1>1. PICK M, q : M = {e \in Entry : matchesJob(e, Criteria[j])} /\ q = Bucket[k].lines
    OBVIOUS
  <1>2. q \in Seq(Entry)
    BY <1>1, ExporterAssumption DEF Key
  <1>3. Only(q, M) \in Seq(Entry \cap M)
    BY <1>2, OnlyType
  <1>4. Only(q, M) \in Seq(Entry)
    BY <1>3
  <1> QED BY <1>1, <1>4, Zenon DEF Matched

\* The batch is the beginning of pending.
LEMMA BulkFacts ==
  ASSUME NEW j \in Job, pending \in [Job -> Seq(Entry)]
  PROVE  /\ pending[j] \in Seq(Entry)
         /\ BulkLen(j) \in 0 .. Len(pending[j])
         /\ SubSeq(pending[j], BulkLen(j) + 1, Len(pending[j])) \in Seq(Entry)
         /\ \A I \in SUBSET (1 .. BulkLen(j)), e \in Entry :
              /\ IsFiniteSet(I) /\ Cardinality(I) \in Nat /\ Copies(j, I, e) \in Nat
              /\ \A i \in I : pending[j][i] \in Entry
  <1>1. PICK q, n : q = pending[j] /\ n = BulkLen(j)
    OBVIOUS
  <1>2. q \in Seq(Entry) /\ Len(q) \in Nat
    BY <1>1
  <1>3. n \in 0 .. Len(q)
    BY <1>1, <1>2, ExporterAssumption DEF BulkLen
  <1>4. SubSeq(q, n + 1, Len(q)) \in Seq(Entry)
    BY <1>2, <1>3
  <1>5. n \in Nat
    BY <1>2, <1>3
  <1>6. ASSUME NEW I \in SUBSET (1 .. n), NEW e \in Entry
        PROVE  /\ IsFiniteSet(I) /\ Cardinality(I) \in Nat /\ CountAt(q, I, e) \in Nat
               /\ \A i \in I : q[i] \in Entry
    <2>1. IsFiniteSet(I) /\ Cardinality(I) \in Nat /\ CountAt(q, I, e) \in Nat
      BY <1>5, PositionsFinite
    <2>2. \A i \in I : i \in 1 .. Len(q)
      BY <1>2, <1>3
    <2> QED BY <1>2, <2>1, <2>2
  <1> QED BY <1>1, <1>2, <1>3, <1>4, <1>6 DEF Copies

\* What a bulk request may leave behind.
LEMMA StoresType ==
  ASSUME ExporterTypeOK, NEW j \in Job, NEW I \in SUBSET (1 .. BulkLen(j)), Stores(j, I)
  PROVE  docs' \in [Job -> [Entry -> Nat]]
  <1>1. \A e \in Entry : Copies(j, I, e) \in Nat
    BY BulkFacts DEF ExporterTypeOK
  <1> HIDE DEF Copies
  <1>2. [e \in Entry |-> docs[j][e] + Copies(j, I, e)] \in [Entry -> Nat]
    BY <1>1 DEF ExporterTypeOK
  <1> QED BY <1>2 DEF Stores, ExporterTypeOK

LEMMA TakeBatchType ==
  ASSUME ExporterTypeOK, NEW j \in Job, TakeBatch(j)
  PROVE  /\ pending' \in [Job -> Seq(Entry)] /\ attempt' \in [Job -> 1 .. MaxAttempts]
         /\ sent' \in [Job -> BOOLEAN]
  <1>1. pending[j] \in Seq(Entry) /\ SubSeq(pending[j], BulkLen(j) + 1, Len(pending[j])) \in Seq(Entry)
    BY BulkFacts DEF ExporterTypeOK
  <1>2. pending' \in [Job -> Seq(Entry)]
    BY <1>1 DEF TakeBatch, ExporterTypeOK
  <1>3. 1 \in 1 .. MaxAttempts
    BY ExporterAssumption
  <1> QED BY <1>2, <1>3 DEF TakeBatch, ExporterTypeOK

LEMMA TypeStep ==
  ASSUME PoolInv, ExporterTypeOK, ExportInv, [ExporterNext]_exportVars
  PROVE  ExporterTypeOK'
  <1>p. /\ pc' \in [Job -> {"new", "invalid", "full", "slot", "start", "list", "next", "fetch",
                            "drain", "leaving", "done"}]
        /\ slots' \in Nat /\ waiting' \in Nat /\ stopPc' \in {"run", "wait", "shutdown", "exited"}
    <2>1. PoolInv'
      BY PoolInductive
    <2>p. /\ pc' \in [Job -> {"new", "invalid", "full", "slot", "start", "list", "next", "fetch",
                            "drain", "leaving", "done"}]
          /\ stopPc' \in {"run", "wait", "shutdown", "exited"}
      BY <2>1 DEF PoolInv, RunPcs
    <2>2. /\ slots' = Cardinality(InRun') + Cardinality(InSlot')
          /\ waiting' = Cardinality(InRun') + Cardinality(Leaving')
          /\ IsFiniteSet(InRun') /\ IsFiniteSet(InSlot') /\ IsFiniteSet(Leaving')
      BY <2>1 DEF PoolInv, SlotsMatchJobs, InSlot, Leaving
    <2>3. Cardinality(InRun') \in Nat /\ Cardinality(InSlot') \in Nat /\ Cardinality(Leaving') \in Nat
      BY <2>2, FS_CardinalityType
    <2> QED BY <2>2, <2>3, <2>p
  <1>1. ASSUME NEW j \in Job, Submit(j) \/ Launch(j) \/ Leave(j) PROVE ExporterTypeOK'
    BY <1>1, <1>p DEF ExporterTypeOK, Submit, Launch, Leave
  <1>2. ASSUME NEW j \in Job, NEW written \in {"running", "completed", "torn"},
               BeginRun(j, written) \/ FinishRun(j, written), cancelled' \in [Job -> BOOLEAN]
        PROVE  ExporterTypeOK'
    <2>1. status' \in [Job -> {"none", "pending", "running", "completed", "failed", "torn"}]
      BY <1>2 DEF ExporterTypeOK, BeginRun, FinishRun
    <2>2. counted' \in [Job -> {"none", "completed", "failed"}]
      BY <1>2 DEF ExporterTypeOK, BeginRun, FinishRun, Return
    <2>3. logsExported' \in [Job -> Nat]
      <3>1. exported[j] \in Nat /\ logsExported \in [Job -> Nat]
        BY DEF ExporterTypeOK
      <3>2. logsExported' = logsExported \/ logsExported' = [logsExported EXCEPT ![j] = exported[j]]
        BY <1>2 DEF BeginRun, FinishRun
      <3> QED BY <3>1, <3>2
    <2> QED BY <1>2, <1>p, <2>1, <2>2, <2>3 DEF ExporterTypeOK, BeginRun, FinishRun
  <1>3. ASSUME NEW j \in Job, ListFails(j) \/ NextChunk(j) PROVE ExporterTypeOK'
    BY <1>3, <1>p DEF ExporterTypeOK, ListFails, NextChunk, RunFails, Return
  <1>4. ASSUME NEW j \in Job, ListOK(j) PROVE ExporterTypeOK'
    <2>1. PICK s \in Listings(Criteria[j]) : keys' = [keys EXCEPT ![j] = s]
      BY <1>4 DEF ListOK
    <2>2. s \in Seq(Key)
      BY ListingFacts
    <2>3. keys' \in [Job -> Seq(Key)]
      BY <2>1, <2>2 DEF ExporterTypeOK
    <2> QED BY <1>4, <1>p, <2>3 DEF ExporterTypeOK, ListOK
  <1>5. ASSUME NEW j \in Job, FetchError(j) \/ ChunkDone(j) PROVE ExporterTypeOK'
    <2>0. processed \in [Job -> Nat] /\ processed' = [processed EXCEPT ![j] = @ + 1]
      BY <1>5 DEF ExporterTypeOK, FetchError, ChunkDone
    <2>1. processed' \in [Job -> Nat]
      BY <2>0
    <2>2. errors' \in [Job -> Nat]
      <3>1. errors \in [Job -> Nat]
        BY DEF ExporterTypeOK
      <3>2. errors' = errors \/ errors' = [errors EXCEPT ![j] = @ + 1]
        BY <1>5 DEF FetchError, ChunkDone
      <3> QED BY <3>1, <3>2
    <2>3. UNCHANGED logsExported
      BY <1>5 DEF FetchError, ChunkDone
    <2> QED BY <1>5, <1>p, <2>1, <2>2, <2>3 DEF ExporterTypeOK, FetchError, ChunkDone
  <1>6. ASSUME NEW j \in Job, FetchOK(j) PROVE ExporterTypeOK'
    <2>1. Fetching(j) \in Key
      BY <1>6 DEF FetchOK, At, Fetching, ExporterTypeOK, ExportInv, Walk
    <2>2. pending[j] \o Matched(j, Fetching(j)) \in Seq(Entry)
      BY <2>1, MatchedType DEF ExporterTypeOK
    <2>3. pending' \in [Job -> Seq(Entry)]
      BY <1>6, <2>2 DEF FetchOK, ExporterTypeOK
    <2> QED BY <1>6, <1>p, <2>3 DEF ExporterTypeOK, FetchOK
  <1>7. ASSUME NEW j \in Job, BulkSend(j) PROVE ExporterTypeOK'
    BY <1>7, <1>p DEF ExporterTypeOK, BulkSend
  <1>8. ASSUME NEW j \in Job, BulkAbandon(j) PROVE ExporterTypeOK'
    <2>1. TakeBatch(j)
      BY <1>8 DEF BulkAbandon
    <2>2. /\ pending' \in [Job -> Seq(Entry)] /\ attempt' \in [Job -> 1 .. MaxAttempts]
          /\ sent' \in [Job -> BOOLEAN]
      BY <2>1, TakeBatchType
    <2>3. errors' \in [Job -> Nat]
      BY <1>8 DEF ExporterTypeOK, BulkAbandon
    <2> QED BY <1>8, <1>p, <2>2, <2>3 DEF ExporterTypeOK, BulkAbandon
  <1>9. ASSUME NEW j \in Job, BulkOK(j) PROVE ExporterTypeOK'
    <2>1. TakeBatch(j)
      BY <1>9 DEF BulkOK
    <2>2. PICK I \in SUBSET (1 .. BulkLen(j)) :
             /\ Stores(j, I)
             /\ refused' = [refused EXCEPT ![j] =
                  [e \in Entry |-> refused[j][e] + Copies(j, (1 .. BulkLen(j)) \ I, e)]]
             /\ exported' = [exported EXCEPT ![j] = @ + Cardinality(I)]
      BY <1>9 DEF BulkOK
    <2>3. PICK J : J = (1 .. BulkLen(j)) \ I
      OBVIOUS
    <2>4. J \in SUBSET (1 .. BulkLen(j))
      BY <2>3
    <2>5. Cardinality(I) \in Nat
      <3>1. BulkLen(j) \in Nat
        BY BulkFacts DEF ExporterTypeOK
      <3> QED BY <3>1, PositionsFinite
    <2>6. \A e \in Entry : Copies(j, J, e) \in Nat
      BY <2>4, BulkFacts DEF ExporterTypeOK
    <2>7. [e \in Entry |-> refused[j][e] + Copies(j, J, e)] \in [Entry -> Nat]
      BY <2>6 DEF ExporterTypeOK
    <2>8. refused' \in [Job -> [Entry -> Nat]]
      BY <2>2, <2>3, <2>7 DEF ExporterTypeOK
    <2>9. exported' \in [Job -> Nat]
      BY <2>2, <2>5 DEF ExporterTypeOK
    <2>10. docs' \in [Job -> [Entry -> Nat]]
      BY <2>2, StoresType
    <2> QED BY <1>9, <1>p, <2>1, <2>8, <2>9, <2>10, TakeBatchType DEF ExporterTypeOK, BulkOK
  <1>10. ASSUME NEW j \in Job, BulkError(j) PROVE ExporterTypeOK'
    <2>1. PICK I \in SUBSET (1 .. BulkLen(j)) : Stores(j, I)
      BY <1>10 DEF BulkError
    <2>2. docs' \in [Job -> [Entry -> Nat]]
      BY <2>1, StoresType
    <2>3. /\ pending' \in [Job -> Seq(Entry)] /\ attempt' \in [Job -> 1 .. MaxAttempts]
          /\ sent' \in [Job -> BOOLEAN] /\ errors' \in [Job -> Nat]
      <3>1. CASE attempt[j] = MaxAttempts /\ TakeBatch(j) /\ errors' = [errors EXCEPT ![j] = @ + 1]
        <4>1. errors' \in [Job -> Nat]
          BY <3>1 DEF ExporterTypeOK
        <4> QED BY <3>1, <4>1, TakeBatchType
      <3>2. CASE /\ attempt[j] < MaxAttempts /\ attempt' = [attempt EXCEPT ![j] = @ + 1]
                 /\ sent' = [sent EXCEPT ![j] = FALSE] /\ UNCHANGED <<pending, errors>>
        BY <3>2, ExporterAssumption DEF ExporterTypeOK
      <3> QED BY <1>10, <3>1, <3>2 DEF BulkError
    <2> QED BY <1>10, <1>p, <2>2, <2>3 DEF ExporterTypeOK, BulkError
  <1>11. ASSUME NEW j \in Job, Cancel(j) PROVE ExporterTypeOK'
    BY <1>11, <1>p DEF ExporterTypeOK, Cancel, runVars
  <1>12. ASSUME NEW j \in Job, CancelRaces(j) PROVE ExporterTypeOK'
    <2>1. cancelled' \in [Job -> BOOLEAN]
      BY <1>12 DEF CancelRaces, ExporterTypeOK
    <2> QED BY <1>2, <1>12, <2>1 DEF CancelRaces
  <1>13. CASE Signal \/ StopPool \/ Exit
    BY <1>13, <1>p DEF ExporterTypeOK, Signal, StopPool, Exit, runVars
  <1>14. CASE UNCHANGED exportVars
    BY <1>14 DEF ExporterTypeOK, exportVars, runVars
  <1>15. ASSUME NEW j \in Job, RunStep(j) PROVE ExporterTypeOK'
    <2>1. CASE (BeginRun(j, "running") \/ FinishRun(j, "completed")) /\ UNCHANGED cancelled
      <3>1. cancelled' \in [Job -> BOOLEAN]
        BY <2>1 DEF ExporterTypeOK
      <3> QED BY <1>2, <2>1, <3>1
    <2> QED BY <1>1, <1>3, <1>4, <1>5, <1>6, <1>7, <1>8, <1>9, <1>10, <1>15, <2>1 DEF RunStep
  <1> QED BY <1>1, <1>11, <1>12, <1>13, <1>14, <1>15 DEF ExporterNext

----------------------------------------------------------------------------
(* What is due.                                                            *)

LEMMA ShareType ==
  ASSUME NEW j \in Job, NEW e \in Entry
  PROVE  \A k \in Key : Share(j, e)[k] = Count(Matched(j, k), e) /\ Share(j, e)[k] \in Nat
  <1> TAKE k \in Key
  <1>1. PICK q : q = Matched(j, k)
    OBVIOUS
  <1>2. Count(q, e) \in Nat
    BY <1>1, MatchedType, CountType
  <1> QED BY <1>1, <1>2 DEF Share

\* Sets of keys are finite, and sums over them are numbers.
LEMMA KeySums ==
  ASSUME NEW j \in Job, NEW e \in Entry, NEW L \in SUBSET Key
  PROVE  /\ IsFiniteSet(L) /\ SumFunctionOnSet(Share(j, e), L) \in Nat
         /\ \A R \in SUBSET L :
              /\ SumFunctionOnSet(Share(j, e), R) <= SumFunctionOnSet(Share(j, e), L)
              /\ (\A k \in L \ R : Share(j, e)[k] = 0)
                   => SumFunctionOnSet(Share(j, e), L) = SumFunctionOnSet(Share(j, e), R)
  <1>1. IsFiniteSet(Key)
    BY ExporterAssumption DEF Key
  <1>2. IsFiniteSet(L)
    BY <1>1, FS_Subset
  <1>3. PICK f : f = Share(j, e)
    OBVIOUS
  <1>4. \A k \in L : f[k] \in Nat
    BY <1>3, ShareType
  <1>5. SumFunctionOnSet(f, L) \in Nat
    BY <1>2, <1>4, SumType
  <1>6. ASSUME NEW R \in SUBSET L
        PROVE  /\ SumFunctionOnSet(f, R) <= SumFunctionOnSet(f, L)
               /\ (\A k \in L \ R : f[k] = 0) => SumFunctionOnSet(f, L) = SumFunctionOnSet(f, R)
    BY <1>2, <1>4, SumMore
  <1> QED BY <1>2, <1>3, <1>5, <1>6

\* A day that begins after another has only later times.
LEMMA LaterDay ==
  ASSUME NEW s \in Nat, NEW t \in Nat, Day(s) > Day(t)
  PROVE  s > t
  <1>1. DayLength \in Nat \ {0}
    BY SelectionAssumption
  <1> QED BY <1>1 DEF Day

\* The lines of a chunk that is filed after the last day come after the end.
LEMMA LaterMatchesNone ==
  ASSUME NEW j \in Job, NEW k \in Key, NEW e \in Entry,
         Day(Bucket[k].minTime) > Day(Criteria[j].end)
  PROVE  Share(j, e)[k] = 0
  <1>1. PICK M, q : M = {x \in Entry : matchesJob(x, Criteria[j])} /\ q = Bucket[k].lines
    OBVIOUS
  <1>2. /\ q \in Seq(Entry) /\ Bucket[k].minTime \in Nat /\ Criteria[j].end \in Nat
        /\ \A x \in Range(q) : Bucket[k].minTime <= Timestamp[x]
    BY <1>1, ExporterAssumption DEF Key
  <1>3. Bucket[k].minTime > Criteria[j].end
    BY <1>2, LaterDay
  <1>4. \A x \in Range(q) : x \in Entry
    BY <1>2 DEF Range
  <1>5. \A x \in Range(q) : x \notin M
    <2>1. \A x \in Entry : Timestamp[x] \in Nat
      BY SelectionAssumption
    <2>2. \A x \in M : Timestamp[x] <= Criteria[j].end
      BY <1>1 DEF matchesJob, Selects
    <2> QED BY <1>2, <1>3, <1>4, <2>1, <2>2
  <1>6. Only(q, M) = Only(q, {})
    BY <1>2, <1>5, OnlySame
  <1>7. Only(q, M) \in Seq(Entry \cap {})
    BY <1>2, <1>6, OnlyType
  <1>8. e \notin Range(Only(q, M))
    <2>1. PICK r : r = Only(q, M)
      OBVIOUS
    <2>2. r \in Seq({})
      <3>1. Entry \cap {} = {}
        OBVIOUS
      <3> QED BY <1>7, <2>1, <3>1
    <2>3. e \notin Range(r)
      BY <2>2 DEF Range
    <2> QED BY <2>1, <2>3
  <1>9. Matched(j, k) = Only(q, M)
    BY <1>1, Zenon DEF Matched
  <1>10. Count(Matched(j, k), e) = 0
    BY <1>8, <1>9, CountNone
  <1> QED BY <1>10, ShareType

\* The listing leaves out nothing of what is wanted.
LEMMA ListedIsWanted ==
  ASSUME NEW j \in Job, NEW e \in Entry
  PROVE  /\ SumFunctionOnSet(Share(j, e), Listed(Criteria[j])) = Wanted(j, e)
         /\ Listed(Criteria[j]) \in SUBSET Key
  <1>1. PICK L, R : L = Listed(Criteria[j]) /\ R = Reachable(Criteria[j])
    OBVIOUS
  <1>2. R \in SUBSET Key
    BY <1>1 DEF Reachable
  <1>3. \A k \in Key : Bucket[k].minTime \in Nat /\ Day(Bucket[k].minTime) \in Nat
    <2>1. \A k \in Key : Bucket[k].minTime \in Nat
      BY ExporterAssumption DEF Key
    <2> QED BY <2>1, SelectionAssumption DEF Day
  <1>4. /\ Criteria[j].start \in Nat /\ Criteria[j].end \in Nat
        /\ Day(Criteria[j].start) \in Nat /\ Day(Criteria[j].end) \in Nat
    <2>1. Criteria[j].start \in Nat /\ Criteria[j].end \in Nat
      BY ExporterAssumption
    <2> QED BY <2>1, SelectionAssumption DEF Day
  <1>5. \A k \in Key : k \in L <=>
          /\ Criteria[j].service # "" /\ Bucket[k].service = Criteria[j].service
          /\ Day(Bucket[k].minTime) >= Day(Criteria[j].start)
          /\ Day(Bucket[k].minTime) <= Day(Criteria[j].end)
    <2> SUFFICES ASSUME NEW k \in Key
                 PROVE  k \in L <=>
                   /\ Criteria[j].service # "" /\ Bucket[k].service = Criteria[j].service
                   /\ Day(Bucket[k].minTime) >= Day(Criteria[j].start)
                   /\ Day(Bucket[k].minTime) <= Day(Criteria[j].end)
      OBVIOUS
    <2>1. PICK d, m, n : /\ d = Day(Bucket[k].minTime)
                         /\ m = Day(Criteria[j].start) /\ n = Day(Criteria[j].end)
      OBVIOUS
    <2>2. k \in L <=> Criteria[j].service # "" /\ KeyPrefix(k) \in timePrefixes(Criteria[j])
      BY <1>1 DEF Listed
    <2>3. KeyPrefix(k) \in timePrefixes(Criteria[j]) <=>
            Bucket[k].service = Criteria[j].service /\ d \in m .. n
      BY <2>1 DEF KeyPrefix, timePrefixes
    <2>4. d \in Nat /\ m \in Nat /\ n \in Nat
      BY <1>3, <1>4, <2>1
    <2>5. d \in m .. n <=> d >= m /\ d <= n
      BY <2>4
    <2> QED BY <2>1, <2>2, <2>3, <2>5
  <1>6. L \in SUBSET R
    BY <1>1, <1>5 DEF Reachable, Listed
  <1>7. \A k \in R \ L : Day(Bucket[k].minTime) > Day(Criteria[j].end)
    <2> SUFFICES ASSUME NEW k \in R \ L PROVE Day(Bucket[k].minTime) > Day(Criteria[j].end)
      OBVIOUS
    <2>1. /\ k \in Key /\ Criteria[j].service # "" /\ Bucket[k].service = Criteria[j].service
          /\ Day(Bucket[k].minTime) >= Day(Criteria[j].start)
      BY <1>1 DEF Reachable
    <2>2. ~(Day(Bucket[k].minTime) <= Day(Criteria[j].end))
      BY <1>5, <2>1
    <2>3. Day(Bucket[k].minTime) \in Nat
      BY <1>3, <2>1
    <2> QED BY <1>4, <2>2, <2>3
  <1>8. \A k \in R \ L : Share(j, e)[k] = 0
    BY <1>2, <1>7, LaterMatchesNone
  <1>9. SumFunctionOnSet(Share(j, e), R) = SumFunctionOnSet(Share(j, e), L)
    BY <1>2, <1>6, <1>8, KeySums
  <1>10. Wanted(j, e) = SumFunctionOnSet(Share(j, e), R)
    BY <1>1 DEF Wanted
  <1> QED BY <1>1, <1>2, <1>6, <1>9, <1>10

\* The loop's share of what is wanted: nothing at first, the lines of one chunk
\* more at each, never more than all, and all at the end.
LEMMA DueFacts ==
  ASSUME NEW j \in Job, NEW e \in Entry, NEW s \in Seq(Key),
         Range(s) \subseteq Listed(Criteria[j]),
         \A m, n \in 1 .. Len(s) : s[m] = s[n] => m = n,
         NEW p \in Nat, p <= Len(s)
  PROVE  /\ Due(j, s, p, e) \in Nat
         /\ p = 0 => Due(j, s, p, e) = 0
         /\ p < Len(s) => Due(j, s, p + 1, e) = Due(j, s, p, e) + Count(Matched(j, s[p + 1]), e)
         /\ Due(j, s, p, e) <= Wanted(j, e)
         /\ p = Len(s) /\ Range(s) = Listed(Criteria[j]) => Due(j, s, p, e) = Wanted(j, e)
  <1>0. DOMAIN s = 1 .. Len(s) /\ Len(s) \in Nat
    OBVIOUS
  <1>1. PICK P, f, L : P = {s[i] : i \in 1 .. p} /\ f = Share(j, e) /\ L = Listed(Criteria[j])
    OBVIOUS
  <1>2. Due(j, s, p, e) = SumFunctionOnSet(f, P)
    BY <1>1, Zenon DEF Due
  <1>3. P \in SUBSET Range(s) /\ P \in SUBSET Key /\ P \in SUBSET L
    <2>1. \A i \in 1 .. p : i \in DOMAIN s
      BY <1>0
    <2>2. P \in SUBSET Range(s)
      BY <1>1, <2>1 DEF Range
    <2>3. P \in SUBSET Key
      BY <1>1, <2>1
    <2> QED BY <1>1, <2>2, <2>3
  <1>4. SumFunctionOnSet(f, P) \in Nat /\ IsFiniteSet(P)
    BY <1>1, <1>3, KeySums
  <1>5. ASSUME p = 0 PROVE SumFunctionOnSet(f, P) = 0
    <2>1. P = {}
      BY <1>1, <1>5
    <2> QED BY <1>4, <2>1, SumEquation
  <1>6. ASSUME p < Len(s)
        PROVE  Due(j, s, p + 1, e) = SumFunctionOnSet(f, P) + Count(Matched(j, s[p + 1]), e)
    <2>1. PICK k : k = s[p + 1]
      OBVIOUS
    <2>2. p + 1 \in 1 .. Len(s) /\ k \in Key
      BY <1>0, <1>6, <2>1
    <2>3. k \notin P
      <3>1. \A i \in 1 .. p : i \in 1 .. Len(s) /\ i # p + 1
        BY <1>0
      <3> QED BY <1>1, <2>1, <2>2, <3>1
    <2>4. PICK Q : Q = {s[i] : i \in 1 .. p + 1}
      OBVIOUS
    <2>5. Q = P \cup {k}
      BY <1>1, <2>1, <2>4
    <2>6. Due(j, s, p + 1, e) = SumFunctionOnSet(f, Q)
      BY <1>1, <2>4, Zenon DEF Due
    <2>7. \A x \in P \cup {k} : f[x] \in Nat
      BY <1>1, <1>3, <2>2, ShareType
    <2>8. SumFunctionOnSet(f, P \cup {k}) = SumFunctionOnSet(f, P) + f[k]
      BY <1>4, <2>3, <2>7, SumAdd
    <2>9. f[k] = Count(Matched(j, k), e)
      BY <1>1, <2>2, ShareType
    <2> QED BY <2>1, <2>5, <2>6, <2>8, <2>9
  <1>7. SumFunctionOnSet(f, L) = Wanted(j, e) /\ L \in SUBSET Key
    BY <1>1, ListedIsWanted
  <1>8. SumFunctionOnSet(f, P) <= Wanted(j, e)
    <2>1. SumFunctionOnSet(f, P) <= SumFunctionOnSet(f, L)
      BY <1>1, <1>3, <1>7, KeySums
    <2> QED BY <1>7, <2>1
  <1>9. ASSUME p = Len(s), Range(s) = L PROVE SumFunctionOnSet(f, P) = Wanted(j, e)
    <2>1. P = Range(s)
      BY <1>0, <1>1, <1>9 DEF Range
    <2> QED BY <1>7, <1>9, <2>1
  <1> QED BY <1>1, <1>2, <1>4, <1>5, <1>6, <1>8, <1>9

----------------------------------------------------------------------------
(* What a step does to the accounts.                                       *)

\* The step leaves job i alone.
SameFor(i) ==
  /\ pc'[i] = pc[i] /\ keys'[i] = keys[i] /\ processed'[i] = processed[i]
  /\ pending'[i] = pending[i] /\ errors'[i] = errors[i] /\ exported'[i] = exported[i]
  /\ counted'[i] = counted[i] /\ docs'[i] = docs[i] /\ refused'[i] = refused[i]
  /\ failedBulk'[i] = failedBulk[i]

LEMMA SameKeeps ==
  ASSUME NEW i \in Job, Walk(i), Account(i), SameFor(i)
  PROVE  Walk(i)' /\ Account(i)'
  <1>1. Place(i)' = Place(i)
    BY DEF SameFor, Place
  <1>2. Walk(i)'
    BY <1>1 DEF SameFor, Walk
  <1>3. Indexed(i)' = Indexed(i) /\ \A e \in Entry : Handled(i, e)' = Handled(i, e)
    BY DEF SameFor, Indexed, Handled
  <1>4. Account(i)'
    BY <1>1, <1>3 DEF SameFor, Account
  <1> QED BY <1>2, <1>4

LEMMA OthersSame ==
  ASSUME ExporterTypeOK, NEW j \in Job, NEW i \in Job, i # j,
         Submit(j) \/ RunStep(j) \/ Cancel(j) \/ CancelRaces(j)
  PROVE  SameFor(i)
  <1> USE DEF SameFor, ExporterTypeOK
  <1>1. CASE Submit(j) \/ Launch(j) \/ Leave(j) \/ Cancel(j)
    BY <1>1 DEF Submit, Launch, Leave, Cancel, runVars, Goto
  <1>2. ASSUME NEW written, BeginRun(j, written) \/ FinishRun(j, written) PROVE SameFor(i)
    BY <1>2 DEF BeginRun, FinishRun, Return, Goto
  <1>3. CASE ListFails(j) \/ NextChunk(j)
    BY <1>3 DEF ListFails, NextChunk, RunFails, Return, Goto
  <1>4. CASE ListOK(j)
    BY <1>4 DEF ListOK, Goto
  <1>5. CASE FetchOK(j) \/ FetchError(j) \/ ChunkDone(j)
    BY <1>5 DEF FetchOK, FetchError, ChunkDone, Goto
  <1>6. CASE BulkSend(j) \/ BulkAbandon(j)
    BY <1>6 DEF BulkSend, BulkAbandon, TakeBatch
  <1>7. CASE BulkOK(j)
    BY <1>7 DEF BulkOK, TakeBatch, Stores
  <1>8. CASE BulkError(j)
    BY <1>8 DEF BulkError, TakeBatch, Stores
  <1> HIDE DEF SameFor, ExporterTypeOK
  <1> QED BY <1>1, <1>2, <1>3, <1>4, <1>5, <1>6, <1>7, <1>8 DEF RunStep, CancelRaces

\* The numbers of an account.
LEMMA AccountTypes ==
  ASSUME ExporterTypeOK, NEW j \in Job
  PROVE  /\ processed[j] \in Nat /\ Place(j) \in Nat /\ Len(keys[j]) \in Nat
         /\ errors[j] \in Nat /\ exported[j] \in Nat /\ Indexed(j) \in Nat
         /\ \A e \in Entry : docs[j][e] \in Nat /\ refused[j][e] \in Nat
                               /\ Count(pending[j], e) \in Nat /\ Handled(j, e) \in Nat
  <1>1. /\ processed[j] \in Nat /\ errors[j] \in Nat /\ exported[j] \in Nat
        /\ Len(keys[j]) \in Nat /\ pending[j] \in Seq(Entry)
        /\ \A e \in Entry : docs[j][e] \in Nat /\ refused[j][e] \in Nat
    BY DEF ExporterTypeOK
  <1>2. Place(j) \in Nat
    BY <1>1 DEF Place
  <1>3. \A e \in Entry : Count(pending[j], e) \in Nat
    BY <1>1, CountType
  <1>4. Indexed(j) \in Nat
    <2>1. IsFiniteSet(Entry)
      BY ExporterAssumption
    <2>2. PICK d : d = docs[j]
      OBVIOUS
    <2>3. SumFunctionOnSet(d, Entry) \in Nat
      BY <1>1, <2>1, <2>2, SumType
    <2> QED BY <2>2, <2>3 DEF Indexed
  <1>5. \A e \in Entry : Handled(j, e) \in Nat
    BY <1>1, <1>3 DEF Handled
  <1> QED BY <1>1, <1>2, <1>3, <1>4, <1>5

\* The facts about what is due, for the listing of a job.
LEMMA DueNow ==
  ASSUME ExporterTypeOK, NEW j \in Job, Walk(j), NEW e \in Entry
  PROVE  /\ Due(j, keys[j], Place(j), e) \in Nat
         /\ Place(j) = 0 => Due(j, keys[j], Place(j), e) = 0
         /\ Place(j) < Len(keys[j]) =>
              Due(j, keys[j], Place(j) + 1, e)
                = Due(j, keys[j], Place(j), e) + Count(Matched(j, keys[j][Place(j) + 1]), e)
         /\ Due(j, keys[j], Place(j), e) <= Wanted(j, e)
         /\ Place(j) = Len(keys[j]) /\ Range(keys[j]) = Listed(Criteria[j]) =>
              Due(j, keys[j], Place(j), e) = Wanted(j, e)
  <1>1. PICK s, p : s = keys[j] /\ p = Place(j)
    OBVIOUS
  <1>2. /\ s \in Seq(Key) /\ Range(s) \subseteq Listed(Criteria[j]) /\ p <= Len(s)
        /\ \A m, n \in 1 .. Len(s) : s[m] = s[n] => m = n
    BY <1>1 DEF ExporterTypeOK, Walk
  <1>3. p \in Nat
    BY <1>1, AccountTypes
  <1>4. /\ Due(j, s, p, e) \in Nat
        /\ p = 0 => Due(j, s, p, e) = 0
        /\ p < Len(s) => Due(j, s, p + 1, e) = Due(j, s, p, e) + Count(Matched(j, s[p + 1]), e)
        /\ Due(j, s, p, e) <= Wanted(j, e)
        /\ p = Len(s) /\ Range(s) = Listed(Criteria[j]) => Due(j, s, p, e) = Wanted(j, e)
    BY <1>2, <1>3, DueFacts
  <1> QED BY <1>1, <1>4

\* A step that takes the loop no further and the account nowhere.
LEMMA QuietAccount ==
  ASSUME NEW j \in Job, Account(j), keys'[j] = keys[j], Place(j)' = Place(j),
         pending'[j] = pending[j], errors'[j] = errors[j], exported'[j] = exported[j],
         docs'[j] = docs[j], refused'[j] = refused[j], failedBulk'[j] = failedBulk[j]
  PROVE  Account(j)'
  <1>1. Indexed(j)' = Indexed(j) /\ \A e \in Entry : Handled(j, e)' = Handled(j, e)
    BY DEF Indexed, Handled
  <1> QED BY <1>1 DEF Account

\* Steps that move the job and change nothing else of its account.
LEMMA QuietSteps ==
  ASSUME ExporterTypeOK, NEW j \in Job, Walk(j), Account(j),
         \/ Submit(j) \/ Launch(j) \/ Leave(j) \/ Cancel(j) \/ BulkSend(j)
         \/ ListFails(j) \/ NextChunk(j) \/ ChunkDone(j)
         \/ \E written : BeginRun(j, written) \/ FinishRun(j, written)
  PROVE  Walk(j)' /\ Account(j)'
  <1>t. /\ processed[j] \in Nat /\ Len(keys[j]) \in Nat
        /\ pc \in [Job -> {"new", "invalid", "full", "slot", "start", "list", "next", "fetch",
                           "drain", "leaving", "done"}]
        /\ counted \in [Job -> {"none", "completed", "failed"}] /\ processed \in [Job -> Nat]
    BY AccountTypes DEF ExporterTypeOK
  <1> DEFINE Early == {"new", "invalid", "full", "slot", "start", "list"}
             Kept == /\ keys'[j] = keys[j] /\ pending'[j] = pending[j]
                     /\ errors'[j] = errors[j] /\ exported'[j] = exported[j] /\ docs'[j] = docs[j]
                     /\ refused'[j] = refused[j] /\ failedBulk'[j] = failedBulk[j]
  <1>1. ASSUME Kept, processed'[j] = processed[j], counted'[j] = counted[j],
               \/ pc'[j] = pc[j]
               \/ pc[j] \in Early /\ pc'[j] \in Early
               \/ pc[j] = "leaving" /\ pc'[j] = "done"
               \/ pc[j] = "next" /\ pc'[j] = "fetch" /\ processed[j] < Len(keys[j])
        PROVE  Walk(j)' /\ Account(j)'
    <2>1. Place(j)' = Place(j)
      BY <1>1 DEF Place
    <2>2. Walk(j)'
      BY <1>1, <2>1, <1>t DEF Walk
    <2> QED BY <1>1, <2>1, <2>2, QuietAccount
  <1>2. ASSUME Kept, processed'[j] = processed[j], pc[j] \in {"list", "next"}, pc'[j] = "leaving",
               \/ counted'[j] = "failed"
               \/ /\ counted'[j] = "completed" /\ pc[j] = "next" /\ processed[j] = Len(keys[j])
                  /\ pending[j] = <<>>
        PROVE  Walk(j)' /\ Account(j)'
    <2>1. Place(j)' = Place(j) /\ Place(j) = processed[j]
      BY <1>2 DEF Place
    <2>2. Walk(j)'
      BY <1>2, <2>1, <1>t DEF Walk
    <2> QED BY <1>2, <2>1, <2>2, QuietAccount
  <1>3. ASSUME Kept, processed'[j] = processed[j] + 1, counted'[j] = counted[j],
               pc[j] = "drain", pc'[j] = "next"
        PROVE  Walk(j)' /\ Account(j)'
    <2>1. Place(j)' = Place(j)
      BY <1>3 DEF Place
    <2>2. Walk(j)'
      BY <1>3, <2>1, <1>t DEF Walk
    <2> QED BY <1>3, <2>1, <2>2, QuietAccount
  <1>4. CASE Submit(j) \/ Launch(j) \/ Leave(j) \/ Cancel(j) \/ BulkSend(j)
    <2>1. Kept /\ processed'[j] = processed[j] /\ counted'[j] = counted[j]
      BY <1>4 DEF Submit, Launch, Leave, Cancel, BulkSend, runVars
    <2>2. \/ pc'[j] = pc[j]
          \/ pc[j] \in Early /\ pc'[j] \in Early
          \/ pc[j] = "leaving" /\ pc'[j] = "done"
      BY <1>4, <1>t DEF Submit, Launch, Leave, Cancel, BulkSend, runVars, At, Goto
    <2> QED BY <1>1, <2>1, <2>2
  <1>5. CASE ListFails(j) \/ NextChunk(j)
    <2>1. Kept /\ processed'[j] = processed[j]
      BY <1>5 DEF ListFails, NextChunk, RunFails
    <2>2. \/ /\ pc[j] = "next" /\ pc'[j] = "fetch" /\ processed[j] < Len(keys[j])
             /\ counted'[j] = counted[j]
          \/ pc[j] \in {"list", "next"} /\ pc'[j] = "leaving" /\ counted'[j] = "failed"
      BY <1>5, <1>t DEF ListFails, NextChunk, RunFails, Return, At, Goto
    <2> QED BY <1>1, <1>2, <2>1, <2>2
  <1>6. CASE ChunkDone(j)
    <2>1. /\ Kept /\ processed'[j] = processed[j] + 1 /\ counted'[j] = counted[j]
          /\ pc[j] = "drain" /\ pc'[j] = "next"
      BY <1>6, <1>t DEF ChunkDone, At, Goto
    <2> QED BY <1>3, <2>1
  <1>7. ASSUME NEW written, BeginRun(j, written) PROVE Walk(j)' /\ Account(j)'
    <2>1. /\ Kept /\ processed'[j] = processed[j] /\ counted'[j] = counted[j]
          /\ pc[j] \in Early /\ pc'[j] \in Early
      BY <1>7, <1>t DEF BeginRun, At, Goto
    <2> QED BY <1>1, <2>1
  <1>8. ASSUME NEW written, FinishRun(j, written) PROVE Walk(j)' /\ Account(j)'
    <2>1. /\ Kept /\ processed'[j] = processed[j] /\ pc[j] = "next" /\ pc'[j] = "leaving"
          /\ counted'[j] = "completed" /\ processed[j] = Len(keys[j]) /\ pending[j] = <<>>
      BY <1>8, <1>t DEF FinishRun, LoopOver, Return, At, Goto
    <2> QED BY <1>2, <2>1
  <1> QED BY <1>4, <1>5, <1>6, <1>7, <1>8

\* The listing comes.
LEMMA ListStep ==
  ASSUME ExporterTypeOK, NEW j \in Job, Walk(j), Account(j), ListOK(j)
  PROVE  Walk(j)' /\ Account(j)'
  <1>1. PICK s \in Listings(Criteria[j]) : keys' = [keys EXCEPT ![j] = s]
    BY DEF ListOK
  <1>2. /\ s \in Seq(Key) /\ Range(s) = Listed(Criteria[j])
        /\ \A m, n \in 1 .. Len(s) : s[m] = s[n] => m = n
    BY ListingFacts
  <1>3. /\ keys'[j] = s /\ pc[j] = "list" /\ pc'[j] = "next" /\ processed'[j] = processed[j]
        /\ UNCHANGED <<pending, errors, exported, docs, refused, failedBulk, counted>>
    BY <1>1 DEF ListOK, At, Goto, ExporterTypeOK
  <1>4. processed[j] = 0 /\ pending[j] = <<>> /\ counted[j] = "none"
    BY <1>3 DEF Walk
  <1>5. Place(j) = 0 /\ Place(j)' = 0
    BY <1>3, <1>4 DEF Place
  <1>6. Len(s) \in Nat
    BY <1>2
  <1>7. Walk(j)'
    BY <1>2, <1>3, <1>4, <1>5, <1>6 DEF Walk
  <1>8. ASSUME NEW e \in Entry PROVE Due(j, s, 0, e) = Due(j, keys[j], Place(j), e)
    <2>1. Due(j, s, 0, e) = 0
      BY <1>2, <1>6, DueFacts
    <2>2. Due(j, keys[j], Place(j), e) = 0
      BY <1>5, DueNow
    <2> QED BY <2>1, <2>2
  <1>9. Indexed(j)' = Indexed(j) /\ \A e \in Entry : Handled(j, e)' = Handled(j, e)
    BY <1>3 DEF Indexed, Handled
  <1>10. \A e \in Entry : Due(j, keys'[j], Place(j)', e) = Due(j, keys[j], Place(j), e)
    BY <1>3, <1>5, <1>8
  <1>11. Account(j)'
    BY <1>3, <1>9, <1>10 DEF Account
  <1> QED BY <1>7, <1>11

\* A chunk is fetched and what the job wants of it joins the batch, or it cannot
\* be and is counted as an error.
LEMMA FetchStep ==
  ASSUME ExporterTypeOK, NEW j \in Job, Walk(j), Account(j), FetchOK(j) \/ FetchError(j)
  PROVE  Walk(j)' /\ Account(j)'
  <1>t. /\ processed[j] \in Nat /\ Len(keys[j]) \in Nat /\ errors[j] \in Nat
        /\ \A e \in Entry : Handled(j, e) \in Nat /\ Count(pending[j], e) \in Nat
                              /\ docs[j][e] \in Nat /\ refused[j][e] \in Nat
    BY AccountTypes
  <1>1. /\ pc[j] = "fetch" /\ keys'[j] = keys[j] /\ counted'[j] = counted[j]
        /\ pc'[j] \in {"drain", "next"}
        /\ UNCHANGED <<exported, docs, refused, failedBulk>>
        /\ processed'[j] = IF pc'[j] = "drain" THEN processed[j] ELSE processed[j] + 1
    BY DEF FetchOK, FetchError, At, Goto, ExporterTypeOK
  <1>2. /\ processed[j] < Len(keys[j]) /\ counted[j] = "none"
        /\ Range(keys[j]) = Listed(Criteria[j])
    BY <1>1 DEF Walk
  <1>3. Place(j) = processed[j] /\ Place(j)' = Place(j) + 1
    BY <1>1, <1>t DEF Place
  <1>4. Walk(j)'
    BY <1>1, <1>2, <1>3, <1>t DEF Walk
  <1>5. ASSUME NEW e \in Entry
        PROVE  /\ Due(j, keys[j], Place(j), e) \in Nat
               /\ Count(Matched(j, Fetching(j)), e) \in Nat
               /\ Due(j, keys'[j], Place(j)', e)
                    = Due(j, keys[j], Place(j), e) + Count(Matched(j, Fetching(j)), e)
    <2>1. PICK k : k = Fetching(j)
      OBVIOUS
    <2>2. k \in Key
      BY <1>2, <1>t, <2>1 DEF Fetching, ExporterTypeOK
    <2>3. Count(Matched(j, k), e) \in Nat
      BY <2>2, ShareType
    <2>4. /\ Due(j, keys[j], Place(j), e) \in Nat
          /\ Due(j, keys[j], Place(j) + 1, e)
               = Due(j, keys[j], Place(j), e) + Count(Matched(j, keys[j][Place(j) + 1]), e)
      BY <1>2, <1>3, DueNow
    <2>5. Due(j, keys'[j], Place(j)', e) = Due(j, keys[j], Place(j) + 1, e)
      BY <1>1, <1>3
    <2>6. keys[j][Place(j) + 1] = Fetching(j)
      BY <1>3 DEF Fetching
    <2> QED BY <2>1, <2>3, <2>4, <2>5, <2>6
  <1>6. Indexed(j)' = Indexed(j)
    BY <1>1 DEF Indexed
  <1>7. CASE FetchOK(j)
    <2>1. pending'[j] = pending[j] \o Matched(j, Fetching(j)) /\ errors' = errors
      BY <1>7 DEF FetchOK, ExporterTypeOK
    <2>2. Fetching(j) \in Key
      BY <1>2, <1>t DEF Fetching, ExporterTypeOK
    <2>3. ASSUME NEW e \in Entry
          PROVE  Handled(j, e)' = Handled(j, e) + Count(Matched(j, Fetching(j)), e)
      <3>1. PICK q, r : q = pending[j] /\ r = Matched(j, Fetching(j))
        OBVIOUS
      <3>2. q \in Seq(Entry) /\ r \in Seq(Entry)
        BY <2>2, <3>1, MatchedType DEF ExporterTypeOK
      <3>3. Count(q \o r, e) = Count(q, e) + Count(r, e)
        BY <3>2, CountConcat
      <3>4. Count(pending'[j], e) = Count(pending[j], e) + Count(Matched(j, Fetching(j)), e)
        BY <2>1, <3>1, <3>3
      <3>5. docs'[j][e] = docs[j][e] /\ refused'[j][e] = refused[j][e]
        BY <1>1
      <3> QED BY <1>t, <1>5, <3>4, <3>5 DEF Handled
    <2>4. ASSUME NEW e \in Entry
          PROVE  /\ ~failedBulk[j] => Handled(j, e)' <= Due(j, keys'[j], Place(j)', e)
                 /\ errors[j] = 0 => Due(j, keys'[j], Place(j)', e) <= Handled(j, e)'
      <3>1. /\ ~failedBulk[j] => Handled(j, e) <= Due(j, keys[j], Place(j), e)
            /\ errors[j] = 0 => Due(j, keys[j], Place(j), e) <= Handled(j, e)
        BY DEF Account
      <3> QED BY <1>t, <1>5, <2>3, <3>1
    <2>5. Account(j)'
      BY <1>1, <1>6, <2>1, <2>4 DEF Account
    <2> QED BY <1>4, <2>5
  <1>8. CASE FetchError(j)
    <2>1. pending' = pending /\ errors'[j] = errors[j] + 1
      BY <1>8 DEF FetchError, ExporterTypeOK
    <2>2. errors'[j] # 0
      BY <1>t, <2>1
    <2>3. \A e \in Entry : Handled(j, e)' = Handled(j, e)
      BY <1>1, <2>1 DEF Handled
    <2>4. ASSUME NEW e \in Entry, ~failedBulk[j]
          PROVE  Handled(j, e)' <= Due(j, keys'[j], Place(j)', e)
      <3>1. Handled(j, e) <= Due(j, keys[j], Place(j), e)
        BY <2>4 DEF Account
      <3> QED BY <1>t, <1>5, <2>3, <3>1
    <2>5. Account(j)'
      BY <1>1, <1>6, <2>2, <2>4 DEF Account
    <2> QED BY <1>4, <2>5
  <1> QED BY <1>7, <1>8

\* What an attempt stores: the copies it stores of each entry, as many in all as
\* the positions it stores.
LEMMA StoresCounted ==
  ASSUME ExporterTypeOK, NEW j \in Job, NEW I \in SUBSET (1 .. BulkLen(j)), Stores(j, I)
  PROVE  /\ \A e \in Entry : docs'[j][e] = docs[j][e] + Copies(j, I, e) /\ Copies(j, I, e) \in Nat
         /\ Indexed(j)' = Indexed(j) + Cardinality(I)
         /\ Cardinality(I) \in Nat
  <1>1. /\ IsFiniteSet(Entry) /\ docs[j] \in [Entry -> Nat] /\ BulkLen(j) \in Nat
        /\ pending \in [Job -> Seq(Entry)]
    BY ExporterAssumption, BulkFacts DEF ExporterTypeOK
  <1>2. PICK q, d, f, g : /\ q = pending[j] /\ d = docs[j] /\ f = [e \in Entry |-> CountAt(q, I, e)]
                          /\ g = docs'[j]
    OBVIOUS
  <1>3. IsFiniteSet(I) /\ Cardinality(I) \in Nat
    BY <1>1, PositionsFinite
  <1>4. \A i \in I : q[i] \in Entry
    <2>1. \A i \in I : i \in 1 .. Len(pending[j])
      BY <1>1, BulkFacts
    <2> QED BY <1>1, <1>2, <2>1
  <1>5. \A e \in Entry : f[e] = CountAt(q, I, e) /\ f[e] \in Nat /\ d[e] \in Nat
    BY <1>1, <1>2, PositionsFinite
  <1>6. \A e \in Entry : g[e] = d[e] + f[e] /\ f[e] = Copies(j, I, e)
    BY <1>2, <1>5 DEF Stores, Copies, ExporterTypeOK
  <1>7. SumFunctionOnSet(f, Entry) = Cardinality(I)
    <2>1. SumFunctionOnSet([e \in Entry |-> CountAt(q, I, e)], Entry) = Cardinality(I)
      BY <1>1, <1>3, <1>4, SumOccurrences
    <2> QED BY <1>2, <2>1
  <1>8. SumFunctionOnSet(g, Entry) = SumFunctionOnSet(d, Entry) + SumFunctionOnSet(f, Entry)
    <2>1. IsFiniteSet(Entry)
      BY <1>1
    <2>2. \A e \in Entry : d[e] \in Nat
      BY <1>5
    <2>3. \A e \in Entry : f[e] \in Nat
      BY <1>5
    <2>4. \A e \in Entry : g[e] = d[e] + f[e]
      BY <1>6
    <2> QED BY <2>1, <2>2, <2>3, <2>4, SumPlus
  <1>9. Indexed(j)' = SumFunctionOnSet(g, Entry) /\ Indexed(j) = SumFunctionOnSet(d, Entry)
    BY <1>2 DEF Indexed
  <1> QED BY <1>2, <1>3, <1>5, <1>6, <1>7, <1>8, <1>9

\* A request leaves the job where it is.
LEMMA BulkWalk ==
  ASSUME ExporterTypeOK, NEW j \in Job, Walk(j), BulkDue(j),
         UNCHANGED <<pc, keys, processed, counted>>
  PROVE  Walk(j)' /\ Place(j)' = Place(j) /\ keys'[j] = keys[j]
  <1>1. pc[j] \in {"drain", "next"}
    BY DEF BulkDue, LoopOver, At
  <1>2. Place(j)' = Place(j)
    BY DEF Place
  <1> QED BY <1>1, <1>2 DEF Walk

\* A batch that is answered.
LEMMA BulkOKStep ==
  ASSUME ExporterTypeOK, NEW j \in Job, Walk(j), Account(j), BulkOK(j)
  PROVE  Walk(j)' /\ Account(j)'
  <1>t. /\ exported[j] \in Nat /\ Indexed(j) \in Nat
        /\ \A e \in Entry : docs[j][e] \in Nat /\ refused[j][e] \in Nat
                              /\ Count(pending[j], e) \in Nat
    BY AccountTypes
  <1>1. PICK I \in SUBSET (1 .. BulkLen(j)) :
          /\ Stores(j, I)
          /\ refused' = [refused EXCEPT ![j] =
               [e \in Entry |-> refused[j][e] + Copies(j, (1 .. BulkLen(j)) \ I, e)]]
          /\ exported' = [exported EXCEPT ![j] = @ + Cardinality(I)]
    BY DEF BulkOK
  <1>2. /\ UNCHANGED <<pc, keys, processed, counted, errors, failedBulk>> /\ BulkDue(j)
        /\ pending'[j] = SubSeq(pending[j], BulkLen(j) + 1, Len(pending[j]))
    BY DEF BulkOK, TakeBatch, ExporterTypeOK
  <1>3. Walk(j)' /\ Place(j)' = Place(j) /\ keys'[j] = keys[j]
    BY <1>2, BulkWalk
  <1>4. /\ \A e \in Entry : docs'[j][e] = docs[j][e] + Copies(j, I, e) /\ Copies(j, I, e) \in Nat
        /\ Indexed(j)' = Indexed(j) + Cardinality(I) /\ Cardinality(I) \in Nat
    BY <1>1, StoresCounted
  <1>5. exported'[j] = exported[j] + Cardinality(I)
    BY <1>1 DEF ExporterTypeOK
  <1>6. ASSUME NEW e \in Entry PROVE Handled(j, e)' = Handled(j, e)
    <2>1. PICK q, n, J : q = pending[j] /\ n = BulkLen(j) /\ J = (1 .. n) \ I
      OBVIOUS
    <2>2. q \in Seq(Entry) /\ n \in 0 .. Len(q) /\ I \in SUBSET (1 .. n) /\ n \in Nat
      BY <2>1, BulkFacts DEF ExporterTypeOK
    <2>3. Count(q, e) = CountAt(q, I, e) + CountAt(q, (1 .. n) \ I, e)
                          + Count(SubSeq(q, n + 1, Len(q)), e)
      BY <2>2, CountTaken
    <2>4. refused'[j][e] = refused[j][e] + Copies(j, J, e)
      BY <1>1, <2>1 DEF ExporterTypeOK
    <2>5. Copies(j, I, e) = CountAt(q, I, e) /\ Copies(j, J, e) = CountAt(q, J, e)
      BY <2>1 DEF Copies
    <2>6. Count(pending'[j], e) = Count(SubSeq(q, n + 1, Len(q)), e)
      BY <1>2, <2>1
    <2>7. /\ CountAt(q, J, e) \in Nat /\ CountAt(q, J, e) = CountAt(q, (1 .. n) \ I, e)
      <3>1. J \in SUBSET (1 .. n)
        BY <2>1
      <3>2. CountAt(q, J, e) \in Nat
        BY <2>2, <3>1, PositionsFinite
      <3> QED BY <2>1, <3>2
    <2>8. Count(SubSeq(q, n + 1, Len(q)), e) \in Nat
      <3>1. SubSeq(q, n + 1, Len(q)) \in Seq(Entry)
        BY <2>2
      <3> QED BY <3>1, CountType
    <2>9. Count(pending[j], e)
            = Copies(j, I, e) + Copies(j, J, e) + Count(pending'[j], e)
      BY <2>1, <2>3, <2>5, <2>6, <2>7
    <2>10. Copies(j, J, e) \in Nat /\ Count(pending'[j], e) \in Nat
      BY <2>5, <2>6, <2>7, <2>8
    <2> QED BY <1>t, <1>4, <2>4, <2>9, <2>10 DEF Handled
  <1>7. exported[j] <= Indexed(j) /\ (~failedBulk[j] => exported[j] = Indexed(j))
    BY DEF Account
  <1>8. exported'[j] <= Indexed(j)' /\ (~failedBulk'[j] => exported'[j] = Indexed(j)')
    BY <1>t, <1>2, <1>4, <1>5, <1>7
  <1>9. Account(j)'
    BY <1>2, <1>3, <1>6, <1>8 DEF Account
  <1> QED BY <1>3, <1>9

\* A request that fails, with any part of it carried out.
LEMMA BulkErrorStep ==
  ASSUME ExporterTypeOK, NEW j \in Job, Walk(j), Account(j), BulkError(j)
  PROVE  Walk(j)' /\ Account(j)'
  <1>t. /\ exported[j] \in Nat /\ Indexed(j) \in Nat /\ errors[j] \in Nat
        /\ \A e \in Entry : docs[j][e] \in Nat /\ refused[j][e] \in Nat
                              /\ Count(pending[j], e) \in Nat
    BY AccountTypes
  <1>1. PICK I \in SUBSET (1 .. BulkLen(j)) : Stores(j, I)
    BY DEF BulkError
  <1>2. /\ UNCHANGED <<pc, keys, processed, counted, refused, exported>> /\ BulkDue(j)
        /\ failedBulk'[j] = TRUE
        /\ \/ UNCHANGED <<pending, errors>>
           \/ errors'[j] = errors[j] + 1
    BY DEF BulkError, ExporterTypeOK
  <1>3. Walk(j)' /\ Place(j)' = Place(j) /\ keys'[j] = keys[j]
    BY <1>2, BulkWalk
  <1>4. /\ \A e \in Entry : docs'[j][e] = docs[j][e] + Copies(j, I, e) /\ Copies(j, I, e) \in Nat
        /\ Indexed(j)' = Indexed(j) + Cardinality(I) /\ Cardinality(I) \in Nat
    BY <1>1, StoresCounted
  <1>5. ASSUME NEW e \in Entry, errors'[j] = 0
        PROVE  Due(j, keys'[j], Place(j)', e) <= Handled(j, e)'
    <2>1. UNCHANGED <<pending, errors>>
      BY <1>t, <1>2, <1>5
    <2>2. Due(j, keys[j], Place(j), e) <= Handled(j, e)
      BY <1>5, <2>1 DEF Account
    <2>3. Handled(j, e)' = Handled(j, e) + Copies(j, I, e) /\ Handled(j, e) \in Nat
      BY <1>t, <1>2, <1>4, <2>1 DEF Handled
    <2>4. Due(j, keys[j], Place(j), e) \in Nat
      BY DueNow
    <2> QED BY <1>3, <1>4, <2>2, <2>3, <2>4
  <1>6. exported'[j] <= Indexed(j)'
    <2>1. exported[j] <= Indexed(j) /\ exported'[j] = exported[j]
      BY <1>2 DEF Account
    <2> QED BY <1>t, <1>4, <2>1
  <1>7. Account(j)'
    BY <1>2, <1>5, <1>6 DEF Account
  <1> QED BY <1>3, <1>7

\* A batch that is given up because the context is done.
LEMMA BulkAbandonStep ==
  ASSUME ExporterTypeOK, NEW j \in Job, Walk(j), Account(j), BulkAbandon(j)
  PROVE  Walk(j)' /\ Account(j)'
  <1>t. /\ errors[j] \in Nat
        /\ \A e \in Entry : docs[j][e] \in Nat /\ refused[j][e] \in Nat
                              /\ Count(pending[j], e) \in Nat
    BY AccountTypes
  <1>1. /\ UNCHANGED <<pc, keys, processed, counted, refused, exported, docs, failedBulk>>
        /\ BulkDue(j) /\ errors'[j] = errors[j] + 1
        /\ pending'[j] = SubSeq(pending[j], BulkLen(j) + 1, Len(pending[j]))
    BY DEF BulkAbandon, TakeBatch, ExporterTypeOK
  <1>2. Walk(j)' /\ Place(j)' = Place(j) /\ keys'[j] = keys[j]
    BY <1>1, BulkWalk
  <1>3. errors'[j] # 0
    BY <1>t, <1>1
  <1>4. ASSUME NEW e \in Entry PROVE Handled(j, e)' <= Handled(j, e) /\ Handled(j, e)' \in Nat
    <2>1. PICK q, n : q = pending[j] /\ n = BulkLen(j)
      OBVIOUS
    <2>2. q \in Seq(Entry) /\ n \in 0 .. Len(q) /\ {} \in SUBSET (1 .. n) /\ n \in Nat
      BY <2>1, BulkFacts DEF ExporterTypeOK
    <2>3. PICK J : J = (1 .. n) \ {}
      OBVIOUS
    <2>4. Count(q, e) = CountAt(q, {}, e) + CountAt(q, (1 .. n) \ {}, e)
                          + Count(SubSeq(q, n + 1, Len(q)), e)
      BY <2>2, CountTaken
    <2>5. J \in SUBSET (1 .. n)
      BY <2>3
    <2>6. CountAt(q, {}, e) \in Nat /\ CountAt(q, J, e) \in Nat
      BY <2>2, <2>5, PositionsFinite
    <2>7. Count(SubSeq(q, n + 1, Len(q)), e) \in Nat
      <3>1. SubSeq(q, n + 1, Len(q)) \in Seq(Entry)
        BY <2>2
      <3> QED BY <3>1, CountType
    <2>8. CountAt(q, J, e) = CountAt(q, (1 .. n) \ {}, e)
      BY <2>3
    <2>9. Count(pending'[j], e) <= Count(pending[j], e) /\ Count(pending'[j], e) \in Nat
      BY <1>1, <2>1, <2>4, <2>6, <2>7, <2>8
    <2> QED BY <1>t, <1>1, <2>9 DEF Handled
  <1>5. ASSUME NEW e \in Entry, ~failedBulk'[j]
        PROVE  Handled(j, e)' <= Due(j, keys'[j], Place(j)', e)
    <2>1. Handled(j, e) <= Due(j, keys[j], Place(j), e)
      BY <1>1, <1>5 DEF Account
    <2>2. Handled(j, e) \in Nat
      BY AccountTypes
    <2>3. Due(j, keys[j], Place(j), e) \in Nat
      BY DueNow
    <2> QED BY <1>2, <1>4, <2>1, <2>2, <2>3
  <1>6. Indexed(j)' = Indexed(j)
    BY <1>1 DEF Indexed
  <1>7. Account(j)'
    BY <1>1, <1>3, <1>5, <1>6 DEF Account
  <1> QED BY <1>2, <1>7

LEMMA ExportInductive ==
  ASSUME ExporterTypeOK, ExportInv, [ExporterNext]_exportVars
  PROVE  ExportInv'
  <1>i. \A j \in Job : Walk(j) /\ Account(j)
    BY DEF ExportInv
  <1>1. ASSUME NEW j \in Job, Submit(j) \/ RunStep(j) \/ Cancel(j) \/ CancelRaces(j)
        PROVE  ExportInv'
    <2>1. Walk(j)' /\ Account(j)'
      BY <1>i, <1>1, QuietSteps, ListStep, FetchStep, BulkOKStep, BulkErrorStep, BulkAbandonStep
         DEF RunStep, CancelRaces
    <2>2. \A i \in Job : i # j => SameFor(i)
      BY <1>1, OthersSame
    <2>3. \A i \in Job : i # j => Walk(i)' /\ Account(i)'
      BY <1>i, <2>2, SameKeeps
    <2> QED BY <2>1, <2>3 DEF ExportInv
  <1>2. ASSUME UNCHANGED <<runVars, counted, docs, refused, failedBulk>>
        PROVE  ExportInv'
    <2>1. \A i \in Job : SameFor(i)
      BY <1>2 DEF SameFor, runVars
    <2>2. \A i \in Job : Walk(i)' /\ Account(i)'
      BY <1>i, <2>1, SameKeeps
    <2> QED BY <2>2 DEF ExportInv
  <1>3. CASE Signal \/ StopPool \/ Exit \/ UNCHANGED exportVars
    BY <1>2, <1>3 DEF Signal, StopPool, Exit, exportVars
  <1> QED BY <1>1, <1>3 DEF ExporterNext

LEMMA ExportInit ==
  ASSUME ExporterInit
  PROVE  ExporterTypeOK /\ ExportInv
  <1>1. ExporterTypeOK
    BY ExporterAssumption DEF ExporterInit, ExporterTypeOK
  <1>2. ASSUME NEW j \in Job PROVE Walk(j) /\ Account(j)
    <2>1. /\ pc[j] = "new" /\ keys[j] = <<>> /\ processed[j] = 0 /\ pending[j] = <<>>
          /\ counted[j] = "none" /\ exported[j] = 0 /\ \A e \in Entry : docs[j][e] = 0 /\ refused[j][e] = 0
      BY DEF ExporterInit
    <2>2. Place(j) = 0
      BY <2>1 DEF Place
    <2>3. Walk(j)
      BY <2>1, <2>2, RangeEmpty DEF Walk
    <2>4. \A e \in Entry : Handled(j, e) = 0
      <3>1. \A e \in Entry : Count(<<>>, e) = 0
        BY RangeEmpty, CountNone
      <3> QED BY <2>1, <3>1 DEF Handled
    <2>5. \A e \in Entry : Due(j, keys[j], Place(j), e) = 0
      BY <1>1, <2>2, <2>3, DueNow
    <2>6. Indexed(j) = 0
      <3>1. IsFiniteSet(Entry)
        BY ExporterAssumption
      <3> QED BY <2>1, <3>1, SumFew DEF Indexed
    <2>7. Account(j)
      BY <2>1, <2>4, <2>5, <2>6 DEF Account
    <2> QED BY <2>3, <2>7
  <1> QED BY <1>1, <1>2 DEF ExportInv

\* What a job reports: nothing until its end, and then the loop's own total.
Report(j) ==
  logsExported[j] = IF counted[j] = "completed" THEN exported[j] ELSE 0

ReportInv == \A j \in Job : Report(j)

LEMMA ReportInductive ==
  ASSUME ExporterTypeOK, ExportInv, ReportInv, [ExporterNext]_exportVars
  PROVE  ReportInv'
  <1>i. \A j \in Job : Walk(j) /\ Report(j)
    BY DEF ExportInv, ReportInv
  <1>1. ASSUME UNCHANGED <<logsExported, counted, exported>> PROVE ReportInv'
    BY <1>1 DEF ReportInv, Report
  <1>2. ASSUME NEW j \in Job, NEW written, FinishRun(j, written) PROVE ReportInv'
    <2>1. /\ logsExported' = [logsExported EXCEPT ![j] = exported[j]]
          /\ counted' = [counted EXCEPT ![j] = "completed"] /\ exported' = exported
      BY <1>2 DEF FinishRun, Return
    <2> QED BY <1>i, <2>1 DEF ReportInv, Report, ExporterTypeOK
  <1>3. ASSUME NEW j \in Job, ListFails(j) \/ NextChunk(j) PROVE ReportInv'
    <2>1. CASE RunFails(j)
      <3>1. counted[j] = "none"
        BY <1>i, <1>3 DEF Walk, ListFails, NextChunk, At
      <3>2. /\ counted' = [counted EXCEPT ![j] = "failed"]
            /\ UNCHANGED <<logsExported, exported>>
        BY <2>1 DEF RunFails, Return
      <3> QED BY <1>i, <3>1, <3>2 DEF ReportInv, Report, ExporterTypeOK
    <2>2. CASE UNCHANGED <<logsExported, counted, exported>>
      BY <1>1, <2>2
    <2> QED BY <1>3, <2>1, <2>2 DEF ListFails, NextChunk
  <1>4. ASSUME NEW j \in Job, BulkOK(j) PROVE ReportInv'
    <2>1. counted[j] = "none"
      BY <1>i, <1>4 DEF Walk, BulkOK, BulkDue, LoopOver, At
    <2>2. PICK n : exported' = [exported EXCEPT ![j] = n]
      BY <1>4 DEF BulkOK
    <2>3. UNCHANGED <<logsExported, counted>>
      BY <1>4 DEF BulkOK
    <2> QED BY <1>i, <2>1, <2>2, <2>3 DEF ReportInv, Report, ExporterTypeOK
  <1>5. ASSUME NEW j \in Job, RunStep(j) PROVE ReportInv'
    <2>1. CASE Launch(j) \/ Leave(j)
      BY <1>1, <2>1 DEF Launch, Leave
    <2>2. CASE BeginRun(j, "running") \/ ListOK(j)
      BY <1>1, <2>2 DEF BeginRun, ListOK
    <2>3. CASE FetchOK(j) \/ FetchError(j) \/ ChunkDone(j)
      BY <1>1, <2>3 DEF FetchOK, FetchError, ChunkDone
    <2>4. CASE BulkSend(j) \/ BulkAbandon(j) \/ BulkError(j)
      BY <1>1, <2>4 DEF BulkSend, BulkAbandon, BulkError
    <2> QED BY <1>2, <1>3, <1>4, <1>5, <2>1, <2>2, <2>3, <2>4 DEF RunStep
  <1>6. ASSUME NEW j \in Job, Submit(j) \/ Cancel(j) PROVE ReportInv'
    BY <1>1, <1>6 DEF Submit, Cancel, runVars
  <1>7. ASSUME NEW j \in Job, CancelRaces(j) PROVE ReportInv'
    <2>1. CASE BeginRun(j, "torn")
      BY <1>1, <2>1 DEF BeginRun
    <2> QED BY <1>2, <1>7, <2>1 DEF CancelRaces
  <1>8. CASE Signal \/ StopPool \/ Exit \/ UNCHANGED exportVars
    BY <1>1, <1>8 DEF Signal, StopPool, Exit, exportVars, runVars
  <1> QED BY <1>5, <1>6, <1>7, <1>8 DEF ExporterNext

LEMMA ReportInit == ExporterInit => ReportInv
  BY DEF ExporterInit, ReportInv, Report

\* What the invariant says of a job at its end and on the way.
LEMMA ExportHonest ==
  ASSUME ExporterTypeOK, ExportInv, ReportInv
  PROVE  ErrorsCounted /\ ExportedCounted
  <1>i. \A j \in Job : Walk(j) /\ Account(j)
    BY DEF ExportInv
  <1>1. ASSUME NEW j \in Job, counted[j] = "completed", errors[j] = 0, NEW e \in Entry
        PROVE  Wanted(j, e) <= docs[j][e] + refused[j][e]
    <2>1. pending[j] = <<>> /\ Place(j) = Len(keys[j]) /\ Range(keys[j]) = Listed(Criteria[j])
      BY <1>i, <1>1 DEF Walk
    <2>2. Due(j, keys[j], Place(j), e) = Wanted(j, e)
      BY <1>i, <2>1, DueNow
    <2>3. Due(j, keys[j], Place(j), e) <= Handled(j, e)
      BY <1>i, <1>1 DEF Account
    <2>4. Count(pending[j], e) = 0
      BY <2>1, RangeEmpty, CountNone
    <2>5. docs[j][e] \in Nat /\ refused[j][e] \in Nat
      BY AccountTypes
    <2> QED BY <2>2, <2>3, <2>4, <2>5 DEF Handled
  <1>2. ASSUME NEW j \in Job, ~failedBulk[j], NEW e \in Entry
        PROVE  docs[j][e] <= Wanted(j, e)
    <2>1. Handled(j, e) <= Due(j, keys[j], Place(j), e)
      BY <1>i, <1>2 DEF Account
    <2>2. Due(j, keys[j], Place(j), e) <= Wanted(j, e) /\ Due(j, keys[j], Place(j), e) \in Nat
      BY <1>i, DueNow
    <2>3. docs[j][e] \in Nat /\ refused[j][e] \in Nat /\ Count(pending[j], e) \in Nat
      BY AccountTypes
    <2>4. docs[j][e] <= Handled(j, e) /\ Handled(j, e) \in Nat
      BY <2>3 DEF Handled
    <2>5. Wanted(j, e) \in Int
      <3>1. Reachable(Criteria[j]) \in SUBSET Key
        BY DEF Reachable
      <3>2. SumFunctionOnSet(Share(j, e), Reachable(Criteria[j])) \in Nat
        BY <3>1, KeySums
      <3> QED BY <3>2 DEF Wanted
    <2> QED BY <2>1, <2>2, <2>3, <2>4, <2>5
  <1>3. ASSUME NEW j \in Job
        PROVE  /\ logsExported[j] <= Indexed(j)
               /\ ~failedBulk[j] /\ counted[j] = "completed" => logsExported[j] = Indexed(j)
    <2>1. exported[j] <= Indexed(j) /\ (~failedBulk[j] => exported[j] = Indexed(j))
      BY <1>i DEF Account
    <2>2. logsExported[j] = IF counted[j] = "completed" THEN exported[j] ELSE 0
      BY DEF ReportInv, Report
    <2>3. Indexed(j) \in Nat
      BY AccountTypes
    <2> QED BY <2>1, <2>2, <2>3
  <1> QED BY <1>1, <1>2, <1>3 DEF ErrorsCounted, ExportedCounted

\* Every variable of the exporter keeps its type; that a chunk to fetch is one of
\* the listing comes from the account of the loop.
THEOREM ExporterTypes == ExporterSpec => []ExporterTypeOK
  <1>1. /\ PoolInv /\ ExporterTypeOK /\ ExportInv /\ [ExporterNext]_exportVars
          => PoolInv' /\ ExporterTypeOK' /\ ExportInv'
    BY PoolInductive, TypeStep, ExportInductive
  <1> QED BY <1>1, PoolInvInit, ExportInit, PTL DEF ExporterSpec

\* A completed job without an error has put every wanted line of every chunk it
\* can reach into OpenSearch or had it refused there, for any bucket, batch size
\* and number of attempts, with every failure, retry and cancellation.
THEOREM ErrorsAreCounted == ExporterSpec => []ErrorsCounted
  <1>1. /\ PoolInv /\ ExporterTypeOK /\ ExportInv /\ ReportInv /\ [ExporterNext]_exportVars
          => PoolInv' /\ ExporterTypeOK' /\ ExportInv' /\ ReportInv'
    BY PoolInductive, TypeStep, ExportInductive, ReportInductive
  <1>2. ExporterTypeOK /\ ExportInv /\ ReportInv => ErrorsCounted
    BY ExportHonest
  <1> QED BY <1>1, <1>2, PoolInvInit, ExportInit, ReportInit, PTL DEF ExporterSpec

\* job.LogsExported, which only the end of Run assigns, never exceeds what OpenSearch
\* holds of the job, and is exactly that once the job counts as completed, as long
\* as none of its bulk requests has failed; no such job puts a line in twice.  A
\* job that fails or is cancelled on its way goes on reporting nothing.
THEOREM ExportsAreCounted == ExporterSpec => []ExportedCounted
  <1>1. /\ PoolInv /\ ExporterTypeOK /\ ExportInv /\ ReportInv /\ [ExporterNext]_exportVars
          => PoolInv' /\ ExporterTypeOK' /\ ExportInv' /\ ReportInv'
    BY PoolInductive, TypeStep, ExportInductive, ReportInductive
  <1>2. ExporterTypeOK /\ ExportInv /\ ReportInv => ExportedCounted
    BY ExportHonest
  <1> QED BY <1>1, <1>2, PoolInvInit, ExportInit, ReportInit, PTL DEF ExporterSpec
=============================================================================
