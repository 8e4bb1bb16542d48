---------------------------- MODULE BoundedPool ----------------------------
(***************************************************************************)
(* What exporter.Pool promises whoever submits jobs to it and stops it: a  *)
(* job is admitted if and only if fewer than MaxConcurrent are admitted or *)
(* active, a stopped pool closes only when no job is active, and close it  *)
(* will, for once it is stopping every active job ends.  Jobs may come     *)
(* until the process is gone, also after the pool has closed.              *)
(***************************************************************************)
EXTENDS Naturals, FiniteSets

CONSTANTS Job, MaxConcurrent

VARIABLES
  phase,         \* phase[j]: "new", "refused", "admitted", "active" or "ended"
  stage          \* "open", "stopping", "closed" or "gone"

poolVars == <<phase, stage>>

Holding == {j \in Job : phase[j] \in {"admitted", "active"}}

PoolInit == phase = [j \in Job |-> "new"] /\ stage = "open"

Move(j, from, to) ==
  /\ stage # "gone" /\ phase[j] = from
  /\ phase' = [phase EXCEPT ![j] = to]
  /\ UNCHANGED stage

Admit(j) == Cardinality(Holding) < MaxConcurrent /\ Move(j, "new", "admitted")
Refuse(j) == Cardinality(Holding) = MaxConcurrent /\ Move(j, "new", "refused")
Begin(j) == Move(j, "admitted", "active")
End(j) == Move(j, "active", "ended")

StopAsked == stage = "open" /\ stage' = "stopping" /\ UNCHANGED phase

Close ==
  /\ stage = "stopping" /\ \A j \in Job : phase[j] # "active"
  /\ stage' = "closed"
  /\ UNCHANGED phase

Vanish == stage = "closed" /\ stage' = "gone" /\ UNCHANGED phase

PoolNext ==
  \/ \E j \in Job : Admit(j) \/ Refuse(j) \/ Begin(j) \/ End(j)
  \/ StopAsked \/ Close \/ Vanish

PoolSafety == PoolInit /\ [][PoolNext]_poolVars

PoolSpec ==
  /\ PoolSafety
  /\ \A j \in Job : WF_poolVars(stage # "open" /\ End(j))
  /\ WF_poolVars(Close) /\ WF_poolVars(Vanish)
=============================================================================
