---------------------------- MODULE DurableLog -----------------------------
(***************************************************************************)
(* What the ingester with a write-ahead log promises its clients: an entry *)
(* that was accepted is held, in memory or in the log file, until it is    *)
(* stored in the bucket, and what is stored stays.  A crash alone loses    *)
(* nothing.  Only a process that has been told to stop may lose entries it *)
(* holds, while it stops or in the step in which it ends.                  *)
(***************************************************************************)
CONSTANT Entry

VARIABLES
  fate,          \* fate[e]: "new", "held", "stored" or "lost"
  stopping       \* the process has been told to stop and has not ended

durableVars == <<fate, stopping>>

DurableInit == fate = [e \in Entry |-> "new"] /\ stopping = FALSE

Held == {e \in Entry : fate[e] = "held"}

Become(S, what) == fate' = [e \in Entry |-> IF e \in S THEN what ELSE fate[e]]

Accept(e) == fate[e] = "new" /\ Become({e}, "held") /\ UNCHANGED stopping

Store(S) == Become(S, "stored") /\ UNCHANGED stopping

Lose(S) == stopping /\ Become(S, "lost") /\ UNCHANGED stopping

StopAsked == ~stopping /\ stopping' = TRUE /\ UNCHANGED fate

End(S) == stopping /\ stopping' = FALSE /\ Become(S, "lost")

DurableNext ==
  \/ \E e \in Entry : Accept(e)
  \/ \E S \in SUBSET Held : Store(S) \/ Lose(S) \/ End(S)
  \/ StopAsked

DurableSpec == DurableInit /\ [][DurableNext]_durableVars
=============================================================================
