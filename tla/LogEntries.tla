----------------------------- MODULE LogEntries -----------------------------
(***************************************************************************)
(* The unit of work of the whole system, domain.LogEntry.  Every           *)
(* submission of a line by a client is a value of its own, so a set of     *)
(* entries never hides that one of them was handled twice.                 *)
(***************************************************************************)
EXTENDS Naturals, Sequences, FiniteSets

CONSTANT Entry

\* The elements of q that are in S, in their order in q.
Only(q, S) ==
  LET upto[n \in 0 .. Len(q)] ==
        IF n = 0 THEN <<>>
        ELSE IF q[n] \in S THEN Append(upto[n - 1], q[n]) ELSE upto[n - 1]
  IN  upto[Len(q)]

\* How often x occurs in q at the positions I, and in all of it.
CountAt(q, I, x) == Cardinality({i \in I : q[i] = x})
Count(q, x) == CountAt(q, DOMAIN q, x)
=============================================================================
