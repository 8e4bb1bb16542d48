----------------------------- MODULE Selection -----------------------------
(***************************************************************************)
(* How the two readers of the bucket select: the rule by which an entry    *)
(* is wanted, shared by exporter.matchesJob and query.fetchAndFilter, and  *)
(* the days that chunks and index files are filed under.                   *)
(***************************************************************************)
EXTENDS EntryFields, Naturals

CONSTANTS
  Labels,        \* Labels[e]: a function from the names of e's labels
  Lower,         \* Lower[s]: the case folding of a name
  DayLength,     \* in the units of Timestamp
  Oversize       \* the entries whose line does not fit the scanner's buffer

ASSUME SelectionAssumption ==
  /\ Timestamp \in [Entry -> Nat]
  /\ DayLength \in Nat \ {0}
  /\ Oversize \subseteq Entry

EqualFold(s, t) == Lower[s] = Lower[t]

\* ls[name] of a Go map: a missing label reads as "".
Label(ls, name) == IF name \in DOMAIN ls THEN ls[name] ELSE ""

Carries(ls, wanted) == \A name \in DOMAIN wanted : Label(ls, name) = wanted[name]

\* c has a service, a start, an end and labels.
Selects(e, c) ==
  /\ c.start <= Timestamp[e] /\ Timestamp[e] <= c.end
  /\ c.service # "" => EqualFold(Service[e], c.service)
  /\ Carries(Labels[e], c.labels)

Day(t) == t \div DayLength

\* The scanner gives up at a line that is too long, and with it the chunk.
Scannable(entries) == entries \cap Oversize = {}
=============================================================================
