----------------------------- MODULE MCExporter -----------------------------
(* A bucket of four chunks over three days and two services; batches of    *)
(* two, so that a batch spans chunks and the last one is short; one slot,  *)
(* so that the second job finds the pool full or follows the first.        *)
EXTENDS Exporter

CONSTANTS e1, e2, e3, e4, j1, j2, k1, k2, k3, k4

FourEntries == {e1, e2, e3, e4}
LongLine == {e4}
OneJob == {j1}
TwoJobs == {j1, j2}

Chunk(service, time, lines) == [service |-> service, minTime |-> time, lines |-> lines]

\* Days are ten units long.  k1 begins before midnight and has a line too long to
\* scan; k3 holds e1 once more, as after a replay, and an entry of another service.
FourChunks ==
  [k \in {k1, k2, k3, k4} |->
     CASE k = k1 -> Chunk("api", 9, <<e4, e1>>)
       [] k = k2 -> Chunk("api", 11, <<e1>>)
       [] k = k3 -> Chunk("api", 11, <<e2, e1>>)
       [] k = k4 -> Chunk("api", 20, <<e3>>)]
Times == [e \in Entry |-> CASE e = e1 -> 11 [] e = e2 -> 12 [] e = e3 -> 20 [] OTHER -> 9]
Services == [e \in Entry |-> IF e = e2 THEN "web" ELSE "API"]
Env == [e \in Entry |-> [env |-> "prod"]]
LowerCase == [s \in {"api", "API", "web", ""} |-> IF s = "API" THEN "api" ELSE s]

Seeks(service, start, end, labels) ==
  [service |-> service, start |-> start, end |-> end, labels |-> labels]
\* The second job meets the long line and no other.
TwoSelections ==
  [j \in Job |-> IF j = j1 THEN Seeks("api", 10, 20, [env |-> "prod"])
                           ELSE Seeks("api", 1, 9, [name \in {} |-> ""])]
=============================================================================
