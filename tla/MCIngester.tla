----------------------------- MODULE MCIngester -----------------------------
(* Small ingesters: requests whose entries differ in service and time, a   *)
(* batch limit of one or two bytes and a queue of one batch, so that       *)
(* every Add may dispatch, the queue fills and overflow goroutines start.  *)
EXTENDS Ingester

CONSTANTS e1, e2, e3, r1, r2, s1

TwoEntries == {e1, e2}
ThreeEntries == {e1, e2, e3}
None == {}
OneSub == {s1}
NoMatch == [s \in {} |-> {}]
MatchFirst == [s \in OneSub |-> {e1}]

\* e2 is older than e1, e3 newer; e2 belongs to another service.
Times == [e \in Entry |-> CASE e = e1 -> 2 [] e = e2 -> 1 [] OTHER -> 3]
Services == [e \in Entry |-> IF e = e2 THEN "web" ELSE "api"]
AllInfo == [e \in Entry |-> "info"]
SomeDebug == [e \in Entry |-> IF e = e3 THEN "debug" ELSE "info"]
UnitSize == [e \in Entry |-> 1]
\* Two entries that fill a batch of two bytes, and one that exceeds it alone.
OneOneThree == [e \in Entry |-> IF e = e3 THEN 3 ELSE 1]

TwoRequests == {r1, r2}
Singles == [r \in TwoRequests |-> IF r = r1 THEN <<e1>> ELSE <<e2>>]
\* The second request has an entry below the minimum level.
SkipOne == [r \in TwoRequests |-> IF r = r1 THEN <<e1>> ELSE <<e3, e2>>]
\* The first request has two entries, and may be overtaken between them.
PairAndOne == [r \in TwoRequests |-> IF r = r1 THEN <<e1, e2>> ELSE <<e3>>]
=============================================================================
