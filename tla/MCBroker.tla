------------------------------ MODULE MCBroker ------------------------------
(* Two tail connections with overlapping filters and a third that cannot   *)
(* be upgraded; channels of one entry, so that they fill and entries are   *)
(* dropped.                                                                *)
EXTENDS Broker

CONSTANTS e1, e2, e3, s1, s2, s3

ThreeEntries == {e1, e2, e3}
OneSub == {s1}
TwoSubs == {s1, s2}
ThreeSubs == {s1, s2, s3}
Filters == [s \in Sub |-> IF s = s1 THEN Entry ELSE {e2, e3}]
=============================================================================
