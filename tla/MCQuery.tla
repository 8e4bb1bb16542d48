------------------------------ MODULE MCQuery ------------------------------
(* Days of ten units.  One chunk whose two label sets may be taken for one *)
(* another, one that begins before midnight and holds e1 once more, as     *)
(* after a replay, one below a service with a slash, and one with a line   *)
(* that is too long; and a request for each way to select among them.      *)
EXTENDS Query

CONSTANTS e1, e2, e3, e4, e5

FiveEntries == {e1, e2, e3, e4, e5}
ThreeEntries == {e1, e2, e3}
None == {}
LongLine == {e5}
Times == [e \in Entry |-> CASE e = e1 -> 11 [] e = e2 -> 12 [] e = e3 -> 9 [] OTHER -> 14]
Services == [e \in Entry |-> CASE e = e3 -> "API" [] e = e4 -> "web/eu" [] OTHER -> "api"]
Levels == [e \in Entry |-> IF e = e2 THEN "info" ELSE "error"]

OneLabel == [env |-> "prod,tier=web"]
TwoLabels == [env |-> "prod", tier |-> "web"]
LabelsOf == [e \in Entry |-> CASE e = e1 -> OneLabel [] e = e2 -> TwoLabels [] OTHER -> NoLabels]
Strings ==
  [ls \in {OneLabel, TwoLabels} |->
     {"env=prod,tier=web,"} \cup (IF ls = TwoLabels THEN {"tier=web,env=prod,"} ELSE {})]
LowerCase ==
  [s \in {"api", "API", "web/eu", "info", "error", "ERROR", ""} |->
     CASE s = "API" -> "api" [] s = "ERROR" -> "error" [] OTHER -> s]

Of(entries, service, min, max) ==
  [entries |-> entries, service |-> service, minTime |-> min, maxTime |-> max]
Spanning == Of({e1, e3}, "api", 9, 11)
FourBatches ==
  {Of({e1, e2}, "api", 11, 12), Spanning, Of({e4}, "web/eu", 14, 14), Of({e5}, "api", 14, 14)}
TwoBatches == {Of({e1, e2}, "api", 11, 12), Spanning}
Slashed == {"web/eu"}

Ask(start, end, selector, level, limit) ==
  [wellFormed |-> TRUE, key |-> "k", start |-> start, end |-> end,
   selector |-> selector, level |-> level, limit |-> limit]
Pair(key, value) == [kind |-> "pair", key |-> key, value |-> value]
Blank == [kind |-> "blank"]
Word == [kind |-> "word"]
Whole == Ask(10, 19, <<>>, "", 0)
OneKey == {"k"}
ManyRequests ==
  {Ask(9, 11, <<Pair("service", "web"), Blank, Pair("service", "API")>>, "", 9),
   Ask(10, 19, <<Pair("tier", "")>>, "ERROR", 0), Ask(11, 14, <<>>, "", 1),
   Ask(19, 0, <<>>, "", 1), Ask(10, 19, <<Word>>, "", 1), Ask(10, 19, <<Pair("", "x")>>, "", 1),
   [Whole EXCEPT !.wellFormed = FALSE], [Whole EXCEPT !.key = ""]}
OneRequest == {Whole}
=============================================================================
