------------------------------- MODULE Broker -------------------------------
(***************************************************************************)
(* Live tail: the Broker of internal/ingester/broker.go, which fans every  *)
(* buffered entry out to its subscribers, and tailHandler of               *)
(* cmd/ingester/main.go, one goroutine per WebSocket connection that       *)
(* subscribes, writes what its channel yields and unsubscribes when a      *)
(* write fails.                                                            *)
(*                                                                         *)
(* A connection and its subscription are one value of Sub.  Subscribe,     *)
(* Unsubscribe and Publish hold the broker's mutex throughout, so each is  *)
(* one step.                                                               *)
(***************************************************************************)
EXTENDS LogEntries, Naturals, Sequences, Functions

CONSTANTS
  Sub,           \* tail connections
  Match,         \* Match[s]: the entries that the filter of s lets through
  SubCap,        \* capacity of a subscription's channel, 256 in the code
  Reading,       \* connections whose client reads what it is sent, while it is there;
                 \* a write to another may block for ever: it has no deadline
  Hijackable     \* connections whose ResponseWriter can be hijacked; behind AccessLog,
                 \* whose statusWriter hides http.Hijacker, there are none

ASSUME BrokerAssumption ==
  /\ Match \in [Sub -> SUBSET Entry]
  /\ SubCap \in Nat \ {0}
  /\ Hijackable \subseteq Sub
  /\ Reading \subseteq Sub

VARIABLES
  subs,          \* the broker's map of subscriptions
  ch,            \* ch[s]: the channel of s
  hand,          \* hand[s]: the entry taken from the channel and not yet written
  tailPc,        \* where the handler of s is
  client,        \* the far end of the connection of s
  got,           \* got[s]: the frames the client has received
  owed,          \* owed[s] (history): what matched since s subscribed
  missed         \* missed[s] (history): what was dropped on a full channel

brokerVars == <<subs, ch, hand, tailPc, client, got, owed, missed>>
handlerVars == <<hand, tailPc, client, got>>

BrokerTypeOK ==
  /\ subs \subseteq Sub
  /\ ch \in [Sub -> Seq(Entry)]
  /\ hand \in [Sub -> Seq(Entry)]
  /\ tailPc \in [Sub -> {"idle", "stream", "write", "leave", "refused", "done"}]
  /\ client \in [Sub -> {"none", "open", "gone"}]
  /\ got \in [Sub -> Seq(Entry)]
  /\ owed \in [Sub -> Seq(Entry)]
  /\ missed \in [Sub -> SUBSET Entry]

BrokerInit ==
  /\ subs = {}
  /\ ch = [s \in Sub |-> <<>>]
  /\ hand = [s \in Sub |-> <<>>]
  /\ tailPc = [s \in Sub |-> "idle"]
  /\ client = [s \in Sub |-> "none"]
  /\ got = [s \in Sub |-> <<>>]
  /\ owed = [s \in Sub |-> <<>>]
  /\ missed = [s \in Sub |-> {}]

----------------------------------------------------------------------------
(* The broker.                                                             *)

\* The subscriptions whose filter passes e, and those of them with no room.
Matching(e) == {s \in subs : e \in Match[s]}
Full(s) == Len(ch[s]) >= SubCap

\* Mutant: a full channel loses its oldest entry instead of the new one.
PublishDropsOldest(e) ==
  /\ ch' = [s \in Sub |-> IF s \notin Matching(e) THEN ch[s]
                          ELSE IF Full(s) THEN Append(Tail(ch[s]), e)
                          ELSE Append(ch[s], e)]
  /\ owed' = [s \in Sub |-> IF s \in Matching(e) THEN Append(owed[s], e) ELSE owed[s]]
  /\ missed' = [s \in Sub |-> IF s \in Matching(e) /\ Full(s)
                              THEN missed[s] \cup {e} ELSE missed[s]]
  /\ UNCHANGED <<subs, handlerVars>>

\* Publish: a non-blocking send to every matching subscriber.
Publish(e) ==
  /\ ch' = [s \in Sub |-> IF s \in Matching(e) /\ ~Full(s) THEN Append(ch[s], e) ELSE ch[s]]
  /\ owed' = [s \in Sub |-> IF s \in Matching(e) THEN Append(owed[s], e) ELSE owed[s]]
  /\ missed' = [s \in Sub |-> IF s \in Matching(e) /\ Full(s)
                              THEN missed[s] \cup {e} ELSE missed[s]]
  /\ UNCHANGED <<subs, handlerVars>>

Subscribe(s) == subs' = subs \cup {s} /\ UNCHANGED <<ch, owed, missed>>

\* Unsubscribe only deletes the map entry; the channel stays open.
Unsubscribe(s) == subs' = subs \ {s} /\ UNCHANGED <<ch, owed, missed>>

----------------------------------------------------------------------------
(* tailHandler.                                                            *)

\* Upgrade takes the connection over from net/http, or the request is refused.
TailUpgrade(s) ==
  /\ tailPc[s] = "idle"
  /\ \/ /\ s \in Hijackable
        /\ tailPc' = [tailPc EXCEPT ![s] = "stream"]
        /\ client' = [client EXCEPT ![s] = "open"]
        /\ Subscribe(s)
     \/ /\ s \notin Hijackable
        /\ tailPc' = [tailPc EXCEPT ![s] = "refused"]
        /\ UNCHANGED <<client, subs, ch, owed, missed>>
  /\ UNCHANGED <<hand, got>>

\* Mutant: the handler waits for a second entry before it takes the first.
TailReceiveLate(s) ==
  /\ tailPc[s] = "stream" /\ Len(ch[s]) > 1
  /\ hand' = [hand EXCEPT ![s] = <<Head(ch[s])>>]
  /\ ch' = [ch EXCEPT ![s] = Tail(ch[s])]
  /\ tailPc' = [tailPc EXCEPT ![s] = "write"]
  /\ UNCHANGED <<subs, client, got, owed, missed>>

\* The next value of `range sub.Ch`.
TailReceive(s) ==
  /\ tailPc[s] = "stream" /\ ch[s] # <<>>
  /\ hand' = [hand EXCEPT ![s] = <<Head(ch[s])>>]
  /\ ch' = [ch EXCEPT ![s] = Tail(ch[s])]
  /\ tailPc' = [tailPc EXCEPT ![s] = "write"]
  /\ UNCHANGED <<subs, client, got, owed, missed>>

\* WriteMessage returns without an error; a frame for a client that has gone reaches nobody.
TailWrite(s) ==
  /\ tailPc[s] = "write"
  /\ hand' = [hand EXCEPT ![s] = <<>>]
  /\ got' = IF client[s] = "open" THEN [got EXCEPT ![s] = @ \o hand[s]] ELSE got
  /\ tailPc' = [tailPc EXCEPT ![s] = "stream"]
  /\ UNCHANGED <<subs, ch, client, owed, missed>>

\* WriteMessage fails, which it does only once the client has gone: leave the loop.
TailWriteError(s) ==
  /\ tailPc[s] = "write" /\ client[s] = "gone"
  /\ tailPc' = [tailPc EXCEPT ![s] = "leave"]
  /\ UNCHANGED <<subs, ch, hand, client, got, owed, missed>>

\* The deferred Unsubscribe and Close.
TailLeave(s) ==
  /\ tailPc[s] = "leave"
  /\ tailPc' = [tailPc EXCEPT ![s] = "done"]
  /\ Unsubscribe(s)
  /\ UNCHANGED <<hand, client, got>>

\* The client closes or vanishes: the read pump stops reading and tells nobody.
ClientGone(s) ==
  /\ client[s] = "open"
  /\ client' = [client EXCEPT ![s] = "gone"]
  /\ UNCHANGED <<subs, ch, hand, tailPc, got, owed, missed>>

TailStep(s) ==
  TailUpgrade(s) \/ TailReceive(s) \/ TailWrite(s) \/ TailWriteError(s)
    \/ TailLeave(s) \/ ClientGone(s)

\* The process dies: every connection and every channel with it.
BrokerLost ==
  /\ subs' = {}
  /\ ch' = [s \in Sub |-> <<>>]
  /\ hand' = [s \in Sub |-> <<>>]
  /\ tailPc' = [s \in Sub |-> IF tailPc[s] = "idle" THEN "idle" ELSE "done"]
  /\ client' = [s \in Sub |-> IF client[s] = "open" THEN "gone" ELSE client[s]]
  /\ UNCHANGED <<got, owed, missed>>

----------------------------------------------------------------------------
(* The broker on its own: entries are published in any order, each at most *)
(* once while anybody who matched it is still known.                       *)

Unpublished(e) == \A s \in Sub : e \notin Range(owed[s])

BrokerNext ==
  \/ \E e \in Entry : Unpublished(e) /\ Publish(e)
  \/ \E s \in Sub : TailStep(s)

\* The handler's goroutine is scheduled, and a write returns when the client
\* reads.  Nothing is assumed of other writes, of publishers, or of anybody
\* leaving.
BrokerFairness ==
  /\ \A s \in Sub :
       WF_brokerVars(TailUpgrade(s)) /\ WF_brokerVars(TailReceive(s)) /\ WF_brokerVars(TailLeave(s))
  /\ \A s \in Reading : WF_brokerVars(TailWrite(s) \/ TailWriteError(s))

BrokerSpec == BrokerInit /\ [][BrokerNext]_brokerVars /\ BrokerFairness

----------------------------------------------------------------------------
\* A connected client sees, in the order they were published, exactly the
\* entries that matched its filter since it subscribed, less the ones dropped
\* while its channel was full: what it has, what is being written and what is
\* queued together spell that sequence.
TailFaithful ==
  \A s \in Sub :
    client[s] = "open" =>
      got[s] \o hand[s] \o ch[s] = Only(owed[s], Entry \ missed[s])

\* An entry that was not dropped reaches a client that reads, unless the client
\* leaves, and although the handlers of clients that do not read may be stuck in
\* a write for ever with their channels full: Publish waits for nobody.
TailDelivers ==
  \A s \in Reading : \A e \in Entry :
    e \in Range(owed[s]) \ missed[s]
      ~> (e \in Range(got[s]) \/ client[s] = "gone")

\* The README's "Automatic cleanup on disconnect": the subscription of a
\* client that has gone is eventually removed.
TailCleansUp == \A s \in Sub : client[s] = "gone" ~> s \notin subs
=============================================================================
