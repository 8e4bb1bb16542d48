------------------------------- MODULE Query -------------------------------
(***************************************************************************)
(* GET /query: handleQuery of cmd/exporter/main.go behind the key check,   *)
(* ParseLabelSelector, Engine.Run of internal/query and Store.Query of     *)
(* internal/index.  A query lists the index files of each day of its       *)
(* range, reads them one by one, keeps those that may hold a wanted entry, *)
(* and fetches and filters their chunks until it has enough.               *)
(*                                                                         *)
(* The bucket it reads is being written all the while by the flushes of an *)
(* ingester, a process of its own that may die; what it flushes is a       *)
(* constant, Batches, restricted to what Ingester's BatchesDescribed says  *)
(* of every batch.  Queries share nothing, so one of them is enough.       *)
(***************************************************************************)
EXTENDS Flusher, Selection, Sequences, SequencesExt

CONSTANTS
  Batches,        \* the batches the ingester will flush, each once
  Nested,         \* the services with a slash, whose index files indexKey files
                  \* below the rest of the name and not below the day
  DedupKeys,      \* DedupKeys[ls]: the strings collectLabelSets may build for ls,
                  \* one for each order in which a Go map may be walked
  Level,          \* Level[e]
  APIKeys,        \* the accepted keys; none when auth is disabled
  Requests,       \* the requests a client may make
  ReadFaults,     \* TRUE: listing or fetching may fail
  DefaultLimit,   \* 200 in the code
  MaxLimit        \* 5000 in the code

ASSUME QueryAssumption ==
  /\ Batches \subseteq Batch
  /\ \A b \in Batches : Describes(b) /\ IsFiniteSet(b.entries)
  /\ \A r \in Requests : r.start \in Nat /\ r.end \in Nat /\ r.limit \in Nat
  /\ ReadFaults \in BOOLEAN
  /\ MaxLimit \in Nat /\ DefaultLimit \in 1 .. MaxLimit

VARIABLES
  unshipped,      \* the batches whose flush has not begun
  labelSets,      \* labelSets[b]: chunk.LabelSets of the batches flushed
  pc,             \* where the query is
  req,            \* query.Request
  day,            \* the day to list next
  toRead,         \* the index files of the last day listed that are still to be read
  found,          \* Store.Query's results
  next,           \* the position in found
  fetched,        \* stats.ChunksFetched
  hits,           \* Engine.Run's entries
  gone,           \* the client has closed its connection, which cancels the context
  known,          \* (history) the index files there were when the request came
  unread          \* (history) the index files and chunks that S3 failed to return

readerVars == <<pc, req, day, toRead, found, next, fetched, hits, gone, known, unread>>
queryVars == <<flusherVars, unshipped, labelSets, readerVars>>

LabelSet == {Labels[e] : e \in Entry}

QueryTypeOK ==
  /\ FlusherTypeOK
  /\ unshipped \subseteq Batches
  /\ labelSets \in [Batches -> SUBSET LabelSet]
  /\ pc \in {"idle", "index", "fetch", "done", "refused", "failed"}
  /\ toRead \subseteq Batches
  /\ found \in Seq(Batches)
  /\ next \in 1 .. Len(found) + 1
  /\ fetched \in 0 .. next - 1
  /\ hits \in Seq(Entry)
  /\ gone \in BOOLEAN
  /\ known \subseteq Batches
  /\ unread \subseteq Batches

NoLabels == [name \in {} |-> ""]
NoRequest == [start |-> 0, end |-> 0, service |-> "", labels |-> NoLabels,
              level |-> "", limit |-> DefaultLimit]

QueryInit ==
  /\ FlusherInit
  /\ unshipped = Batches
  /\ labelSets = [b \in Batches |-> {}]
  /\ pc = "idle" /\ req = NoRequest /\ day = 0
  /\ toRead = {} /\ found = <<>> /\ next = 1 /\ fetched = 0 /\ hits = <<>>
  /\ gone = FALSE
  /\ known = {} /\ unread = {}

----------------------------------------------------------------------------
(* The ingester's flushes.                                                 *)

\* One label set for each string met, that of the entry it was first met for; the
\* string is built anew for every entry.  Entries without labels leave no set, and
\* sets that yield the same string leave one.
collectLabelSets(entries) ==
  LET labelled == {e \in entries : Labels[e] # NoLabels}
      strings == {s \in [labelled -> UNION {DedupKeys[Labels[e]] : e \in labelled}] :
                    \A e \in labelled : s[e] \in DedupKeys[Labels[e]]}
      Firsts(s) == {F \in SUBSET labelled : /\ {s[e] : e \in F} = Range(s)
                                           /\ \A d, e \in F : s[d] = s[e] => d = e}
  IN  {{Labels[e] : e \in F} : F \in UNION {Firsts(s) : s \in strings}}

\* executeFlush builds the chunk and calls the flusher.
StartFlush(b) ==
  /\ b \in unshipped
  /\ unshipped' = unshipped \ {b}
  /\ flushing' = flushing \cup {NewFlush(b, TRUE)}
  /\ \E C \in collectLabelSets(b.entries) : labelSets' = [labelSets EXCEPT ![b] = C]
  /\ UNCHANGED <<chunks, indexes, dropped, readerVars>>

ContinueFlush ==
  /\ \E f \in flushing : FlushStep(f)
  /\ UNCHANGED <<unshipped, labelSets, readerVars>>

IngesterDies ==
  /\ flushing # {} /\ FlushesLost
  /\ UNCHANGED <<unshipped, labelSets, readerVars>>

----------------------------------------------------------------------------
(* The request.  A selector is the sequence of what stands between its     *)
(* commas: a blank, a word without "=", or a key and a value.              *)

Malformed(selector) ==
  \E i \in DOMAIN selector :
    \/ selector[i].kind = "word"
    \/ selector[i].kind = "pair" /\ selector[i].key = ""

\* The map of the pairs, of which later ones overwrite earlier ones.
ParseLabelSelector(selector) ==
  LET pairs == SelectSeq(selector, LAMBDA p : p.kind = "pair")
      LastOf(key) == CHOOSE i \in DOMAIN pairs :
                     /\ pairs[i].key = key
                     /\ \A k \in DOMAIN pairs : pairs[k].key = key => k <= i
  IN  [key \in {pairs[i].key : i \in DOMAIN pairs} |-> pairs[LastOf(key)].value]

Authorized(r) == APIKeys = {} \/ r.key \in APIKeys

\* What handleQuery makes of the parameters; limit is the number its digits spell.
QueryRequest(r) ==
  LET labels == ParseLabelSelector(r.selector)
  IN  [start |-> r.start, end |-> r.end, level |-> r.level,
       service |-> Label(labels, "service"),
       labels |-> Restrict(labels, DOMAIN labels \ {"service"}),
       limit |-> IF r.limit \in 1 .. MaxLimit THEN r.limit ELSE DefaultLimit]

\* A request comes; wellFormed stands for its method and its two times.
Receive(r) ==
  /\ pc = "idle"
  /\ \/ /\ Authorized(r) /\ r.wellFormed /\ ~Malformed(r.selector)
        /\ pc' = "index"
        /\ req' = QueryRequest(r)
        /\ day' = Day(r.start)
        /\ known' = indexes
     \/ /\ ~Authorized(r) \/ ~r.wellFormed \/ Malformed(r.selector)
        /\ pc' = "refused"
        /\ UNCHANGED <<req, day, known>>
  /\ UNCHANGED <<flusherVars, unshipped, labelSets, toRead, found, next, fetched, hits,
                 gone, unread>>

ClientGone ==
  /\ pc \in {"index", "fetch"} /\ ~gone /\ gone' = TRUE
  /\ UNCHANGED <<flusherVars, unshipped, labelSets, pc, req, day, toRead, found, next,
                 fetched, hits, known, unread>>

----------------------------------------------------------------------------
(* Store.Query.                                                            *)

\* A call to S3 may fail, and does not succeed for ever once the client is gone.
CallFails == ReadFaults \/ gone

\* indexKey puts the index file of b directly below day d.
FiledUnder(b, d) == Day(b.minTime) = d /\ b.service \notin Nested

\* The index files that the prefix of a day lists.
Below(d) == {b \in indexes : FiledUnder(b, d)}

\* dayPrefixes: one listing for each day from that of start to that of end.
ListDay ==
  /\ pc = "index" /\ toRead = {} /\ day <= Day(req.end)
  /\ toRead' = Below(day)
  /\ day' = day + 1
  /\ UNCHANGED <<flusherVars, unshipped, labelSets, pc, req, found, next, fetched, hits,
                 gone, known, unread>>

\* 500.
ListFails ==
  /\ pc = "index" /\ toRead = {} /\ day <= Day(req.end) /\ CallFails
  /\ pc' = "failed"
  /\ UNCHANGED <<flusherVars, unshipped, labelSets, req, day, toRead, found, next,
                 fetched, hits, gone, known, unread>>

timeOverlaps(min, max, start, end) == max >= start /\ min <= end

MatchLabels(sets, wanted) == wanted = NoLabels \/ \E ls \in sets : Carries(ls, wanted)

MayHold(b, q) ==
  /\ timeOverlaps(b.minTime, b.maxTime, q.start, q.end)
  /\ q.service # "" => EqualFold(b.service, q.service)
  /\ MatchLabels(labelSets[b], q.labels)

\* Files come in the order of their names, which the model leaves open.
ReadIndex(b) ==
  /\ pc = "index" /\ b \in toRead
  /\ toRead' = toRead \ {b}
  /\ found' = IF MayHold(b, req) THEN Append(found, b) ELSE found
  /\ UNCHANGED <<flusherVars, unshipped, labelSets, pc, req, day, next, fetched, hits,
                 gone, known, unread>>

\* Mutant: after an index file that cannot be read its day is listed again.
ReadIndexFailsRelists(b) ==
  /\ pc = "index" /\ b \in toRead /\ CallFails
  /\ toRead' = {} /\ day' = day - 1
  /\ unread' = unread \cup {b}
  /\ UNCHANGED <<flusherVars, unshipped, labelSets, pc, req, found, next, fetched, hits,
                 gone, known>>

\* Mutant: and the whole query begins again.
ReadIndexFailsRestarts(b) ==
  /\ pc = "index" /\ b \in toRead /\ CallFails
  /\ toRead' = {} /\ day' = Day(req.start) /\ found' = <<>>
  /\ unread' = unread \cup {b}
  /\ UNCHANGED <<flusherVars, unshipped, labelSets, pc, req, next, fetched, hits,
                 gone, known>>

\* Logged, and the file is passed over.
ReadIndexFails(b) ==
  /\ pc = "index" /\ b \in toRead /\ CallFails
  /\ toRead' = toRead \ {b}
  /\ unread' = unread \cup {b}
  /\ UNCHANGED <<flusherVars, unshipped, labelSets, pc, req, day, found, next, fetched,
                 hits, gone, known>>

IndexDone ==
  /\ pc = "index" /\ toRead = {} /\ day > Day(req.end)
  /\ pc' = "fetch"
  /\ UNCHANGED <<flusherVars, unshipped, labelSets, req, day, toRead, found, next,
                 fetched, hits, gone, known, unread>>

----------------------------------------------------------------------------
(* Engine.Run and fetchAndFilter.                                          *)

Wants(e, q) == Selects(e, q) /\ (q.level # "" => EqualFold(Level[e], q.level))

\* Another chunk is due.
FetchDue == pc = "fetch" /\ next <= Len(found) /\ Len(hits) < req.limit

FetchChunk ==
  /\ FetchDue
  /\ found[next] \in chunks /\ Scannable(found[next].entries)
  /\ \E s \in SetToSeqs({e \in found[next].entries : Wants(e, req)}) : hits' = hits \o s
  /\ fetched' = fetched + 1
  /\ next' = next + 1
  /\ UNCHANGED <<flusherVars, unshipped, labelSets, pc, req, day, toRead, found, gone,
                 known, unread>>

\* Mutant: a chunk counts as fetched before the call's error is looked at.
FetchFailsCounted ==
  /\ FetchDue
  /\ \/ CallFails /\ unread' = unread \cup {found[next]}
     \/ /\ found[next] \notin chunks \/ ~Scannable(found[next].entries)
        /\ UNCHANGED unread
  /\ fetched' = fetched + 1
  /\ next' = next + 1
  /\ UNCHANGED <<flusherVars, unshipped, labelSets, pc, req, day, toRead, found, hits,
                 gone, known>>

\* Mutant: the chunk is counted and stays the next one.
FetchFailsInPlace ==
  /\ FetchDue /\ CallFails
  /\ unread' = unread \cup {found[next]}
  /\ fetched' = fetched + 1
  /\ UNCHANGED <<flusherVars, unshipped, labelSets, pc, req, day, toRead, found, next,
                 hits, gone, known>>

\* The chunk cannot be had, is not there or has a line that is too long: logged,
\* and passed over with whatever was found in it.
FetchFails ==
  /\ FetchDue
  /\ \/ CallFails /\ unread' = unread \cup {found[next]}
     \/ /\ found[next] \notin chunks \/ ~Scannable(found[next].entries)
        /\ UNCHANGED unread
  /\ next' = next + 1
  /\ UNCHANGED <<flusherVars, unshipped, labelSets, pc, req, day, toRead, found, fetched,
                 hits, gone, known>>

\* ctx.Err at the top of the loop.
RunCancelled ==
  /\ FetchDue /\ gone
  /\ pc' = "failed"
  /\ UNCHANGED <<flusherVars, unshipped, labelSets, req, day, toRead, found, next,
                 fetched, hits, gone, known, unread>>

\* Enough, or no more chunks: cut to the limit and answer.
Respond ==
  /\ pc = "fetch" /\ ~FetchDue
  /\ pc' = "done"
  /\ hits' = IF Len(hits) > req.limit THEN SubSeq(hits, 1, req.limit) ELSE hits
  /\ UNCHANGED <<flusherVars, unshipped, labelSets, req, day, toRead, found, next,
                 fetched, gone, known, unread>>

RunQuery ==
  \/ ListDay \/ ListFails
  \/ \E b \in toRead : ReadIndex(b) \/ ReadIndexFails(b)
  \/ IndexDone
  \/ FetchChunk \/ FetchFails \/ RunCancelled \/ Respond

QueryNext ==
  \/ \E b \in unshipped : StartFlush(b)
  \/ ContinueFlush \/ IngesterDies
  \/ \E r \in Requests : Receive(r)
  \/ ClientGone
  \/ RunQuery

\* The calls to S3 carry the request's context and no deadline: they are bound
\* to return once the client is gone, and not before.
QuerySpec == QueryInit /\ [][QueryNext]_queryVars /\ WF_queryVars(gone /\ RunQuery)

----------------------------------------------------------------------------
(* Properties.                                                             *)

Answer == ToSet(hits)

\* The copies of e in the answer.
CopiesOf(e) == {i \in DOMAIN hits : hits[i] = e}

\* An answer holds what was asked for, no more of it than the limit, and an
\* entry only as often as there are chunks with it in the bucket, whatever is
\* flushed, listed twice or fails while the query runs.
QuerySound ==
  pc = "done" =>
    /\ Len(hits) <= req.limit
    /\ \A e \in Answer :
         /\ Wants(e, req)
         /\ Cardinality(CopiesOf(e)) <= Cardinality({b \in chunks : e \in b.entries})

\* The chunks whose index Store.Query never sees, or drops although it holds a
\* wanted entry e: filed under an earlier day than that of start, below a
\* service with a slash, under the service of another entry, or with label sets
\* that leave e's out.
Unfindable(b, e) ==
  \/ Day(b.minTime) < Day(req.start)
  \/ b.service \in Nested
  \/ req.service # "" /\ ~EqualFold(b.service, req.service)
  \/ req.labels # NoLabels /\ Labels[e] \notin labelSets[b]

\* An answer below its limit holds every wanted entry of every chunk that was
\* indexed when the request came, unless the chunk is unfindable in one of the
\* four ways, has a line too long to scan, or S3 failed to return it or its
\* index: however the bucket grows between listing, reading and fetching, an
\* index that is read leads to a chunk that is there.
QueryComplete ==
  pc = "done" /\ Len(hits) < req.limit =>
    \A b \in known : \A e \in b.entries :
      \/ ~Wants(e, req) \/ e \in Answer
      \/ Unfindable(b, e) \/ ~Scannable(b.entries) \/ b \in unread

\* The stats admit what is missing: when chunks_fetched equals chunks_matched,
\* an answer below its limit has every wanted entry of every chunk matched.
StatsAdmitGaps ==
  pc = "done" /\ Len(hits) < req.limit /\ fetched = Len(found) =>
    \A b \in Range(found) : \A e \in b.entries : Wants(e, req) => e \in Answer

\* A query whose client has gone ends, through failing reads that it passes over.
AbandonedQueryEnds == gone ~> pc \in {"done", "refused", "failed"}

----------------------------------------------------------------------------
(* What the documentation says, and the code does not do.                  *)

\* index.Store.Query "returns all ChunkIndex entries that overlap the given time
\* range and match the label selector".
QueryCoversRange ==
  pc \in {"fetch", "done"} =>
    \A b \in known \ unread : MayHold(b, req) => b \in Range(found)
=============================================================================
