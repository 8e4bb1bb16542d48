---------------------------- MODULE QueryProofs ----------------------------
(***************************************************************************)
(* Queries over a bucket that is being written: for any batches, requests  *)
(* and limits, an answer is sound, complete but for the named gaps, and    *)
(* its stats admit what was skipped.                                       *)
(***************************************************************************)
EXTENDS Query, FiniteSetTheorems, TLAPS

\* A batch is indexed after its chunk is stored, and stored after its flush has
\* begun, which happens once: what the index says of it is final.
ShipInv ==
  /\ \A f \in flushing : /\ f.batch \in Batches \ unshipped
                         /\ f.step = "index" => f.batch \in chunks
  /\ indexes \subseteq chunks /\ chunks \subseteq Batches \ unshipped
  /\ IsFiniteSet(chunks)

\* Nothing has been read for a request that has not come.
Untouched == known = {} /\ toRead = {} /\ found = <<>> /\ next = 1 /\ fetched = 0 /\ hits = <<>>

\* Days are listed in order, so no index file is read for two of them.
IndexInv ==
  /\ req.start \in Nat /\ req.end \in Nat /\ req.limit \in Nat /\ day \in Nat
  /\ known \subseteq indexes /\ toRead \subseteq indexes /\ Range(found) \subseteq indexes
  /\ pc = "idle" => Untouched
  /\ pc = "index" => next = 1 /\ fetched = 0 /\ hits = <<>>
  /\ pc \in {"fetch", "done"} => toRead = {} /\ day > Day(req.end)
  /\ \A b \in toRead : Day(b.minTime) = day - 1
  /\ \A b \in Range(found) : Day(b.minTime) < day /\ b \notin toRead
  /\ IsInjective(found)

\* An index file that was there when the request came is still to be listed or
\* read, was found or could not be read, or is one that the query passes over.
CoverInv ==
  \A b \in known :
    \/ Day(b.minTime) >= day \/ b \in toRead \/ b \in Range(found) \/ b \in unread
    \/ Day(b.minTime) < Day(req.start) \/ b.service \in Nested \/ ~MayHold(b, req)

\* Of a chunk that was passed the answer has all that is wanted, unless it could
\* not be had, and then the stats show it.
FetchInv ==
  pc = "fetch" \/ (pc = "done" /\ Len(hits) < req.limit) =>
    /\ pc = "done" => next = Len(found) + 1
    /\ \A i \in 1 .. next - 1 :
         \/ \A e \in found[i].entries : Wants(e, req) => e \in Answer
         \/ fetched < next - 1 /\ (found[i] \in unread \/ ~Scannable(found[i].entries))

\* o tells from which chunk of found each entry of the answer came.
Origin(o) ==
  /\ \A i \in DOMAIN hits : o[i] < next /\ hits[i] \in found[o[i]].entries
  /\ \A i, j \in DOMAIN hits : o[i] = o[j] /\ hits[i] = hits[j] => i = j

OriginInv ==
  /\ \A i \in DOMAIN hits : Wants(hits[i], req)
  /\ \E o \in [DOMAIN hits -> DOMAIN found] : Origin(o)
  /\ pc = "done" => Len(hits) <= req.limit

QueryInv == QueryTypeOK /\ ShipInv /\ IndexInv /\ CoverInv /\ FetchInv /\ OriginInv

----------------------------------------------------------------------------
(* Days and sequences.                                                     *)

\* Later days begin later.
LEMMA DayOrder ==
  ASSUME NEW s \in Nat, NEW t \in Nat, s <= t
  PROVE  Day(s) \in Nat /\ Day(t) \in Nat /\ Day(s) <= Day(t)
  BY SelectionAssumption DEF Day

\* The range of a sequence to which something is appended.
LEMMA FoundAppend ==
  ASSUME NEW S, NEW s \in Seq(S), NEW x \in S, x \notin Range(s), IsInjective(s)
  PROVE  /\ Append(s, x) \in Seq(S) /\ Len(Append(s, x)) = Len(s) + 1
         /\ Range(Append(s, x)) = Range(s) \cup {x}
         /\ IsInjective(Append(s, x))
  <1>1. /\ Append(s, x) \in Seq(S) /\ Len(Append(s, x)) = Len(s) + 1
        /\ DOMAIN Append(s, x) = 1 .. Len(s) + 1
        /\ \A i \in 1 .. Len(s) : Append(s, x)[i] = s[i]
        /\ Append(s, x)[Len(s) + 1] = x
        /\ DOMAIN s = 1 .. Len(s) /\ Len(s) \in Nat
    OBVIOUS
  <1>2. \A i \in 1 .. Len(s) : s[i] # x
    BY <1>1 DEF Range
  <1> QED BY <1>1, <1>2 DEF Range, IsInjective

\* SetToSeqs enumerates a finite set.
LEMMA SeqsEnumerate ==
  ASSUME NEW S, IsFiniteSet(S), NEW s \in SetToSeqs(S)
  PROVE  s \in Seq(S) /\ Range(s) = S /\ IsInjective(s)
  <1> DEFINE n == Cardinality(S)
  <1>1. n \in Nat
    BY FS_CardinalityType
  <1>2. s \in [1 .. n -> S] /\ \A i, j \in 1 .. n : i # j => s[i] # s[j]
    BY DEF SetToSeqs
  <1>3. s \in Injection(1 .. n, S)
    BY <1>2 DEF Injection, IsInjective
  <1>4. Cardinality(1 .. n) = n
    BY <1>1, FS_Interval
  <1>5. s \in Surjection(1 .. n, S)
    BY <1>3, <1>4, FS_Injection
  <1> HIDE DEF n
  <1>6. s \in Seq(S) /\ DOMAIN s = 1 .. n
    BY <1>1, <1>2
  <1> QED BY <1>2, <1>5, <1>6 DEF Surjection, Range, IsInjective

----------------------------------------------------------------------------
(* The two sides: the flushes, which share nothing with the query but the  *)
(* bucket, and the query, which only reads it.                             *)

writerVars == <<flusherVars, unshipped, labelSets>>

ReaderStep == (\E r \in Requests : Receive(r)) \/ ClientGone \/ RunQuery

LEMMA Sides ==
  ASSUME [QueryNext]_queryVars
  PROVE  \/ UNCHANGED writerVars /\ ReaderStep
         \/ /\ UNCHANGED readerVars
            /\ \/ \E b \in unshipped : StartFlush(b)
               \/ ContinueFlush \/ IngesterDies \/ UNCHANGED queryVars
  <1>1. ASSUME NEW b, StartFlush(b) PROVE UNCHANGED readerVars
    BY <1>1 DEF StartFlush
  <1>2. CASE ContinueFlush \/ IngesterDies
    BY <1>2 DEF ContinueFlush, IngesterDies
  <1>3. CASE UNCHANGED queryVars
    BY <1>3 DEF queryVars
  <1>4. ASSUME NEW r, Receive(r) PROVE UNCHANGED writerVars
    BY <1>4 DEF Receive, writerVars
  <1>5. CASE ClientGone
    BY <1>5 DEF ClientGone, writerVars, ReaderStep
  <1>6. ASSUME NEW b, ReadIndex(b) \/ ReadIndexFails(b) PROVE UNCHANGED writerVars
    BY <1>6 DEF ReadIndex, ReadIndexFails, writerVars
  <1>7. CASE ListDay \/ ListFails \/ IndexDone
    BY <1>7 DEF ListDay, ListFails, IndexDone, writerVars, ReaderStep, RunQuery
  <1>8. CASE FetchChunk \/ FetchFails \/ RunCancelled \/ Respond
    BY <1>8 DEF FetchChunk, FetchFails, RunCancelled, Respond, writerVars, ReaderStep, RunQuery
  <1>9. CASE RunQuery
    BY <1>6, <1>7, <1>8, <1>9 DEF RunQuery, ReaderStep
  <1> QED BY <1>1, <1>2, <1>3, <1>4, <1>5, <1>9 DEF QueryNext, ReaderStep

\* The bucket's part of the type.
WriterTypeOK ==
  FlusherTypeOK /\ unshipped \subseteq Batches /\ labelSets \in [Batches -> SUBSET LabelSet]

\* What is in the bucket stays there, and what its index files say does not change.
Final ==
  /\ chunks \subseteq chunks' /\ indexes \subseteq indexes'
  /\ \A b \in indexes : labelSets'[b] = labelSets[b]

\* A flush keeps all of this.
LEMMA FlushShips ==
  ASSUME WriterTypeOK, ShipInv, NEW f \in flushing, FlushStep(f),
         UNCHANGED <<unshipped, labelSets>>
  PROVE  WriterTypeOK' /\ ShipInv' /\ Final
  <1>1. /\ f \in Flush /\ f.batch \in Batch /\ f.batch \in Batches \ unshipped
        /\ f.batch.entries \subseteq Entry
    BY DEF WriterTypeOK, FlusherTypeOK, ShipInv, Flush, Batch
  <1>2. \A g \in flushing : g \in Flush
    BY DEF WriterTypeOK, FlusherTypeOK
  <1>3. CASE PutOK(f)
    <2> DEFINE g == [f EXCEPT !.step = "index"]
    <2>1. g \in Flush /\ g.batch = f.batch /\ g.step = "index"
      BY <1>1 DEF Flush
    <2>2. flushing' = (flushing \ {f}) \cup {g} /\ chunks' = chunks \cup {f.batch}
      BY <1>3 DEF PutOK
    <2>3. IsFiniteSet(chunks')
      BY <2>2, FS_AddElement DEF ShipInv
    <2> HIDE DEF g
    <2>4. WriterTypeOK'
      BY <1>1, <1>3, <2>1, <2>2 DEF PutOK, WriterTypeOK, FlusherTypeOK
    <2>5. ShipInv'
      BY <1>1, <1>3, <2>1, <2>2, <2>3 DEF PutOK, ShipInv
    <2> QED BY <1>3, <2>2, <2>4, <2>5 DEF PutOK, Final
  <1>4. CASE PutError(f)
    <2> DEFINE g == [f EXCEPT !.attempt = @ + 1]
    <2>1. g \in Flush /\ g.batch = f.batch /\ g.step = f.step
      BY <1>1 DEF Flush
    <2>2. /\ flushing' = (flushing \ {f}) \cup {g} \/ flushing' = flushing \ {f}
          /\ chunks' = chunks \/ chunks' = chunks \cup {f.batch}
          /\ dropped' \subseteq dropped \cup f.batch.entries
          /\ indexes' = indexes /\ f.step = "put"
      BY <1>4 DEF PutError
    <2>3. IsFiniteSet(chunks')
      BY <2>2, FS_AddElement DEF ShipInv
    <2> HIDE DEF g
    <2>4. WriterTypeOK'
      BY <1>1, <2>1, <2>2 DEF WriterTypeOK, FlusherTypeOK
    <2>5. ShipInv'
      BY <1>1, <2>1, <2>2, <2>3 DEF ShipInv
    <2> QED BY <2>2, <2>4, <2>5 DEF Final
  <1>5. CASE IndexWrite(f)
    <2>1. /\ flushing' = flushing \ {f} /\ f.batch \in chunks /\ UNCHANGED <<chunks, dropped>>
          /\ indexes' = indexes \/ indexes' = indexes \cup {f.batch}
      BY <1>5 DEF IndexWrite, ShipInv
    <2>2. WriterTypeOK'
      BY <1>1, <2>1 DEF WriterTypeOK, FlusherTypeOK
    <2> QED BY <1>1, <2>1, <2>2 DEF ShipInv, Final
  <1> QED BY <1>3, <1>4, <1>5 DEF FlushStep

LEMMA ShipInductive ==
  ASSUME QueryTypeOK, ShipInv, [QueryNext]_queryVars
  PROVE  WriterTypeOK' /\ ShipInv' /\ Final
  <1>1. WriterTypeOK
    BY DEF QueryTypeOK, WriterTypeOK
  <1>2. ASSUME NEW b \in unshipped, StartFlush(b) PROVE WriterTypeOK' /\ ShipInv' /\ Final
    <2> DEFINE f == NewFlush(b, TRUE)
    <2>1. b \in Batches /\ b \in Batch
      BY <1>1, QueryAssumption DEF WriterTypeOK
    <2>2. f \in Flush /\ f.batch = b /\ f.step = "put"
      BY <2>1 DEF NewFlush, Flush
    <2>3. /\ flushing' = flushing \cup {f} /\ unshipped' = unshipped \ {b}
          /\ UNCHANGED <<chunks, indexes, dropped>>
      BY <1>2 DEF StartFlush
    <2>4. PICK C \in collectLabelSets(b.entries) : labelSets' = [labelSets EXCEPT ![b] = C]
      BY <1>2 DEF StartFlush
    <2>5. C \subseteq LabelSet
      <3>1. \E F \in SUBSET b.entries : C = {Labels[e] : e \in F}
        BY <2>4, Zenon DEF collectLabelSets
      <3> QED BY <2>1, <3>1 DEF Batch, LabelSet
    <2>6. b \notin indexes
      BY DEF ShipInv
    <2> HIDE DEF f
    <2>7. labelSets' \in [Batches -> SUBSET LabelSet]
      BY <1>1, <2>4, <2>5 DEF WriterTypeOK
    <2>8. WriterTypeOK'
      BY <1>1, <2>2, <2>3, <2>7 DEF WriterTypeOK, FlusherTypeOK
    <2>9. ShipInv'
      BY <2>1, <2>2, <2>3 DEF ShipInv
    <2>10. \A c \in indexes : labelSets'[c] = labelSets[c]
      BY <1>1, <2>4, <2>6 DEF WriterTypeOK
    <2> QED BY <2>3, <2>8, <2>9, <2>10 DEF Final
  <1>3. CASE ContinueFlush
    BY <1>1, <1>3, FlushShips DEF ContinueFlush
  <1>4. CASE IngesterDies
    BY <1>1, <1>4 DEF IngesterDies, FlushesLost, WriterTypeOK, FlusherTypeOK, ShipInv, Final
  <1>5. CASE UNCHANGED writerVars
    BY <1>1, <1>5 DEF writerVars, flusherVars, WriterTypeOK, FlusherTypeOK, ShipInv, Final
  <1>6. UNCHANGED queryVars => UNCHANGED writerVars
    BY DEF queryVars, writerVars
  <1> QED BY <1>2, <1>3, <1>4, <1>5, <1>6, Sides

----------------------------------------------------------------------------
(* Store.Query: types, and the order of days.                              *)

\* The query's part of the type.
ReaderTypeOK ==
  /\ pc \in {"idle", "index", "fetch", "done", "refused", "failed"}
  /\ toRead \subseteq Batches
  /\ found \in Seq(Batches)
  /\ next \in 1 .. Len(found) + 1
  /\ fetched \in 0 .. next - 1
  /\ hits \in Seq(Entry)
  /\ gone \in BOOLEAN
  /\ known \subseteq Batches
  /\ unread \subseteq Batches

LEMMA TypeParts == QueryTypeOK <=> WriterTypeOK /\ ReaderTypeOK
  BY DEF QueryTypeOK, WriterTypeOK, ReaderTypeOK

\* What a batch is.
LEMMA BatchFacts ==
  ASSUME NEW b \in Batches
  PROVE  /\ b.minTime \in Nat /\ b.maxTime \in Nat /\ Day(b.minTime) \in Nat
         /\ b.entries \subseteq Entry /\ IsFiniteSet(b.entries)
         /\ \A e \in b.entries : /\ Timestamp[e] \in Nat
                                 /\ b.minTime <= Timestamp[e] /\ Timestamp[e] <= b.maxTime
  <1>1. b \in Batch /\ Describes(b) /\ IsFiniteSet(b.entries)
    BY QueryAssumption
  <1>2. b.minTime \in Nat /\ b.maxTime \in Nat /\ b.entries \subseteq Entry
    BY <1>1 DEF Batch
  <1>3. Day(b.minTime) \in Nat
    BY <1>2, DayOrder
  <1>4. \A e \in Entry : Timestamp[e] \in Nat
    BY SelectionAssumption
  <1> QED BY <1>1, <1>2, <1>3, <1>4 DEF Describes

\* What handleQuery makes of a request.
LEMMA RequestFacts ==
  ASSUME NEW r \in Requests
  PROVE  LET q == QueryRequest(r)
         IN  /\ q.start = r.start /\ r.start \in Nat /\ Day(r.start) \in Nat
             /\ q.end \in Nat /\ q.limit \in Nat
  <1>1. r.start \in Nat /\ r.end \in Nat /\ r.limit \in Nat
        /\ MaxLimit \in Nat /\ DefaultLimit \in Nat
    BY QueryAssumption
  <1>2. Day(r.start) \in Nat
    BY <1>1, DayOrder
  <1> QED BY <1>1, <1>2 DEF QueryRequest

\* Each step of Store.Query, and the arrival of the request.
LEMMA IndexSteps ==
  ASSUME ReaderTypeOK, ShipInv, IndexInv, UNCHANGED writerVars
  PROVE  /\ \A r \in Requests : Receive(r) => ReaderTypeOK' /\ IndexInv'
         /\ ClientGone => ReaderTypeOK' /\ IndexInv'
         /\ ListDay \/ ListFails \/ IndexDone => ReaderTypeOK' /\ IndexInv'
         /\ \A b \in toRead : ReadIndex(b) \/ ReadIndexFails(b) => ReaderTypeOK' /\ IndexInv'
  <1>1. indexes' = indexes /\ indexes \subseteq Batches
    BY DEF writerVars, flusherVars, ShipInv
  <1>2. \A b \in Batches : Day(b.minTime) \in Nat
    BY BatchFacts
  <1>3. ASSUME NEW r \in Requests, Receive(r) PROVE ReaderTypeOK' /\ IndexInv'
    <2>1. CASE pc' = "refused"
      BY <1>1, <1>3, <2>1 DEF Receive, ReaderTypeOK, IndexInv
    <2>2. CASE pc' = "index"
      <3>1. /\ req' = QueryRequest(r) /\ day' = Day(r.start) /\ known' = indexes
            /\ UNCHANGED <<toRead, found, next, fetched, hits, gone, unread>>
            /\ Untouched
        BY <1>3, <2>2 DEF Receive, IndexInv
      <3>2. Range(found) = {} /\ IsInjective(found)
        BY <3>1 DEF Untouched, Range, IsInjective
      <3>3. req'.start \in Nat /\ req'.end \in Nat /\ req'.limit \in Nat /\ day' \in Nat
        BY <3>1, RequestFacts
      <3> QED BY <1>1, <2>2, <3>1, <3>2, <3>3 DEF Untouched, ReaderTypeOK, IndexInv
    <2> QED BY <1>3, <2>1, <2>2 DEF Receive
  <1>4. CASE ClientGone
    BY <1>1, <1>4 DEF ClientGone, ReaderTypeOK, IndexInv
  <1>5. CASE ListDay
    <2>1. /\ toRead = {} /\ toRead' = Below(day) /\ day' = day + 1 /\ day \in Nat
          /\ UNCHANGED <<pc, req, found, next, fetched, hits, gone, known, unread>>
          /\ pc = "index"
      BY <1>5 DEF ListDay, IndexInv
    <2>2. \A b \in toRead' : b \in indexes /\ Day(b.minTime) = day
      BY <2>1 DEF Below, FiledUnder
    <2>3. \A b \in Range(found)' : Day(b.minTime) < day' /\ b \notin toRead'
      <3>1. \A b \in Range(found) : Day(b.minTime) < day /\ Day(b.minTime) \in Nat
        BY <1>1, <1>2 DEF IndexInv
      <3> QED BY <2>1, <2>2, <3>1
    <2>4. \A b \in toRead' : Day(b.minTime) = day' - 1
      BY <2>1, <2>2
    <2>5. ReaderTypeOK'
      BY <1>1, <2>1, <2>2 DEF ReaderTypeOK
    <2> QED BY <1>1, <2>1, <2>2, <2>3, <2>4, <2>5 DEF IndexInv
  <1>6. CASE ListFails \/ IndexDone
    BY <1>1, <1>6 DEF ListFails, IndexDone, ReaderTypeOK, IndexInv
  <1>7. ASSUME NEW b \in toRead, ReadIndexFails(b) PROVE ReaderTypeOK' /\ IndexInv'
    BY <1>1, <1>7 DEF ReadIndexFails, ReaderTypeOK, IndexInv
  <1>8. ASSUME NEW b \in toRead, ReadIndex(b) PROVE ReaderTypeOK' /\ IndexInv'
    <2>1. /\ toRead' = toRead \ {b} /\ pc = "index"
          /\ UNCHANGED <<pc, req, day, next, fetched, hits, gone, known, unread>>
          /\ found' = found \/ found' = Append(found, b)
      BY <1>8 DEF ReadIndex
    <2>2. /\ found \in Seq(Batches) /\ b \in Batches /\ b \notin Range(found) /\ IsInjective(found)
          /\ Day(b.minTime) = day - 1 /\ b \in indexes /\ day \in Nat
      BY DEF ReaderTypeOK, IndexInv
    <2>3. CASE found' = found
      BY <1>1, <2>1, <2>3 DEF ReaderTypeOK, IndexInv
    <2>4. CASE found' = Append(found, b)
      <3>1. /\ found' \in Seq(Batches) /\ Len(found') = Len(found) + 1
            /\ Range(found') = Range(found) \cup {b} /\ IsInjective(found')
        BY <2>2, <2>4, FoundAppend
      <3>2. next' \in 1 .. Len(found') + 1
        BY <2>1, <3>1 DEF ReaderTypeOK
      <3>3. ReaderTypeOK'
        BY <2>1, <3>1, <3>2 DEF ReaderTypeOK
      <3>4. \A c \in Range(found') : c \in indexes /\ Day(c.minTime) < day /\ c \notin toRead'
        BY <2>1, <2>2, <3>1 DEF IndexInv
      <3> QED BY <1>1, <2>1, <3>1, <3>3, <3>4 DEF IndexInv
    <2> QED BY <2>1, <2>3, <2>4
  <1> QED BY <1>3, <1>4, <1>5, <1>6, <1>7, <1>8

----------------------------------------------------------------------------
(* Engine.Run: what a fetch adds to the answer.                            *)

\* The next chunk is there, and a fetch appends its wanted entries, once each.
Fetched(s) ==
  /\ s \in Seq(Entry) /\ IsInjective(s) /\ hits' = hits \o s
  /\ Range(s) = {e \in found[next].entries : Wants(e, req)}

LEMMA FetchFacts ==
  ASSUME ReaderTypeOK, ShipInv, IndexInv, FetchDue
  PROVE  /\ next \in DOMAIN found /\ found[next] \in Batches /\ found[next] \in chunks
         /\ FetchChunk => \E s : Fetched(s)
  <1>1. next \in DOMAIN found /\ found[next] \in Batches
    BY DEF FetchDue, ReaderTypeOK
  <1>2. found[next] \in chunks
    BY <1>1 DEF IndexInv, ShipInv, Range
  <1>3. ASSUME FetchChunk PROVE \E s : Fetched(s)
    <2> DEFINE E == {e \in found[next].entries : Wants(e, req)}
    <2>1. E \subseteq Entry /\ IsFiniteSet(E)
      <3>1. found[next].entries \subseteq Entry /\ IsFiniteSet(found[next].entries)
        BY <1>1, BatchFacts
      <3>2. E \in SUBSET found[next].entries
        OBVIOUS
      <3> HIDE DEF E
      <3> QED BY <3>1, <3>2, FS_Subset
    <2>2. PICK s \in SetToSeqs(E) : hits' = hits \o s
      BY <1>3 DEF FetchChunk
    <2> HIDE DEF E
    <2>3. s \in Seq(E) /\ Range(s) = E /\ IsInjective(s)
      BY <2>1, SeqsEnumerate
    <2>4. s \in Seq(Entry)
      BY <2>1, <2>3
    <2> QED BY <2>2, <2>3, <2>4 DEF Fetched, E
  <1> QED BY <1>1, <1>2, <1>3

\* Where the entries of a concatenation come from.
LEMMA ConcatParts ==
  ASSUME NEW S, NEW s \in Seq(S), NEW t \in Seq(S)
  PROVE  /\ s \o t \in Seq(S) /\ DOMAIN (s \o t) = 1 .. Len(s) + Len(t)
         /\ DOMAIN s = 1 .. Len(s) /\ DOMAIN t = 1 .. Len(t) /\ Len(s) \in Nat /\ Len(t) \in Nat
         /\ \A i \in DOMAIN s : (s \o t)[i] = s[i]
         /\ \A i \in DOMAIN (s \o t) \ DOMAIN s :
              i - Len(s) \in DOMAIN t /\ (s \o t)[i] = t[i - Len(s)]
         /\ Range(s \o t) = Range(s) \cup Range(t)
  <1>1. /\ s \o t \in Seq(S) /\ DOMAIN (s \o t) = 1 .. Len(s) + Len(t)
        /\ DOMAIN s = 1 .. Len(s) /\ DOMAIN t = 1 .. Len(t) /\ Len(s) \in Nat /\ Len(t) \in Nat
        /\ \A i \in DOMAIN s : (s \o t)[i] = s[i]
        /\ \A i \in DOMAIN (s \o t) \ DOMAIN s :
             i - Len(s) \in DOMAIN t /\ (s \o t)[i] = t[i - Len(s)]
    OBVIOUS
  <1>2. \A i \in DOMAIN t : i + Len(s) \in DOMAIN (s \o t) /\ (s \o t)[i + Len(s)] = t[i]
    OBVIOUS
  <1>3. Range(s \o t) \subseteq Range(s) \cup Range(t)
    BY <1>1 DEF Range
  <1>4. Range(s) \subseteq Range(s \o t)
    BY <1>1 DEF Range
  <1>5. Range(t) \subseteq Range(s \o t)
    BY <1>2 DEF Range
  <1> QED BY <1>1, <1>3, <1>4, <1>5

LEMMA FetchSteps ==
  ASSUME ReaderTypeOK, ShipInv, IndexInv, UNCHANGED writerVars,
         FetchChunk \/ FetchFails \/ RunCancelled \/ Respond
  PROVE  ReaderTypeOK' /\ IndexInv'
  <1>1. UNCHANGED <<req, day, toRead, found, gone, known, indexes>>
        /\ pc \in {"fetch"} /\ pc' \in {"fetch", "failed", "done"}
    BY DEF FetchChunk, FetchFails, RunCancelled, Respond, FetchDue, writerVars, flusherVars
  <1>2. IndexInv'
    BY <1>1 DEF IndexInv
  <1>3. CASE FetchChunk
    <2>1. FetchDue /\ fetched' = fetched + 1 /\ next' = next + 1 /\ UNCHANGED <<pc, unread>>
      BY <1>3 DEF FetchChunk
    <2>2. PICK s : Fetched(s)
      BY <1>3, <2>1, FetchFacts
    <2>3. hits' \in Seq(Entry)
      BY <2>2, ConcatParts DEF Fetched, ReaderTypeOK
    <2>4. next' \in 1 .. Len(found) + 1 /\ fetched' \in 0 .. next' - 1
      BY <2>1 DEF FetchDue, ReaderTypeOK
    <2> QED BY <1>1, <1>2, <2>1, <2>3, <2>4 DEF ReaderTypeOK
  <1>4. CASE FetchFails
    <2>1. FetchDue /\ next' = next + 1 /\ UNCHANGED <<pc, fetched, hits>>
          /\ unread' \subseteq unread \cup {found[next]}
      BY <1>4 DEF FetchFails
    <2>2. next' \in 1 .. Len(found) + 1 /\ fetched' \in 0 .. next' - 1
      BY <2>1 DEF FetchDue, ReaderTypeOK
    <2>3. unread' \subseteq Batches
      BY <2>1, FetchFacts DEF ReaderTypeOK
    <2> QED BY <1>1, <1>2, <2>1, <2>2, <2>3 DEF ReaderTypeOK
  <1>5. CASE RunCancelled
    BY <1>1, <1>2, <1>5 DEF RunCancelled, ReaderTypeOK
  <1>6. CASE Respond
    <2>1. hits' \in Seq(Entry)
      <3>1. hits \in Seq(Entry) /\ req.limit \in Nat
        BY DEF ReaderTypeOK, IndexInv
      <3>2. Len(hits) > req.limit => SubSeq(hits, 1, req.limit) \in Seq(Entry)
        BY <3>1
      <3> QED BY <1>6, <3>1, <3>2 DEF Respond
    <2> QED BY <1>1, <1>2, <1>6, <2>1 DEF Respond, ReaderTypeOK
  <1> QED BY <1>3, <1>4, <1>5, <1>6

\* Types, the bucket and the order of days, together.
LEMMA IndexInductive ==
  ASSUME QueryTypeOK, ShipInv, IndexInv, [QueryNext]_queryVars
  PROVE  QueryTypeOK' /\ ShipInv' /\ IndexInv' /\ Final
  <1>1. WriterTypeOK' /\ ShipInv' /\ Final
    BY ShipInductive
  <1>2. ReaderTypeOK
    BY TypeParts
  <1>3. ASSUME UNCHANGED writerVars, ReaderStep PROVE ReaderTypeOK' /\ IndexInv'
    <2>1. \/ \E r \in Requests : Receive(r)
          \/ ClientGone
          \/ ListDay \/ ListFails \/ IndexDone
          \/ \E b \in toRead : ReadIndex(b) \/ ReadIndexFails(b)
          \/ FetchChunk \/ FetchFails \/ RunCancelled \/ Respond
      BY <1>3 DEF ReaderStep, RunQuery
    <2> QED BY <1>2, <1>3, <2>1, IndexSteps, FetchSteps
  <1>4. ASSUME UNCHANGED readerVars PROVE ReaderTypeOK' /\ IndexInv'
    <2>1. ReaderTypeOK'
      BY <1>2, <1>4 DEF readerVars, ReaderTypeOK
    <2>2. IndexInv'
      BY <1>1, <1>4 DEF readerVars, IndexInv, Final, Untouched
    <2> QED BY <2>1, <2>2
  <1>5. ReaderTypeOK' /\ IndexInv'
    BY <1>3, <1>4, Sides
  <1>6. QueryTypeOK'
    BY <1>1, <1>5 DEF QueryTypeOK, WriterTypeOK, ReaderTypeOK
  <1> QED BY <1>1, <1>5, <1>6

----------------------------------------------------------------------------
(* Nothing that was indexed in time is passed over silently.               *)

LEMMA CoverInductive ==
  ASSUME QueryTypeOK, ShipInv, IndexInv, CoverInv, [QueryNext]_queryVars
  PROVE  CoverInv'
  <1>1. /\ known \subseteq indexes /\ indexes \subseteq Batches /\ known \subseteq Batches
        /\ day \in Nat
    BY DEF IndexInv, ShipInv
  <1>2. \A b \in Batches : Day(b.minTime) \in Nat
    BY BatchFacts
  <1>3. ASSUME UNCHANGED readerVars PROVE CoverInv'
    <2>1. \A b \in known : labelSets'[b] = labelSets[b]
      BY <1>1, IndexInductive DEF Final
    <2>2. \A b \in known : MayHold(b, req)' <=> MayHold(b, req)
      BY <1>3, <2>1 DEF readerVars, MayHold
    <2>3. UNCHANGED <<req, day, toRead, found, known, unread>>
      BY <1>3 DEF readerVars
    <2> QED BY <2>2, <2>3 DEF CoverInv
  <1>4. ASSUME UNCHANGED <<writerVars, req>>, NEW b
        PROVE  MayHold(b, req)' <=> MayHold(b, req)
    BY <1>4 DEF writerVars, MayHold
  <1>5. ASSUME UNCHANGED writerVars, UNCHANGED <<req, day, toRead, found, known>>,
               unread \subseteq unread'
        PROVE  CoverInv'
    BY <1>4, <1>5 DEF CoverInv
  <1>6. ASSUME NEW r \in Requests, Receive(r), UNCHANGED writerVars PROVE CoverInv'
    <2>1. CASE pc' = "refused"
      BY <1>5, <1>6, <2>1 DEF Receive
    <2>2. CASE pc' = "index"
      <3>1. known' = indexes /\ day' = Day(r.start) /\ req'.start = r.start /\ Day(r.start) \in Nat
        BY <1>6, <2>2, RequestFacts DEF Receive
      <3> QED BY <1>1, <1>2, <3>1 DEF CoverInv
    <2> QED BY <1>6, <2>1, <2>2 DEF Receive
  <1>7. ASSUME ListDay, UNCHANGED writerVars PROVE CoverInv'
    <2>1. toRead' = Below(day) /\ toRead = {} /\ day' = day + 1 /\ UNCHANGED <<req, found, known, unread>>
      BY <1>7 DEF ListDay
    <2>2. ASSUME NEW b \in known, Day(b.minTime) >= day
          PROVE  Day(b.minTime) >= day' \/ b \in toRead' \/ b.service \in Nested
      BY <1>1, <1>2, <2>1, <2>2 DEF Below, FiledUnder
    <2> QED BY <1>4, <1>7, <2>1, <2>2 DEF CoverInv
  <1>8. ASSUME NEW b \in toRead, ReadIndex(b), UNCHANGED writerVars PROVE CoverInv'
    <2>1. /\ toRead' = toRead \ {b} /\ UNCHANGED <<req, day, known, unread>>
          /\ found' = IF MayHold(b, req) THEN Append(found, b) ELSE found
      BY <1>8 DEF ReadIndex
    <2>2. found \in Seq(Batches) /\ b \in Batches /\ b \notin Range(found) /\ IsInjective(found)
      BY DEF QueryTypeOK, IndexInv
    <2>3. Range(Append(found, b)) = Range(found) \cup {b}
      BY <2>2, FoundAppend
    <2>4. Range(found) \subseteq Range(found') /\ (MayHold(b, req) => b \in Range(found'))
      BY <2>1, <2>3
    <2> QED BY <1>4, <1>8, <2>1, <2>4 DEF CoverInv
  <1>9. ASSUME NEW b \in toRead, ReadIndexFails(b), UNCHANGED writerVars PROVE CoverInv'
    <2>1. toRead' = toRead \ {b} /\ UNCHANGED <<req, day, found, known>> /\ unread' = unread \cup {b}
      BY <1>9 DEF ReadIndexFails
    <2> QED BY <1>4, <1>9, <2>1 DEF CoverInv
  <1>10. ASSUME UNCHANGED writerVars,
                \/ ClientGone \/ ListFails \/ IndexDone
                \/ FetchChunk \/ FetchFails \/ RunCancelled \/ Respond
         PROVE  CoverInv'
    <2>1. UNCHANGED <<req, day, toRead, found, known>> /\ unread \subseteq unread'
      BY <1>10 DEF ClientGone, ListFails, IndexDone, FetchChunk, FetchFails, RunCancelled, Respond
    <2> QED BY <1>5, <1>10, <2>1
  <1>11. ASSUME UNCHANGED writerVars, ReaderStep PROVE CoverInv'
    BY <1>6, <1>7, <1>8, <1>9, <1>10, <1>11 DEF ReaderStep, RunQuery
  <1> QED BY <1>3, <1>11, Sides

\* What the query says it fetched it has, and what it passed over it lacks for a
\* reason.
LEMMA FetchInductive ==
  ASSUME QueryTypeOK, ShipInv, IndexInv, FetchInv, [QueryNext]_queryVars
  PROVE  FetchInv'
  <1>1. ReaderTypeOK
    BY TypeParts
  <1>2. ASSUME UNCHANGED <<pc, req, found, next, fetched, hits, unread>> PROVE FetchInv'
    BY <1>2 DEF FetchInv, Answer
  <1>3. ASSUME pc' \notin {"fetch", "done"} PROVE FetchInv'
    BY <1>3 DEF FetchInv
  <1>4. ASSUME NEW r \in Requests, Receive(r) PROVE FetchInv'
    BY <1>3, <1>4 DEF Receive
  <1>5. ASSUME NEW b \in toRead, ReadIndex(b) \/ ReadIndexFails(b) PROVE FetchInv'
    BY <1>3, <1>5 DEF ReadIndex, ReadIndexFails
  <1>6. ASSUME ClientGone PROVE FetchInv'
    BY <1>2, <1>6 DEF ClientGone
  <1>7. ASSUME ListDay \/ ListFails \/ RunCancelled PROVE FetchInv'
    BY <1>3, <1>7 DEF ListDay, ListFails, RunCancelled
  <1>8. ASSUME IndexDone PROVE FetchInv'
    <2>1. next' = 1 /\ pc' = "fetch"
      BY <1>8 DEF IndexDone, IndexInv
    <2> QED BY <2>1 DEF FetchInv
  <1>9. ASSUME FetchChunk PROVE FetchInv'
    <2>1. /\ FetchDue /\ fetched' = fetched + 1 /\ next' = next + 1
          /\ UNCHANGED <<pc, req, found, unread>> /\ pc = "fetch"
      BY <1>9 DEF FetchChunk, FetchDue
    <2>2. PICK s : Fetched(s)
      BY <1>1, <1>9, <2>1, FetchFacts
    <2>3. Range(hits') = Range(hits) \cup Range(s)
      BY <1>1, <2>2, ConcatParts DEF Fetched, ReaderTypeOK
    <2>4. Answer' = Answer \cup Range(s)
      BY <2>3 DEF Answer, ToSet, Range
    <2>5. next \in Nat /\ fetched \in Nat
      BY <1>1 DEF ReaderTypeOK
    <2>6. ASSUME NEW i \in 1 .. next' - 1
          PROVE  \/ \A e \in found[i].entries : Wants(e, req) => e \in Answer'
                 \/ /\ fetched' < next' - 1
                    /\ found[i] \in unread \/ ~Scannable(found[i].entries)
      <3>1. CASE i = next
        BY <2>2, <2>4, <3>1 DEF Fetched
      <3>2. CASE i # next
        <4>1. i \in 1 .. next - 1
          BY <2>1, <2>5, <3>2
        <4>2. \/ \A e \in found[i].entries : Wants(e, req) => e \in Answer
              \/ fetched < next - 1 /\ (found[i] \in unread \/ ~Scannable(found[i].entries))
          BY <2>1, <4>1 DEF FetchInv
        <4> QED BY <2>1, <2>4, <2>5, <4>2
      <3> QED BY <3>1, <3>2
    <2>7. \A e : Wants(e, req)' <=> Wants(e, req)
      BY <2>1 DEF Wants
    <2> QED BY <2>1, <2>6, <2>7 DEF FetchInv
  <1>10. ASSUME FetchFails PROVE FetchInv'
    <2>1. /\ FetchDue /\ next' = next + 1
          /\ UNCHANGED <<pc, req, found, fetched, hits>> /\ pc = "fetch"
      BY <1>10 DEF FetchFails, FetchDue
    <2>2. unread \subseteq unread' /\ (found[next] \in unread' \/ ~Scannable(found[next].entries))
      BY <1>1, <1>10, <2>1, FetchFacts DEF FetchFails
    <2>3. next \in Nat /\ fetched \in Nat /\ fetched < next' - 1
      BY <1>1, <2>1 DEF ReaderTypeOK
    <2>4. ASSUME NEW i \in 1 .. next' - 1
          PROVE  \/ \A e \in found[i].entries : Wants(e, req) => e \in Answer
                 \/ found[i] \in unread' \/ ~Scannable(found[i].entries)
      <3>1. CASE i = next
        BY <2>2, <3>1
      <3>2. CASE i # next
        <4>1. i \in 1 .. next - 1
          BY <2>1, <2>3, <3>2
        <4> QED BY <2>1, <2>2, <4>1 DEF FetchInv
      <3> QED BY <3>1, <3>2
    <2>5. (\A e : Wants(e, req)' <=> Wants(e, req)) /\ Answer' = Answer
      BY <2>1 DEF Wants, Answer
    <2> QED BY <2>1, <2>3, <2>4, <2>5 DEF FetchInv
  <1>11. ASSUME Respond PROVE FetchInv'
    <2>1. /\ pc = "fetch" /\ ~FetchDue /\ pc' = "done" /\ UNCHANGED <<req, found, next, fetched, unread>>
          /\ hits' = IF Len(hits) > req.limit THEN SubSeq(hits, 1, req.limit) ELSE hits
      BY <1>11 DEF Respond
    <2>2. hits \in Seq(Entry) /\ req.limit \in Nat /\ Len(hits) \in Nat
          /\ next \in 1 .. Len(found) + 1 /\ Len(found) \in Nat
      BY <1>1 DEF ReaderTypeOK, IndexInv
    <2>3. CASE Len(hits) < req.limit
      <3>1. hits' = hits
        BY <2>1, <2>2, <2>3
      <3>2. next = Len(found) + 1
        BY <2>1, <2>2, <2>3 DEF FetchDue
      <3> QED BY <2>1, <3>1, <3>2 DEF FetchInv, Answer
    <2>4. CASE ~(Len(hits) < req.limit)
      <3>1. Len(hits') >= req.limit
        BY <2>1, <2>2, <2>4
      <3>2. Len(hits') \in Nat
        BY <2>1, <2>2
      <3>3. ~(Len(hits') < req'.limit)
        BY <2>1, <2>2, <3>1, <3>2
      <3> QED BY <2>1, <3>3 DEF FetchInv
    <2> QED BY <2>3, <2>4
  <1>12. ASSUME UNCHANGED readerVars PROVE FetchInv'
    BY <1>2, <1>12 DEF readerVars
  <1>13. ASSUME ReaderStep PROVE FetchInv'
    BY <1>4, <1>5, <1>6, <1>7, <1>8, <1>9, <1>10, <1>11, <1>13 DEF ReaderStep, RunQuery
  <1> QED BY <1>12, <1>13, Sides

----------------------------------------------------------------------------
(* Nothing is in the answer that was not asked for, or too often.          *)

\* An empty answer comes from nowhere.
LEMMA NoOrigin ==
  ASSUME hits' = <<>>, pc' # "done"
  PROVE  OriginInv'
  <1>1. DOMAIN hits' = {}
    OBVIOUS
  <1>2. PICK o : o = [i \in DOMAIN hits' |-> 1]
    OBVIOUS
  <1>3. o \in [DOMAIN hits' -> DOMAIN found']
    BY <1>1, <1>2
  <1>4. Origin(o)'
    BY <1>1 DEF Origin
  <1> QED BY <1>1, <1>3, <1>4 DEF OriginInv

\* A fetch adds entries that came from the next chunk, each once.
LEMMA FetchOrigin ==
  ASSUME ReaderTypeOK, ShipInv, IndexInv, OriginInv, FetchChunk
  PROVE  OriginInv'
  <1>1. /\ FetchDue /\ next' = next + 1 /\ UNCHANGED <<pc, req, found>> /\ pc = "fetch"
    BY DEF FetchChunk, FetchDue
  <1>2. PICK s : Fetched(s)
    BY <1>1, FetchFacts
  <1>3. PICK o \in [DOMAIN hits -> DOMAIN found] : Origin(o)
    BY DEF OriginInv
  <1> DEFINE n == Len(hits)
  <1>4. /\ hits \in Seq(Entry) /\ s \in Seq(Entry) /\ hits' = hits \o s
        /\ next \in DOMAIN found /\ next \in Nat /\ DOMAIN found = 1 .. Len(found) /\ Len(found) \in Nat
    BY <1>1, <1>2, FetchFacts DEF ReaderTypeOK, Fetched
  <1>5. /\ n \in Nat /\ DOMAIN hits \subseteq DOMAIN hits'
        /\ \A i \in DOMAIN hits : hits'[i] = hits[i]
        /\ \A i \in DOMAIN hits' \ DOMAIN hits : i - n \in DOMAIN s /\ hits'[i] = s[i - n]
        /\ \A i \in DOMAIN hits' : i \in Nat
    BY <1>4, ConcatParts
  <1>6. \A k \in DOMAIN s : s[k] \in found[next].entries /\ Wants(s[k], req)
    BY <1>2 DEF Fetched, Range
  <1>7. PICK p : p = [i \in DOMAIN hits' |-> IF i \in DOMAIN hits THEN o[i] ELSE next]
    OBVIOUS
  <1>8. /\ p \in [DOMAIN hits' -> DOMAIN found']
        /\ \A i \in DOMAIN hits : o[i] \in Nat /\ o[i] < next /\ hits[i] \in found[o[i]].entries
    BY <1>1, <1>3, <1>4, <1>7 DEF Origin
  <1>9. \A i \in DOMAIN hits' : p[i] < next' /\ hits'[i] \in found'[p[i]].entries
    BY <1>1, <1>4, <1>5, <1>6, <1>7, <1>8
  <1>10. ASSUME NEW i \in DOMAIN hits', NEW j \in DOMAIN hits', p[i] = p[j], hits'[i] = hits'[j]
         PROVE  i = j
    <2>1. i \in DOMAIN hits <=> j \in DOMAIN hits
      BY <1>4, <1>7, <1>8, <1>10
    <2>2. CASE i \in DOMAIN hits
      BY <1>3, <1>5, <1>7, <1>10, <2>1, <2>2 DEF Origin
    <2>3. CASE i \notin DOMAIN hits
      <3>1. i - n = j - n
        BY <1>2, <1>5, <1>10, <2>1, <2>3 DEF Fetched, IsInjective
      <3>2. i \in Nat /\ j \in Nat
        BY <1>5
      <3> QED BY <1>5, <3>1, <3>2
    <2> QED BY <2>2, <2>3
  <1>11. \A i \in DOMAIN hits' : Wants(hits'[i], req)
    BY <1>5, <1>6 DEF OriginInv
  <1>12. \A i \in DOMAIN hits' : Wants(hits[i], req)'
    BY <1>1, <1>11 DEF Wants
  <1>13. Origin(p)'
    BY <1>9, <1>10 DEF Origin
  <1> QED BY <1>1, <1>8, <1>12, <1>13 DEF OriginInv

\* Cutting an answer to its limit leaves entries with the origins they had.
LEMMA RespondOrigin ==
  ASSUME ReaderTypeOK, IndexInv, OriginInv, Respond
  PROVE  OriginInv'
  <1>1. /\ UNCHANGED <<req, found, next>>
        /\ hits' = IF Len(hits) > req.limit THEN SubSeq(hits, 1, req.limit) ELSE hits
        /\ hits \in Seq(Entry) /\ req.limit \in Nat
    BY DEF Respond, ReaderTypeOK, IndexInv
  <1>2. /\ DOMAIN hits' \subseteq DOMAIN hits /\ \A i \in DOMAIN hits' : hits'[i] = hits[i]
        /\ Len(hits') <= req.limit
    <2>1. CASE Len(hits) > req.limit
      BY <1>1, <2>1
    <2>2. CASE ~(Len(hits) > req.limit)
      BY <1>1, <2>2
    <2> QED BY <2>1, <2>2
  <1>3. PICK o \in [DOMAIN hits -> DOMAIN found] : Origin(o)
    BY DEF OriginInv
  <1>4. PICK p : p = [i \in DOMAIN hits' |-> o[i]]
    OBVIOUS
  <1>5. p \in [DOMAIN hits' -> DOMAIN found']
    BY <1>1, <1>2, <1>3, <1>4
  <1>6. Origin(p)'
    BY <1>1, <1>2, <1>3, <1>4 DEF Origin
  <1>7. \A i \in DOMAIN hits' : Wants(hits[i], req)'
    BY <1>1, <1>2 DEF OriginInv, Wants
  <1> QED BY <1>1, <1>2, <1>5, <1>6, <1>7 DEF OriginInv

LEMMA OriginInductive ==
  ASSUME QueryTypeOK, ShipInv, IndexInv, OriginInv, [QueryNext]_queryVars
  PROVE  OriginInv'
  <1>1. ReaderTypeOK
    BY TypeParts
  <1>2. ASSUME UNCHANGED <<req, found, hits>>, pc' = pc \/ pc' # "done", next' \in {next, next + 1}
        PROVE  OriginInv'
    <2>1. next \in Nat /\ next <= next' /\ next' \in Nat
      BY <1>1, <1>2 DEF ReaderTypeOK
    <2>2. PICK o \in [DOMAIN hits -> DOMAIN found] : Origin(o)
      BY DEF OriginInv
    <2>3. \A i \in DOMAIN hits : o[i] \in Nat
      BY <1>1, <2>2 DEF ReaderTypeOK
    <2>4. Origin(o)'
      BY <1>2, <2>1, <2>2, <2>3 DEF Origin
    <2>5. \A i \in DOMAIN hits' : Wants(hits[i], req)'
      BY <1>2 DEF OriginInv, Wants
    <2>6. pc' = "done" => Len(hits') <= req'.limit
      BY <1>2 DEF OriginInv
    <2> QED BY <1>2, <2>2, <2>4, <2>5, <2>6 DEF OriginInv
  <1>3. ASSUME NEW r \in Requests, Receive(r) PROVE OriginInv'
    <2>1. hits' = <<>> /\ pc' # "done"
      BY <1>3 DEF Receive, IndexInv, Untouched
    <2> QED BY <2>1, NoOrigin
  <1>4. ASSUME NEW b \in toRead, ReadIndex(b) \/ ReadIndexFails(b) PROVE OriginInv'
    <2>1. hits' = <<>> /\ pc' # "done"
      BY <1>4 DEF ReadIndex, ReadIndexFails, IndexInv
    <2> QED BY <2>1, NoOrigin
  <1>5. ASSUME ClientGone \/ ListDay \/ ListFails \/ IndexDone \/ FetchFails \/ RunCancelled
        PROVE  OriginInv'
    BY <1>2, <1>5 DEF ClientGone, ListDay, ListFails, IndexDone, FetchFails, RunCancelled
  <1>6. ASSUME UNCHANGED readerVars PROVE OriginInv'
    BY <1>2, <1>6 DEF readerVars
  <1>7. ASSUME ReaderStep PROVE OriginInv'
    BY <1>1, <1>3, <1>4, <1>5, <1>7, FetchOrigin, RespondOrigin DEF ReaderStep, RunQuery
  <1> QED BY <1>6, <1>7, Sides

----------------------------------------------------------------------------
(* The theorems.                                                           *)

LEMMA QueryInvInit == QueryInit => QueryInv
  <1> SUFFICES ASSUME QueryInit PROVE QueryInv
    OBVIOUS
  <1>1. QueryTypeOK
    <2>1. FlusherTypeOK
      BY DEF QueryInit, FlusherInit, FlusherTypeOK
    <2>2. <<>> \in Seq(Batches) /\ <<>> \in Seq(Entry) /\ Len(<<>>) = 0
      OBVIOUS
    <2>3. labelSets \in [Batches -> SUBSET LabelSet] /\ unshipped \subseteq Batches
      BY DEF QueryInit
    <2>4. found \in Seq(Batches) /\ hits \in Seq(Entry) /\ Len(found) = 0
      BY <2>2 DEF QueryInit
    <2>5. next \in 1 .. Len(found) + 1 /\ fetched \in 0 .. next - 1
      BY <2>4 DEF QueryInit
    <2> QED BY <2>1, <2>3, <2>4, <2>5 DEF QueryInit, QueryTypeOK
  <1>2. ShipInv
    BY FS_EmptySet DEF QueryInit, FlusherInit, ShipInv
  <1>3. Range(found) = {} /\ IsInjective(found)
    BY DEF QueryInit, Range, IsInjective
  <1>4. req.start \in Nat /\ req.end \in Nat /\ req.limit \in Nat
    <2>1. NoRequest.start = 0 /\ NoRequest.end = 0 /\ NoRequest.limit = DefaultLimit
      BY DEF NoRequest
    <2>2. DefaultLimit \in Nat
      BY QueryAssumption
    <2> QED BY <2>1, <2>2 DEF QueryInit
  <1>5. IndexInv
    BY <1>3, <1>4 DEF QueryInit, FlusherInit, IndexInv, Untouched
  <1>6. CoverInv /\ FetchInv
    BY DEF QueryInit, CoverInv, FetchInv
  <1>7. OriginInv
    <2> DEFINE o == [i \in DOMAIN hits |-> 1]
    <2>1. DOMAIN hits = {}
      BY DEF QueryInit
    <2>2. o \in [DOMAIN hits -> DOMAIN found] /\ Origin(o)
      BY <2>1 DEF Origin
    <2> QED BY <2>1, <2>2 DEF OriginInv, QueryInit
  <1> QED BY <1>1, <1>2, <1>5, <1>6, <1>7 DEF QueryInv

\* QueryInv holds in every state.
LEMMA QueryInvariant == QuerySpec => []QueryInv
  <1>1. QueryInv /\ [QueryNext]_queryVars => QueryInv'
    BY IndexInductive, CoverInductive, FetchInductive, OriginInductive DEF QueryInv
  <1> QED BY QueryInvInit, <1>1, PTL DEF QuerySpec

\* Flushes and queries keep every variable within its type, the positions of
\* Engine.Run within what Store.Query returned.
THEOREM QueryTypeCorrect == QuerySpec => []QueryTypeOK
  <1>1. QueryInv => QueryTypeOK
    BY DEF QueryInv
  <1> QED BY <1>1, QueryInvariant, PTL

\* chunks_fetched tells the truth: when it equals chunks_matched, an answer below
\* its limit has all that is wanted of every chunk matched.
THEOREM StatsAreHonest == QuerySpec => []StatsAdmitGaps
  <1>1. QueryInv => StatsAdmitGaps
    <2> SUFFICES ASSUME QueryInv, pc = "done", Len(hits) < req.limit, fetched = Len(found),
                        NEW b \in Range(found), NEW e \in b.entries, Wants(e, req)
                 PROVE  e \in Answer
      BY DEF StatsAdmitGaps
    <2>1. /\ next = Len(found) + 1 /\ Len(found) \in Nat /\ found \in Seq(Batches)
          /\ ~(fetched < next - 1)
      BY DEF QueryInv, FetchInv, QueryTypeOK
    <2>2. PICK i \in 1 .. next - 1 : b = found[i]
      BY <2>1 DEF Range
    <2> QED BY <2>1, <2>2 DEF QueryInv, FetchInv
  <1> QED BY <1>1, QueryInvariant, PTL

\* A query misses nothing that was indexed when it came, the named gaps apart,
\* whatever is flushed between its listing, reading and fetching.
THEOREM QueriesAreComplete == QuerySpec => []QueryComplete
  <1>1. QueryInv => QueryComplete
    <2> SUFFICES ASSUME QueryInv, pc = "done", Len(hits) < req.limit,
                        NEW b \in known, NEW e \in b.entries, Wants(e, req), e \notin Answer,
                        ~Unfindable(b, e), Scannable(b.entries), b \notin unread
                 PROVE  FALSE
      BY DEF QueryComplete
    <2> USE DEF QueryInv
    <2>1. b \in Batches /\ toRead = {} /\ day > Day(req.end)
          /\ req.start \in Nat /\ req.end \in Nat /\ day \in Nat
      BY DEF QueryTypeOK, IndexInv
    <2>2. /\ b.minTime \in Nat /\ b.maxTime \in Nat /\ Timestamp[e] \in Nat
          /\ b.minTime <= Timestamp[e] /\ Timestamp[e] <= b.maxTime
      BY <2>1, BatchFacts
    <2>3. req.start <= Timestamp[e] /\ Timestamp[e] <= req.end /\ Carries(Labels[e], req.labels)
      BY DEF Wants, Selects
    <2>4. ~(Day(b.minTime) >= day)
      <3>1. b.minTime <= req.end
        BY <2>1, <2>2, <2>3
      <3>2. /\ Day(b.minTime) \in Nat /\ Day(req.end) \in Nat
            /\ Day(b.minTime) <= Day(req.end)
        BY <2>1, <2>2, <3>1, DayOrder
      <3> QED BY <2>1, <3>2
    <2>5. b \notin Range(found)
      <3>1. next = Len(found) + 1 /\ Len(found) \in Nat /\ found \in Seq(Batches)
        BY DEF FetchInv, QueryTypeOK
      <3>2. ASSUME b \in Range(found) PROVE FALSE
        <4>1. PICK i \in 1 .. next - 1 : b = found[i]
          BY <3>1, <3>2 DEF Range
        <4> QED BY <4>1 DEF FetchInv
      <3> QED BY <3>2
    <2>6. ~(Day(b.minTime) < Day(req.start)) /\ b.service \notin Nested
      BY DEF Unfindable
    <2>7. MayHold(b, req)
      <3>1. timeOverlaps(b.minTime, b.maxTime, req.start, req.end)
        BY <2>1, <2>2, <2>3 DEF timeOverlaps
      <3>2. req.service # "" => EqualFold(b.service, req.service)
        BY DEF Unfindable
      <3>3. MatchLabels(labelSets[b], req.labels)
        BY <2>3 DEF Unfindable, MatchLabels
      <3> QED BY <3>1, <3>2, <3>3 DEF MayHold
    <2> QED BY <2>1, <2>4, <2>5, <2>6, <2>7 DEF CoverInv
  <1> QED BY <1>1, QueryInvariant, PTL

\* An answer holds only what was asked for, within its limit, and no entry more
\* often than there are chunks with it.
THEOREM AnswersAreSound == QuerySpec => []QuerySound
  <1>1. QueryInv => QuerySound
    <2> SUFFICES ASSUME QueryInv, pc = "done"
                 PROVE  /\ Len(hits) <= req.limit
                        /\ \A e \in Answer :
                             /\ Wants(e, req)
                             /\ Cardinality(CopiesOf(e)) <= Cardinality({b \in chunks : e \in b.entries})
      BY DEF QuerySound
    <2> USE DEF QueryInv
    <2>1. Len(hits) <= req.limit /\ \A e \in Answer : Wants(e, req)
      BY DEF OriginInv, Answer, ToSet
    <2>2. ASSUME NEW e \in Answer
          PROVE  Cardinality(CopiesOf(e)) <= Cardinality({b \in chunks : e \in b.entries})
      <3>1. PICK o \in [DOMAIN hits -> DOMAIN found] : Origin(o)
        BY DEF OriginInv
      <3> DEFINE C == CopiesOf(e)
                 B == {b \in chunks : e \in b.entries}
                 f == [i \in C |-> found[o[i]]]
      <3>2. \A i \in C : i \in DOMAIN hits /\ hits[i] = e
        BY DEF CopiesOf
      <3>3. \A k \in DOMAIN found : found[k] \in chunks
        BY DEF IndexInv, ShipInv, Range
      <3>4. \A i \in C : o[i] \in DOMAIN found /\ found[o[i]] \in B
        BY <3>1, <3>2, <3>3 DEF Origin
      <3>5. \A i, j \in C : found[o[i]] = found[o[j]] => i = j
        <4>1. \A i, j \in C : found[o[i]] = found[o[j]] => o[i] = o[j]
          BY <3>4 DEF IndexInv, IsInjective
        <4> QED BY <3>1, <3>2, <4>1 DEF Origin
      <3>6. IsFiniteSet(B)
        <4>1. B \in SUBSET chunks /\ IsFiniteSet(chunks)
          BY DEF ShipInv
        <4> HIDE DEF B
        <4> QED BY <4>1, FS_Subset
      <3> HIDE DEF C, B
      <3>7. f \in Injection(C, B)
        BY <3>4, <3>5 DEF Injection, IsInjective
      <3> HIDE DEF f
      <3>8. Cardinality(C) <= Cardinality(B)
        BY <3>6, <3>7, FS_Injection
      <3> QED BY <3>8 DEF C, B
    <2> QED BY <2>1, <2>2
  <1> QED BY <1>1, QueryInvariant, PTL
=============================================================================
