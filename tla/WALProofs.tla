------------------------------ MODULE WALProofs ------------------------------
(***************************************************************************)
(* Theorems about the write-ahead log on its own, and the lemmas about     *)
(* appending that the proofs of the ingester share.                        *)
(***************************************************************************)
EXTENDS WAL, DataProofs

----------------------------------------------------------------------------
(* Type correctness.                                                       *)

\* What a write of e leaves in the file, however it ends, has the file's type.
LEMMA WriteTypes ==
  ASSUME WALTypeOK, NEW e \in Entry
  PROVE  /\ Append(lines, tail \cup {Whole(e)}) \in Seq(SUBSET Fragment)
         /\ \A t \in TornTails(e) : t \subseteq Fragment
  <1>1. Whole(e) \in Fragment /\ \A long \in BOOLEAN : Part(e, long) \in Fragment
    BY DEF Whole, Part, Fragment
  <1>2. Append(lines, tail \cup {Whole(e)}) \in Seq(SUBSET Fragment)
    BY <1>1 DEF WALTypeOK
  <1>3. ASSUME NEW t \in TornTails(e) PROVE t \subseteq Fragment
    <2>1. (e \in Oversize) \in BOOLEAN
      OBVIOUS
    <2>2. \/ t = tail \/ t = tail \cup {Whole(e)}
          \/ t = tail \cup {Part(e, FALSE)} \/ t = tail \cup {Part(e, e \in Oversize)}
      BY Zenon DEF TornTails
    <2> QED BY <1>1, <2>1, <2>2, Zenon DEF WALTypeOK
  <1> QED BY <1>2, <1>3

\* Every operation on the write-ahead log preserves its type.
LEMMA WALOpTypes ==
  ASSUME WALTypeOK
  PROVE  /\ UNCHANGED walVars => WALTypeOK'
         /\ \A e \in Entry : AppendEntry(e) => WALTypeOK'
         /\ ResetWAL => WALTypeOK'
         /\ CloseWAL => WALTypeOK'
         /\ \A R \in SUBSET Entry : OpenAndRecover(R) => WALTypeOK'
  <1>1. UNCHANGED walVars => WALTypeOK'
    BY DEF WALTypeOK, walVars
  <1>2. \A e \in Entry : AppendEntry(e) => WALTypeOK'
    <2> SUFFICES ASSUME NEW e \in Entry, AppendEntry(e) PROVE WALTypeOK'
      OBVIOUS
    <2>1. CASE AppendOK(e)
      BY <2>1, WriteTypes DEF AppendOK, WALTypeOK
    <2>2. CASE AppendRefused
      BY <2>2 DEF AppendRefused, WALTypeOK
    <2>3. CASE AppendWriteError(e)
      BY <2>3, WriteTypes DEF AppendWriteError, WALTypeOK
    <2>4. CASE AppendSyncError(e)
      BY <2>4, WriteTypes DEF AppendSyncError, WALTypeOK
    <2> QED BY <2>1, <2>2, <2>3, <2>4 DEF AppendEntry
  <1>3. ResetWAL => WALTypeOK'
    <2>1. <<>> \in Seq(SUBSET Fragment)
      OBVIOUS
    <2> QED BY <1>1, <2>1 DEF ResetWAL, EmptyFile, WALTypeOK
  <1>4. CloseWAL => WALTypeOK'
    BY DEF CloseWAL, WALTypeOK
  <1>5. \A R \in SUBSET Entry : OpenAndRecover(R) => WALTypeOK'
    BY DEF OpenAndRecover, WALTypeOK
  <1> QED BY <1>1, <1>2, <1>3, <1>4, <1>5

----------------------------------------------------------------------------
(* What Recover returns.                                                   *)

\* No line is torn and none is too long.
LogClean == tail = {} /\ ~TooLong

\* A line appended to a clean log adds its entry to what Recover returns.
LEMMA AppendRecovers ==
  ASSUME WALTypeOK, Oversize = {}, LogClean, NEW e \in Entry,
         lines' = Append(lines, tail \cup {Whole(e)}), tail' = {}
  PROVE  LogClean' /\ Recovered' = Recovered \cup {e}
  <1>1. Content = lines /\ Content' = Append(lines, {Whole(e)})
    BY DEF LogClean, Content
  <1>2. Whole(e) \in Fragment /\ ~Whole(e).long
    <2>1. Whole(e) \in Fragment
      BY DEF Whole, Fragment
    <2>2. e \notin Oversize
      OBVIOUS
    <2>3. Whole(e).long = (e \in Oversize)
      BY DEF Whole
    <2> QED BY <2>1, <2>2, <2>3, Zenon
  <1>3. Range(Content)' = Range(Content) \cup {{Whole(e)}}
    <2>1. {Whole(e)} \in SUBSET Fragment /\ lines \in Seq(SUBSET Fragment)
      BY <1>2 DEF WALTypeOK
    <2> DEFINE Lines == SUBSET Fragment
               line == {Whole(e)}
    <2>2. Range(Append(lines, line)) = Range(lines) \cup {line}
      <3>1. line \in Lines /\ lines \in Seq(Lines)
        BY <2>1
      <3> HIDE DEF Lines, line
      <3> QED BY <3>1, RangeAppend
    <2> QED BY <1>1, <2>2, Zenon
  <1>4. ~TooLong'
    <2>1. \A long \in LongTogether : ~(long \subseteq {Whole(e)})
      BY WALAssumption
    <2> QED BY <1>2, <1>3, <2>1 DEF LogClean, TooLong
  <1>5. \A d \in Entry : ParsesTo({Whole(e)}, d) <=> d = e
    <2>1. \A d \in Entry : Whole(d).entry = d
      BY DEF Whole
    <2> QED BY <2>1 DEF ParsesTo
  <1>6. Recovered = {d \in Entry : \E line \in Range(Content) : ParsesTo(line, d)}
    BY DEF LogClean, Recovered
  <1>7. Recovered' = {d \in Entry : \E line \in Range(Content)' : ParsesTo(line, d)}
    BY <1>4 DEF Recovered, ParsesTo
  <1>8. Recovered' = Recovered \cup {e}
    <2>1. ASSUME NEW d \in Entry PROVE d \in Recovered' <=> d \in Recovered \cup {e}
      <3>1. d \in Recovered' <=> \E line \in Range(Content)' : ParsesTo(line, d)
        BY <1>7
      <3>2. d \in Recovered <=> \E line \in Range(Content) : ParsesTo(line, d)
        BY <1>6
      <3>3. (\E line \in Range(Content)' : ParsesTo(line, d))
              <=> (\E line \in Range(Content) : ParsesTo(line, d)) \/ ParsesTo({Whole(e)}, d)
        BY <1>3, Zenon
      <3> QED BY <1>5, <3>1, <3>2, <3>3
    <2>2. Recovered \subseteq Entry /\ Recovered' \subseteq Entry
      BY <1>6, <1>7
    <2> QED BY <2>1, <2>2
  <1> QED BY <1>4, <1>8 DEF LogClean

\* A log whose file is untouched recovers the same.
LEMMA SameLogRecovers ==
  ASSUME UNCHANGED <<lines, tail>>
  PROVE  (LogClean => LogClean') /\ Recovered' = Recovered
  BY DEF LogClean, Recovered, TooLong, Content, ParsesTo, Range

\* A truncated log is clean and recovers nothing.
LEMMA EmptyLogRecovers ==
  ASSUME lines' = <<>>, tail' = {}
  PROVE  LogClean' /\ Recovered' = {}
  <1>1. Content' = <<>>
    BY DEF Content
  <1> QED BY <1>1, RangeEmpty DEF LogClean, TooLong, Recovered

----------------------------------------------------------------------------
(* The promise of Append.                                                  *)

LogInv == WALTypeOK /\ LogClean /\ LoggedRecoverable

\* LogInv is inductive on a disk that works, with lines that fit the scanner.
LEMMA LogInductive ==
  ASSUME ~DiskFaults, Oversize = {}, LogInv, [WALNext]_walVars
  PROVE  LogInv'
  <1>1. ASSUME NEW e \in Entry, WALAppend(e) PROVE LogInv'
    <2>1. WALTypeOK'
      BY <1>1, WALOpTypes DEF WALAppend, LogInv
    <2>2. CASE AppendOK(e)
      <3>1. LogClean' /\ Recovered' = Recovered \cup {e}
        BY <2>2, AppendRecovers DEF AppendOK, LogInv
      <3> QED BY <2>1, <2>2, <3>1 DEF AppendOK, LogInv, LoggedRecoverable
    <2>3. CASE AppendRefused
      <3>1. LogClean' /\ Recovered' = Recovered
        BY <2>3, SameLogRecovers DEF AppendRefused, LogInv
      <3> QED BY <2>1, <2>3, <3>1 DEF AppendRefused, LogInv, LoggedRecoverable
    <2> QED BY <1>1, <2>2, <2>3 DEF WALAppend, AppendEntry, AppendWriteError, AppendSyncError
  <1>2. ASSUME NEW e \in Entry, WALCrashInAppend(e) PROVE LogInv'
    <2>1. AppendCutShort(e) /\ ~walOpen' /\ ~encErr' /\ logged' = {}
      BY <1>2 DEF WALCrashInAppend
    <2>2. CASE UNCHANGED <<lines, tail>>
      BY <1>2, <2>1, <2>2, SameLogRecovers
      DEF WALCrashInAppend, LogInv, WALTypeOK, LoggedRecoverable
    <2>3. CASE lines' = Append(lines, tail \cup {Whole(e)}) /\ tail' = {}
      <3>1. LogClean'
        BY <2>3, AppendRecovers DEF LogInv
      <3>2. lines' \in Seq(SUBSET Fragment)
        BY <2>3, WriteTypes DEF LogInv
      <3> QED BY <1>2, <2>3, <3>1, <3>2 DEF WALCrashInAppend, LogInv, WALTypeOK, LoggedRecoverable
    <2> QED BY <2>1, <2>2, <2>3 DEF AppendCutShort
  <1>3. CASE WALReset
    <2>1. WALTypeOK'
      BY <1>3, WALOpTypes DEF WALReset, LogInv
    <2>2. lines' = <<>> /\ tail' = {} /\ logged' = {}
      BY <1>3 DEF WALReset, ResetWAL, EmptyFile
    <2> QED BY <2>1, <2>2, EmptyLogRecovers DEF LogInv, LoggedRecoverable
  <1>4. CASE WALClose \/ WALCrash
    <2>1. WALTypeOK'
      BY <1>4 DEF WALClose, CloseWAL, WALCrash, LogInv, WALTypeOK
    <2>2. UNCHANGED <<lines, tail>> /\ ~walOpen'
      BY <1>4 DEF WALClose, CloseWAL, WALCrash
    <2> QED BY <2>1, <2>2, SameLogRecovers DEF LogInv, LoggedRecoverable
  <1>5. CASE WALStart
    <2>1. WALTypeOK'
      BY <1>5, WALOpTypes DEF WALStart, LogInv
    <2>2. UNCHANGED <<lines, tail>> /\ logged' = Recovered
      BY <1>5 DEF WALStart, OpenAndRecover
    <2> QED BY <2>1, <2>2, SameLogRecovers DEF LogInv, LoggedRecoverable
  <1>6. CASE UNCHANGED walVars
    <2>1. WALTypeOK'
      BY <1>6, WALOpTypes DEF LogInv
    <2>2. UNCHANGED <<lines, tail, walOpen, logged>>
      BY <1>6 DEF walVars
    <2> QED BY <2>1, <2>2, SameLogRecovers DEF LogInv, LoggedRecoverable
  <1> QED BY <1>1, <1>2, <1>3, <1>4, <1>5, <1>6 DEF WALNext

\* On a disk that neither fails nor tears writes, and for entries whose lines
\* fit Recover's buffer, the entries Append has reported written are at every
\* moment exactly the ones a restart would replay.
THEOREM AppendIsDurable ==
  ASSUME ~DiskFaults, Oversize = {}
  PROVE  WALSpec => []LoggedRecoverable
  <1>1. WALInit => LogInv
    <2> SUFFICES ASSUME WALInit PROVE LogInv
      OBVIOUS
    <2>1. <<>> \in Seq(SUBSET Fragment)
      OBVIOUS
    <2>2. WALTypeOK
      BY <2>1 DEF WALInit, WALTypeOK
    <2>3. Content = <<>>
      BY DEF WALInit, Content
    <2>4. LogClean /\ Recovered = {}
      BY <2>3, RangeEmpty DEF WALInit, LogClean, TooLong, Recovered
    <2> QED BY <2>2, <2>4 DEF WALInit, LogInv, LoggedRecoverable
  <1>2. LogInv /\ [WALNext]_walVars => LogInv'
    BY LogInductive
  <1>3. LogInv => LoggedRecoverable
    BY DEF LogInv
  <1> QED BY <1>1, <1>2, <1>3, PTL DEF WALSpec

----------------------------------------------------------------------------
(* The damage of a torn write.                                             *)

\* The lines of a log with the terminated lines L and the unterminated T.
LEMMA ContentRange ==
  ASSUME NEW L \in Seq(SUBSET Fragment), NEW T \in SUBSET Fragment
  PROVE  Range(IF T = {} THEN L ELSE Append(L, T)) = Range(L) \cup ({T} \ {{}})
  <1>1. CASE T = {}
    BY <1>1
  <1>2. CASE T # {}
    <2>1. Range(Append(L, T)) = Range(L) \cup {T}
      BY RangeAppend
    <2> QED BY <1>2, <2>1
  <1> QED BY <1>1, <1>2

\* What a write of e can do to the file: nothing, a line, or an unterminated line.
Written(e) ==
  \/ UNCHANGED <<lines, tail>>
  \/ lines' = Append(lines, tail \cup {Whole(e)}) /\ tail' = {}
  \/ tail' \in TornTails(e) /\ UNCHANGED lines

\* A write keeps every line but the unterminated one, to which it may add, and
\* a line that is added whole is there afterwards.
LEMMA LinesKept ==
  ASSUME WALTypeOK, WALTypeOK', NEW e \in Entry, Written(e)
  PROVE  /\ \A line \in Range(Content) : line = tail \/ line \in Range(Content')
         /\ \E line \in Range(Content') \cup {{}} : tail \subseteq line
         /\ lines' = Append(lines, tail \cup {Whole(e)}) /\ tail = {} => {Whole(e)} \in Range(Content')
  <1> DEFINE Lines == SUBSET Fragment
             long == tail \cup {Whole(e)}
  <1>1. long \in Lines /\ lines \in Seq(Lines) /\ tail \in Lines /\ tail' \in Lines
        /\ lines' \in Seq(Lines)
    <2>1. Whole(e) \in Fragment
      BY DEF Whole, Fragment
    <2> QED BY <2>1 DEF WALTypeOK
  <1>2. /\ Range(Content) = Range(lines) \cup ({tail} \ {{}})
        /\ Range(Content') = Range(lines') \cup ({tail'} \ {{}})
    BY <1>1, ContentRange DEF Content
  <1>3. Range(Append(lines, long)) = Range(lines) \cup {long}
    <2> HIDE DEF Lines, long
    <2> QED BY <1>1, RangeAppend
  <1>4. CASE UNCHANGED <<lines, tail>> /\ lines' # Append(lines, long)
    BY <1>2, <1>4
  <1>5. CASE lines' = Append(lines, long)
    BY <1>2, <1>3, <1>5
  <1>6. CASE tail' \in TornTails(e) /\ UNCHANGED lines /\ lines' # Append(lines, long)
    <2>1. tail \subseteq tail'
      BY <1>6, Zenon DEF TornTails
    <2> QED BY <1>2, <1>6, <2>1
  <1> QED BY <1>4, <1>5, <1>6 DEF Written

\* A write never shortens a line, and costs a restart at most the entry of the
\* unterminated line; with the file ended by a newline it costs none.
LEMMA WriteCosts ==
  ASSUME WALTypeOK, WALTypeOK', NEW e \in Entry, Written(e), ~TooLong'
  PROVE  /\ ~TooLong
         /\ \E x \in Entry : Recovered \subseteq Recovered' \cup {x}
         /\ tail = {} => Recovered \subseteq Recovered'
         /\ lines' = Append(lines, tail \cup {Whole(e)}) /\ tail = {} => e \in Recovered'
  <1>1. ~TooLong
    <2> SUFFICES ASSUME NEW line \in Range(Content)
                 PROVE  /\ \A f \in line : ~f.long
                        /\ \A long \in LongTogether : ~(long \subseteq line)
      BY DEF TooLong
    <2>1. \E kept \in Range(Content') \cup {{}} : line \subseteq kept
      BY LinesKept
    <2>2. PICK kept \in Range(Content') \cup {{}} : line \subseteq kept
      BY <2>1
    <2>3. \A f \in kept : ~f.long
      BY DEF TooLong
    <2>4. \A long \in LongTogether : ~(long \subseteq kept)
      <3>1. CASE kept = {}
        BY <3>1, WALAssumption
      <3>2. CASE kept # {}
        BY <2>2, <3>2 DEF TooLong
      <3> QED BY <3>1, <3>2
    <2> QED BY <2>2, <2>3, <2>4
  <1>2. /\ Recovered = {d \in Entry : \E line \in Range(Content) : ParsesTo(line, d)}
        /\ Recovered' = {d \in Entry : \E line \in Range(Content') : ParsesTo(line, d)}
    BY <1>1 DEF Recovered, ParsesTo
  <1>3. \A d \in Recovered : d \in Recovered' \/ ParsesTo(tail, d)
    BY <1>2, LinesKept
  <1>4. \A c, d \in Entry : ParsesTo(tail, c) /\ ParsesTo(tail, d) => c = d
    <2>1. \A d \in Entry : Whole(d).entry = d
      BY DEF Whole
    <2> QED BY <2>1 DEF ParsesTo
  <1>5. \E x \in Entry : Recovered \subseteq Recovered' \cup {x}
    <2>1. Recovered \subseteq Entry
      BY <1>2
    <2>2. CASE \E x \in Entry : ParsesTo(tail, x)
      BY <1>3, <1>4, <2>1, <2>2
    <2>3. CASE ~\E x \in Entry : ParsesTo(tail, x)
      BY <1>3, <2>1, <2>3
    <2> QED BY <2>2, <2>3
  <1>6. tail = {} => Recovered \subseteq Recovered'
    BY <1>3 DEF ParsesTo
  <1>7. lines' = Append(lines, tail \cup {Whole(e)}) /\ tail = {} => e \in Recovered'
    BY <1>2, LinesKept DEF ParsesTo
  <1> QED BY <1>1, <1>5, <1>6, <1>7

\* Until the encoder has failed, an unterminated line is one found at the start,
\* and nothing has been lost to it yet.
TornInv ==
  walOpen /\ ~stale /\ ~TooLong =>
    /\ \E x, y : logged \ Recovered \subseteq {x, y}
    /\ ~encErr /\ tail # {} => logged \subseteq Recovered

\* A write keeps TornInv.
LEMMA AppendContained ==
  ASSUME WALTypeOK, WALTypeOK', TornInv, NEW e \in Entry, AppendEntry(e)
  PROVE  TornInv'
  <1> SUFFICES ASSUME walOpen', ~stale', ~TooLong'
               PROVE  /\ \E x, y : logged' \ Recovered' \subseteq {x, y}
                      /\ ~encErr' /\ tail' # {} => logged' \subseteq Recovered'
    BY DEF TornInv
  <1>1. walOpen /\ ~stale /\ Written(e)
    <2>1. walOpen /\ Written(e)
      BY DEF AppendEntry, AppendOK, AppendRefused, AppendWriteError, AppendSyncError, Written
    <2>2. stale' = stale
      BY DEF AppendEntry, AppendOK, AppendRefused, AppendWriteError, AppendSyncError
    <2> QED BY <2>1, <2>2
  <1>2. /\ ~TooLong
        /\ \E x \in Entry : Recovered \subseteq Recovered' \cup {x}
        /\ tail = {} => Recovered \subseteq Recovered'
        /\ lines' = Append(lines, tail \cup {Whole(e)}) /\ tail = {} => e \in Recovered'
    BY <1>1, WriteCosts
  <1>3. PICK x, y : logged \ Recovered \subseteq {x, y}
    BY <1>1, <1>2 DEF TornInv
  <1>4. PICK z \in Entry : Recovered \subseteq Recovered' \cup {z}
    BY <1>2
  <1>5. tail # {} /\ ~encErr => logged \subseteq Recovered
    BY <1>1, <1>2 DEF TornInv
  <1>6. CASE AppendOK(e)
    <2>1. CASE tail = {}
      <3>1. logged' \ Recovered' \subseteq {x, y}
        BY <1>2, <1>3, <1>6, <2>1 DEF AppendOK
      <3> QED BY <3>1, <1>6 DEF AppendOK
    <2>2. CASE tail # {}
      <3>1. logged' \ Recovered' \subseteq {z, e}
        BY <1>4, <1>5, <1>6, <2>2 DEF AppendOK
      <3> QED BY <3>1, <1>6 DEF AppendOK
    <2> QED BY <2>1, <2>2
  <1>7. CASE AppendRefused
    <2>1. Recovered' = Recovered
      BY <1>7, SameLogRecovers DEF AppendRefused
    <2> QED BY <1>3, <1>7, <2>1 DEF AppendRefused
  <1>8. CASE AppendWriteError(e) \/ AppendSyncError(e)
    <2>1. logged' = logged /\ ~encErr
      BY <1>8 DEF AppendWriteError, AppendSyncError
    <2>2. \E c, d : logged' \ Recovered' \subseteq {c, d}
      <3>1. CASE tail = {}
        <4>1. logged' \ Recovered' \subseteq {x, y}
          BY <1>2, <1>3, <2>1, <3>1
        <4> QED BY <4>1
      <3>2. CASE tail # {}
        <4>1. logged' \ Recovered' \subseteq {z, z}
          BY <1>4, <1>5, <2>1, <3>2
        <4> QED BY <4>1
      <3> QED BY <3>1, <3>2
    <2>3. ~encErr' /\ tail' # {} => UNCHANGED <<lines, tail>>
      BY <1>8 DEF AppendWriteError, AppendSyncError
    <2>4. UNCHANGED <<lines, tail>> => Recovered' = Recovered
      BY SameLogRecovers
    <2> QED BY <1>5, <2>1, <2>2, <2>3, <2>4
  <1> QED BY <1>6, <1>7, <1>8 DEF AppendEntry

\* TornInv is inductive, whatever the disk does.
LEMMA TornInductive ==
  ASSUME WALTypeOK, TornInv, [WALNext]_walVars
  PROVE  WALTypeOK' /\ TornInv'
  <1>1. ASSUME NEW e \in Entry, WALAppend(e) PROVE WALTypeOK' /\ TornInv'
    <2>1. AppendEntry(e)
      BY <1>1 DEF WALAppend
    <2>2. WALTypeOK'
      BY <2>1, WALOpTypes
    <2> QED BY <2>1, <2>2, AppendContained
  <1>2. ASSUME NEW e \in Entry, WALCrashInAppend(e) PROVE WALTypeOK' /\ TornInv'
    <2>1. /\ AppendCutShort(e) /\ walOpen' = FALSE /\ encErr' = FALSE /\ logged' = {}
          /\ stale' = FALSE
      BY <1>2 DEF WALCrashInAppend
    <2>2. lines' \in Seq(SUBSET Fragment) /\ tail' \subseteq Fragment
      BY <2>1, WriteTypes DEF AppendCutShort, WALTypeOK
    <2> QED BY <2>1, <2>2 DEF WALTypeOK, TornInv
  <1>3. CASE WALReset
    <2>1. WALTypeOK'
      BY <1>3, WALOpTypes DEF WALReset
    <2>2. CASE tail' = {} /\ logged' = {}
      BY <2>1, <2>2 DEF TornInv
    <2>3. CASE UNCHANGED walVars
      <3>1. Recovered' = Recovered /\ (TooLong' <=> TooLong)
        BY <2>3 DEF walVars, Recovered, TooLong, Content, ParsesTo, Range
      <3> QED BY <2>1, <2>3, <3>1 DEF TornInv, walVars
    <2>4. \/ tail' = {} /\ logged' = {}
          \/ stale' = TRUE
          \/ UNCHANGED walVars
      BY <1>3 DEF WALReset, ResetWAL, EmptyFile
    <2>5. CASE stale' = TRUE
      BY <2>1, <2>5 DEF TornInv
    <2> QED BY <2>2, <2>3, <2>4, <2>5
  <1>4. CASE WALClose \/ WALCrash
    BY <1>4 DEF WALClose, CloseWAL, WALCrash, WALTypeOK, TornInv
  <1>5. CASE WALStart
    <2>1. WALTypeOK'
      BY <1>5, WALOpTypes DEF WALStart
    <2>2. UNCHANGED <<lines, tail>> /\ logged' \subseteq Recovered
      BY <1>5 DEF WALStart, OpenAndRecover
    <2>3. logged' \subseteq Recovered'
      BY <2>2, SameLogRecovers
    <2> QED BY <2>1, <2>3 DEF TornInv
  <1>6. CASE UNCHANGED walVars
    <2>1. WALTypeOK'
      BY <1>6, WALOpTypes
    <2>2. Recovered' = Recovered /\ (TooLong' <=> TooLong)
      BY <1>6 DEF walVars, Recovered, TooLong, Content, ParsesTo, Range
    <2> QED BY <1>6, <2>1, <2>2 DEF TornInv, walVars
  <1> QED BY <1>1, <1>2, <1>3, <1>4, <1>5, <1>6 DEF WALNext

\* TornInv bounds the damage.
LEMMA TornContains ==
  ASSUME TornInv
  PROVE  TornWriteContained
  <1> SUFFICES ASSUME walOpen, ~stale, ~TooLong
               PROVE  Cardinality(logged \ Recovered) <= 2
    BY DEF TornWriteContained
  <1>1. PICK x, y : logged \ Recovered \subseteq {x, y}
    BY DEF TornInv
  <1>2. IsFiniteSet({x, y}) /\ Cardinality({x, y}) \in Nat /\ Cardinality({x, y}) <= 2
    <2>1. IsFiniteSet({x}) /\ Cardinality({x}) = 1
      BY FS_Singleton
    <2>2. /\ IsFiniteSet({x} \cup {y})
          /\ Cardinality({x} \cup {y}) = 1 \/ Cardinality({x} \cup {y}) = 2
      BY <2>1, FS_AddElement
    <2>3. {x} \cup {y} = {x, y}
      OBVIOUS
    <2> QED BY <2>2, <2>3
  <1>3. Cardinality(logged \ Recovered) \in Nat
        /\ Cardinality(logged \ Recovered) <= Cardinality({x, y})
    BY <1>1, <1>2, FS_Subset, FS_CardinalityType
  <1> QED BY <1>2, <1>3

\* Whatever writes, fsyncs and reads fail, and wherever the process is cut short,
\* at most two entries of the log that Append reported written, or Recover has
\* returned, would not come back from a restart.
THEOREM DamageIsContained == WALSpec => []TornWriteContained
  <1>1. WALInit => WALTypeOK /\ TornInv
    <2> SUFFICES ASSUME WALInit PROVE WALTypeOK /\ TornInv
      OBVIOUS
    <2>1. <<>> \in Seq(SUBSET Fragment)
      OBVIOUS
    <2> QED BY <2>1 DEF WALInit, WALTypeOK, TornInv
  <1>2. WALTypeOK /\ TornInv /\ [WALNext]_walVars => WALTypeOK' /\ TornInv'
    BY TornInductive
  <1>3. TornInv => TornWriteContained
    BY TornContains
  <1> QED BY <1>1, <1>2, <1>3, PTL DEF WALSpec
=============================================================================
