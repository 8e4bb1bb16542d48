-------------------------------- MODULE WAL --------------------------------
(***************************************************************************)
(* The write-ahead log of the ingester (internal/ingester/wal.go): one     *)
(* NDJSON file opened with O_APPEND, written one entry at a time and       *)
(* fsynced after every entry, read back once when the process starts and   *)
(* truncated by Reset.                                                     *)
(*                                                                         *)
(* A line is abstracted to the set of JSON fragments written between two   *)
(* newlines.  It parses back to an entry exactly when it is one complete   *)
(* fragment; two fragments on one line never parse, which is what happens  *)
(* to the first entry written after an unterminated one.  tail is the      *)
(* unterminated last line, {} when the file ends in a newline.             *)
(*                                                                         *)
(* The operations are whole here, as wal.go has them: "all methods are     *)
(* called while the Buffer mutex is held".  Stop calls Reset without it;   *)
(* Buffer models that Reset statement by statement.                        *)
(***************************************************************************)
EXTENDS LogEntries, Naturals, Sequences, FiniteSets, Functions

CONSTANTS
  Oversize,      \* entries whose line does not fit the 1 MiB scanner buffer
  LongTogether,  \* sets of fragments that do not fit it when they share a line
  DiskFaults     \* TRUE: a write may fail or be torn, a read, seek or fsync may fail

ASSUME WALAssumption ==
  /\ Oversize \subseteq Entry
  /\ \A long \in LongTogether : \E f, g \in long : f # g
  /\ DiskFaults \in BOOLEAN

VARIABLES
  lines,       \* the terminated lines of wal.ndjson, oldest first
  tail,        \* the unterminated last line, {} if there is none
  encErr,      \* json.Encoder keeps its first write error and returns it ever after
  walOpen,     \* the *os.File is open
  logged,      \* the entries counted by w.n: written, or recovered, since Reset
  stale        \* (history) Reset has emptied the file and not got to the count

walVars == <<lines, tail, encErr, walOpen, logged, stale>>

Fragment == [entry : Entry, whole : BOOLEAN, long : BOOLEAN]

\* The complete JSON object of e, and a proper prefix of it.
Whole(e) == [entry |-> e, whole |-> TRUE, long |-> e \in Oversize]
Part(e, long) == [entry |-> e, whole |-> FALSE, long |-> long]

\* The unterminated lines that a write of e cut short can leave behind.
TornTails(e) ==
  {tail, tail \cup {Whole(e)}}
    \cup {tail \cup {Part(e, long)} : long \in {FALSE, (e \in Oversize)}}

WALTypeOK ==
  /\ lines \in Seq(SUBSET Fragment)
  /\ tail \subseteq Fragment
  /\ encErr \in BOOLEAN
  /\ walOpen \in BOOLEAN
  /\ logged \subseteq Entry
  /\ stale \in BOOLEAN

----------------------------------------------------------------------------
(* What Recover reads back.                                                *)

\* bufio.Scanner yields a final line even when its newline is missing.
Content == IF tail = {} THEN lines ELSE Append(lines, tail)

ParsesTo(line, e) == line = {Whole(e)}

\* Scan stops with ErrTooLong at such a line and Recover returns no entry at all.
TooLong ==
  \E line \in Range(Content) :
    \/ \E f \in line : f.long
    \/ \E long \in LongTogether : long \subseteq line

\* The entries Recover returns when reading the file succeeds.
Recovered ==
  IF TooLong THEN {}
  ELSE {e \in Entry : \E line \in Range(Content) : ParsesTo(line, e)}

\* e is the first entry that Recover returns.
FirstRecovered(e) ==
  \E i \in DOMAIN Content :
    /\ ParsesTo(Content[i], e)
    /\ \A j \in 1 .. i - 1 : \A d \in Entry : ~ParsesTo(Content[j], d)

----------------------------------------------------------------------------
(* The operations.  Each constrains every variable of walVars.             *)

WALInit ==
  /\ lines = <<>>
  /\ tail = {}
  /\ encErr = FALSE
  /\ walOpen = TRUE
  /\ logged = {}
  /\ stale = FALSE

\* Append: the line is written and fsynced.
AppendOK(e) ==
  /\ walOpen /\ ~encErr
  /\ lines' = Append(lines, tail \cup {Whole(e)})
  /\ tail' = {}
  /\ logged' = logged \cup {e}
  /\ UNCHANGED <<encErr, walOpen, stale>>

\* Append after an earlier write error, or on the closed file: nothing is written.
AppendRefused ==
  /\ encErr \/ ~walOpen
  /\ encErr' = TRUE
  /\ UNCHANGED <<lines, tail, walOpen, logged, stale>>

\* Mutant: an encoder that writes on after a failed write.
AppendWriteErrorForgotten(e) ==
  /\ DiskFaults /\ walOpen /\ ~encErr
  /\ tail' \in TornTails(e)
  /\ UNCHANGED <<lines, encErr, walOpen, logged, stale>>

\* Append whose write fails after a prefix of the line: the encoder is dead from now on.
AppendWriteError(e) ==
  /\ DiskFaults /\ walOpen /\ ~encErr
  /\ tail' \in TornTails(e)
  /\ encErr' = TRUE
  /\ UNCHANGED <<lines, walOpen, logged, stale>>

\* Append whose fsync fails: the line may or may not have reached the disk.
AppendSyncError(e) ==
  /\ DiskFaults /\ walOpen /\ ~encErr
  /\ \/ UNCHANGED <<lines, tail>>
     \/ /\ lines' = Append(lines, tail \cup {Whole(e)})
        /\ tail' = {}
  /\ UNCHANGED <<encErr, walOpen, logged, stale>>

\* Append, whatever comes of it.
AppendEntry(e) ==
  AppendOK(e) \/ AppendRefused \/ AppendWriteError(e) \/ AppendSyncError(e)

\* The process dies inside Append: the line is missing, complete or, on a
\* disk that can tear writes, cut short.
AppendCutShort(e) ==
  /\ walOpen /\ ~encErr
  /\ \/ UNCHANGED <<lines, tail>>
     \/ /\ lines' = Append(lines, tail \cup {Whole(e)})
        /\ tail' = {}
     \/ /\ DiskFaults
        /\ tail' \in TornTails(e)
        /\ UNCHANGED lines

\* The truncate of Reset.
EmptyFile == walOpen /\ lines' = <<>> /\ tail' = {}

\* Reset: truncate, rewind, take a new encoder and start the count over.  If
\* the truncate fails nothing changes; if the rewind fails the encoder and the
\* count stay as they were, over an empty file.
ResetWAL ==
  \/ /\ EmptyFile
     /\ encErr' = FALSE
     /\ logged' = {}
     /\ stale' = FALSE
     /\ UNCHANGED walOpen
  \/ /\ DiskFaults /\ EmptyFile
     /\ stale' = TRUE
     /\ UNCHANGED <<encErr, walOpen, logged>>
  \/ /\ DiskFaults \/ ~walOpen
     /\ UNCHANGED walVars

CloseWAL ==
  /\ walOpen' = FALSE
  /\ UNCHANGED <<lines, tail, encErr, logged, stale>>

\* Mutant: Recover does not count the entries it returns.
OpenAndRecoverUncounted(recovered) ==
  /\ \/ recovered = Recovered
     \/ DiskFaults /\ recovered = {}
  /\ walOpen' = TRUE
  /\ encErr' = FALSE
  /\ logged' = {}
  /\ stale' = FALSE
  /\ UNCHANGED <<lines, tail>>

\* OpenWAL followed by Recover, which returns the entries recovered.  The
\* file is left as it was found, unterminated last line included.
OpenAndRecover(recovered) ==
  /\ \/ recovered = Recovered
     \/ DiskFaults /\ recovered = {}
  /\ walOpen' = TRUE
  /\ encErr' = FALSE
  /\ logged' = recovered
  /\ stale' = FALSE
  /\ UNCHANGED <<lines, tail>>

----------------------------------------------------------------------------
(* The log on its own, driven by any sequence of calls a process may make  *)
(* and by process crashes.                                                 *)

\* e has never been written to the file as it is now.
Unwritten(e) == \A line \in Range(Content) : \A f \in line : f.entry # e

WALAppend(e) == Unwritten(e) /\ AppendEntry(e)

WALCrashInAppend(e) ==
  /\ Unwritten(e)
  /\ AppendCutShort(e)
  /\ walOpen' = FALSE
  /\ encErr' = FALSE
  /\ logged' = {}
  /\ stale' = FALSE

WALReset == walOpen /\ ResetWAL

WALClose == walOpen /\ CloseWAL

\* The process ends, with its log open or closed.
WALCrash ==
  /\ walOpen' = FALSE
  /\ encErr' = FALSE
  /\ logged' = {}
  /\ stale' = FALSE
  /\ UNCHANGED <<lines, tail>>

WALStart == ~walOpen /\ \E recovered \in SUBSET Entry : OpenAndRecover(recovered)

WALNext ==
  \/ \E e \in Entry : WALAppend(e)
  \/ \E e \in Entry : WALCrashInAppend(e)
  \/ WALReset
  \/ WALClose
  \/ WALCrash
  \/ WALStart

WALSpec == WALInit /\ [][WALNext]_walVars

----------------------------------------------------------------------------
\* Append's promise, on a disk that neither fails nor tears writes and with
\* lines that fit the scanner: at every moment the entries that Append has
\* reported written (or Recover has returned) since the last Reset are exactly
\* the ones a restart would replay, so the counter w.n never lies.
LoggedRecoverable == walOpen => logged = Recovered

\* The half of it that wal.go's header promises without a condition: entries
\* that have been written "survive process crashes" (Reset is there to forget them).
LoggedSurvives == walOpen /\ ~stale => logged \subseteq Recovered

\* The damage of one torn write is contained: whatever writes, fsyncs and reads
\* fail, a process never has more than two entries in its log that a restart
\* would not replay, the unterminated one it found and the one glued to it.
\* It rests on json.Encoder refusing every write after a failed one.  A Reset that
\* fails half way leaves the count to be wrong by more, until the next one.
TornWriteContained == walOpen /\ ~stale /\ ~TooLong => Cardinality(logged \ Recovered) <= 2
=============================================================================
