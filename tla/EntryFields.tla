---------------------------- MODULE EntryFields ----------------------------
(* The fields of domain.LogEntry that chunks are filed and found by.       *)
EXTENDS LogEntries

CONSTANTS
  Timestamp,     \* Timestamp[e], stamped by the handler if the client left it out
  Service        \* Service[e]
=============================================================================
