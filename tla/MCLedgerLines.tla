--------------------------- MODULE MCLedgerLines ---------------------------
(* Five entries: two torn lines, with an entry before, between and behind.  *)
EXTENDS LedgerLines
============================================================================
