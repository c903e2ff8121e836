---------------------------- MODULE MCInodeTree -----------------------------
(* Instantiation of InodeTree for TLC.                                     *)
EXTENDS InodeTree

\* Operation batches may fail; the cursor commit always succeeds.
MCOpFailures == {"op"}
\* Only the cursor commit may fail.
MCCursorFailures == {"cursor"}
\* No commit fails.
MCNoFailures == {}
=============================================================================
