----------------------------- MODULE MCJournal -----------------------------
EXTENDS Journal

MCThreads == {"t1", "t2"}

=============================================================================
