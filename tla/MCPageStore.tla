---------------------------- MODULE MCPageStore -----------------------------
(* Instantiation of PageStore for TLC.                                     *)
EXTENDS PageStore

MCThreads == {"t1", "t2"}
MCPageIdx == {0, 1}
=============================================================================
