---------------------------- MODULE MCDataMover -----------------------------
(* Instantiation of DataMover for TLC: the two threads the worker server's *)
(* DataMover starts by default (num_threads = 2) and one caller.          *)
EXTENDS DataMover

MCWorkers == {"w1", "w2"}
=============================================================================
