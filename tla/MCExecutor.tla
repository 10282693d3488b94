----------------------------- MODULE MCExecutor -----------------------------
(* Two slots: one can be polled while the other is ahead in the pass,       *)
(* behind it, finished, or recycled.                                        *)
EXTENDS Executor
=============================================================================
