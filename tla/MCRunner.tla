----------------------------- MODULE MCRunner -----------------------------
(* Instances of Runner for TLC: one goroutine of the timer beside the worker. *)
EXTENDS Runner

OneFlusher == {"flush1"}
===========================================================================
