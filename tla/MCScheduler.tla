----------------------------- MODULE MCScheduler -----------------------------
(* The chain of a product, for Scheduler. Without "plan" and "materialize"  *)
(* it still has a node of every lane and every gate.                        *)
EXTENDS Scheduler

MCChain == << "reserve", "validate", "load" >>
=============================================================================
