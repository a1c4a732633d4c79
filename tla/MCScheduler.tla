----------------------------- MODULE MCScheduler -----------------------------
(* Instances of module Scheduler for TLC. *)
EXTENDS Scheduler

CONSTANTS g1, g2

TwoPasses == {g1, g2}
=============================================================================
