-------------------------- MODULE MCCafeScheduler --------------------------
(* Constants of the CafeScheduler runs. *)
EXTENDS CafeScheduler

CONSTANTS main, worker, helper

\* The default thread is as urgent as the worker; the helper is less urgent.
MCPriority ==
  [t \in Thread |-> CASE t = main -> 1 [] t = worker -> 1 [] OTHER -> 2]
============================================================================
