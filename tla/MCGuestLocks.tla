---------------------------- MODULE MCGuestLocks ----------------------------
(* Constants of the GuestLocks runs. *)
EXTENDS GuestLocks

\* Both threads are equally urgent, so a yield hands the core over.
MCPriority == [t \in Thread |-> 1]
=============================================================================
