----------------------------- MODULE MCJitCache -----------------------------
(* Bounds of the JitCache runs. *)
EXTENDS JitCache

CONSTANT MCStart  \* the programs' first instruction

\* Programs start at a fixed address; the rest of the initial state is free.
MCInit == Init /\ cia = MCStart
MCSpec == MCInit /\ [][Next]_vars
=============================================================================
