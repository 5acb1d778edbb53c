------------------------------ MODULE Gx2Basics -----------------------------
(***************************************************************************)
(* The maps of the GX2 modules, as functions on the keys they have, and     *)
(* powers of two.                                                           *)
(***************************************************************************)
EXTENDS Integers

\* The map of one entry.
Entry(key, value) == [k \in {key} |-> value]
\* Map g with the entries of f put into it.
Over(f, g) == [k \in DOMAIN f \cup DOMAIN g |-> IF k \in DOMAIN f THEN f[k] ELSE g[k]]

\* 2^k, as a recursive function.
TwoTo[k \in Nat] == IF k = 0 THEN 1 ELSE 2 * TwoTo[k - 1]
=============================================================================
