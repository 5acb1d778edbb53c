---------------------------- MODULE Gx2Immediate ----------------------------
(***************************************************************************)
(* What GX2 promises a title: an immediate machine.  A call binds a value   *)
(* to a slot as the value is when it is called, within the widths of the    *)
(* hardware's fields, and leaves the other slots alone; a draw uses what is *)
(* bound when it is issued.  call is the interface: the title's last call,  *)
(* numbered.                                                                *)
(***************************************************************************)
EXTENDS Gx2Fields, SequencesExt

CONSTANT Cleared   \* what each slot made of registers says when they are zero

VARIABLES call,
          bound,   \* the value of each slot that has one
          drawn

vars == <<call, bound, drawn>>

\* The state a context restore does not reach.
NotRestored == {<<"PolygonOffset", 0>>}

Calls(name)        == call'.n = call.n + 1 /\ call'.name = name
Bound(slot, value) == bound' = Over(Entry(slot, value), bound) /\ UNCHANGED drawn

Set == Calls("Set") /\ Bound(call'.slot, Kept(call'.slot[1], call'.value))
\* The short call for depth turns the stencil test off.
SetDepthOnly ==
  /\ Calls("SetDepthOnly")
  /\ Bound(<<"DepthStencilControl", 0>>,
           Kept("DepthStencilControl", call'.value \o [n \in 1..10 |-> 0]))
Bind   == Calls("Bind") /\ Bound(call'.slot, call'.value)
Unbind ==
  /\ Calls("Unbind")
  /\ bound' = [slot \in DOMAIN bound \ {call'.slot} |-> bound[slot]]
  /\ UNCHANGED drawn
Draw == /\ Calls("Draw")
        /\ drawn' = Append(drawn, [call |-> call'.value, bound |-> bound])
        /\ UNCHANGED bound
Restore ==
  /\ Calls("Restore")
  /\ bound' = Over([slot \in DOMAIN Cleared \ NotRestored |-> Cleared[slot]], bound)
  /\ UNCHANGED drawn
\* Calls before GX2Init may be lost.
Initialise ==
  /\ Calls("Initialise")
  /\ DOMAIN bound' \subseteq DOMAIN bound
  /\ IsPrefix(drawn', drawn)
Other == (Calls("Other") \/ Calls("Failed")) /\ UNCHANGED <<bound, drawn>>

Init == bound = <<>> /\ drawn = <<>>
Next == Set \/ SetDepthOnly \/ Bind \/ Unbind \/ Draw \/ Restore \/ Initialise \/ Other
Spec == Init /\ [][Next]_vars
=============================================================================
