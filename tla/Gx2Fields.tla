------------------------------ MODULE Gx2Fields -----------------------------
(***************************************************************************)
(* What a register state keeps of the arguments of its call: the widths of  *)
(* the hardware's fields.                                                   *)
(***************************************************************************)
EXTENDS Gx2Basics, Integers, Sequences

\* The fields of each state in the order of its call: bits kept, or 0 for a flag.
Widths ==
  [DepthStencilControl |-> <<0, 0, 3, 0, 0, 3, 3, 3, 3, 3, 3, 3, 3>>,
   StencilMask         |-> <<8, 8, 8, 8, 8, 8>>,
   PolygonControl      |-> <<0, 0, 0, 2, 3, 3, 0, 0, 0>>,
   PolygonOffset       |-> <<31, 31, 31, 31, 31>>,
   PointLimits         |-> <<16, 16>>,
   ColorControl        |-> <<8, 8, 0, 0>>,
   BlendControl        |-> <<31, 5, 5, 3, 0, 5, 5, 3>>,
   BlendConstantColor  |-> <<31, 31, 31, 31>>,
   AlphaTest           |-> <<0, 3, 31>>,
   TargetChannelMasks  |-> <<4, 4, 4, 4, 4, 4, 4, 4>>,
   AAMask              |-> <<8, 8, 8, 8>>,
   AlphaToMask         |-> <<0, 3>>,
   Scissor             |-> <<15, 15, 15, 15>>,
   WindowOffset        |-> <<16, 16>>]

KeptField(width, x) == IF width = 0 THEN (IF x # 0 THEN 1 ELSE 0)
                       ELSE IF width = 31 THEN x ELSE x % 2^width
\* Point and line sizes are kept to an eighth, the argument counts sixteenths.
Kept(state, args) ==
  CASE state \in {"PointSize", "LineWidth"} -> [n \in DOMAIN args |-> 2 * (args[n] \div 2)]
    [] state = "Viewport" -> args
    [] OTHER -> [n \in DOMAIN args |-> KeptField(Widths[state][n], args[n])]
=============================================================================
