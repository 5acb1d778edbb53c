-------------------------- MODULE MCIntegerEngines --------------------------
(* Instances of IntegerEngines on words of eight bits: every instruction on   *)
(* the boundary values, then short blocks and pairs.                          *)
EXTENDS IntegerEngines

Machine(a, b, c, d, xer, cr) ==
  [gpr |-> [r \in 0..3 |-> CASE r = 0 -> a [] r = 1 -> b [] r = 2 -> c [] OTHER -> d],
   xer |-> xer, cr |-> cr, lr |-> 43, ctr |-> 1, gqr |-> 6, cia |-> 16]

AllForms  == {<<2, 0, 1>>, <<0, 0, 1>>, <<1, 0, 1>>, <<0, 0, 0>>, <<2, 1, 0>>}
AllXer    == {{}, {CA}, {SO, CA}, {SO, OV}}
AllOptions == [link : BOOLEAN, absolute : BOOLEAN, sense : {{}, {TRUE}, {FALSE}}, bit : {2, 5},
               count : {{}, {TRUE}, {FALSE}}]
Boundary == {0, 1, 2, 7, 8, 15, 127, 128, 129, 255}
Base4 == [length |-> 1, ops |-> {}, forms |-> AllForms, records |-> BOOLEAN,
          immediates |-> {0, 1, 7, 8, 15}, rotations |-> {}, displacements |-> {}, options |-> {},
          cuts |-> {FALSE}, starts |-> {}]
Arithmetic ==
  [Base4 EXCEPT !.ops = Sums \cup Differences \cup Divisions \cup SignedOps \cup {"cmplwi"}
                          \cup LogicalOps \cup Shifts,
                !.starts = {Machine(a, b, 3, 5, x, {7, 4, 1}) : a \in Boundary, b \in Boundary,
                                                               x \in AllXer}]
Rotating ==
  [Base4 EXCEPT !.ops = Rotates, !.starts = {Machine(a, b, 90, 5, x, {}) : a \in {0, 129, 165, 255},
                                             b \in {1, 128, 255}, x \in {{}, {SO, CA}}},
                !.rotations = {<<0, 0, 7>>, <<1, 2, 5>>, <<3, 6, 1>>, <<7, 4, 4>>, <<5, 0, 3>>}]
Control ==
  [Base4 EXCEPT !.ops = BitOps \cup {"mcrf", "mcrxr"} \cup Moves \cup Branches,
                !.starts = {[Machine(165, 90, 255, 0, x, c) EXCEPT !.ctr = k] :
                              x \in AllXer \cup {{3, 5}}, c \in {{}, {7, 5, 2}, {6, 4, 0, 1}, 0..7},
                              k \in {0, 1, 2, 130}},
                !.forms = {<<2, 0, 1>>, <<0, 0, 1>>}, !.displacements = {4, 8, 252},
                !.options = AllOptions]
Pairs ==
  [Base4 EXCEPT !.length = 2, !.forms = {<<0, 0, 1>>, <<2, 2, 3>>}, !.records = {FALSE},
                !.ops = {"addc", "adde", "addeo", "subfc", "subfe", "subfeo", "addic", "subfic",
                         "addze", "addzeo", "addme", "addmeo", "subfze", "subfzeo", "subfme",
                         "subfmeo"},
                !.immediates = {1, 15},
                !.starts = {Machine(a, b, c, d, {SO}, {}) : a \in {0, 1, 255}, b \in {0, 255},
                                                            c \in {0, 127, 128, 255},
                                                            d \in {0, 127, 128, 255}}]
Blocks ==
  [Base4 EXCEPT !.length = 4, !.cuts = BOOLEAN, !.records = {TRUE}, !.forms = {<<1, 0, 1>>, <<0, 1, 0>>},
                !.ops = {"addi", "adde", "rlwimi", "divwo", "mtlr", "mflr", "bc", "bclr"},
                !.immediates = {8}, !.rotations = {<<3, 6, 1>>}, !.displacements = {4, 12},
                !.options = {[link |-> TRUE, absolute |-> FALSE, sense |-> {TRUE}, bit |-> 2,
                              count |-> {FALSE}]},
                !.starts = {Machine(200, 3, 0, 0, {CA}, {5})}]
MCPrograms == [arithmetic |-> Arithmetic, rotating |-> Rotating, control |-> Control,
               pairs |-> Pairs, blocks |-> Blocks]

DivideInBlock == [Base4 EXCEPT !.length = 2, !.forms = {<<0, 0, 1>>}, !.records = {FALSE},
                               !.ops = {"addi", "divw"},
                               !.starts = {Machine(a, b, 0, 0, {}, {}) : a \in 6..17, b \in 2..13}]
MCDivide == [divide |-> DivideInBlock]
=============================================================================
