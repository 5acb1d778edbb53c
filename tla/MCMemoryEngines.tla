-------------------------- MODULE MCMemoryEngines --------------------------
(* Instances of MemoryEngines on words of eight bits, four bytes of two bits *)
(* each, and four registers: every instruction at addresses inside, across   *)
(* and outside the ranges of storage, then short blocks.                     *)
EXTENDS MemoryEngines

\* Flat memory 0..47, a region right after it, one at the top, an alias of 8..31.
MCRegions == {<<48, 8>>, <<240, 16>>}
MCAliases == {<<128, 8, 24>>}

Quantized(lt, ls, st, ss) ==
  [load_type |-> lt, load_scale |-> ls, store_type |-> st, store_scale |-> ss]
Pattern == [l \in Locations |-> (l * l + (l \div 4) + 1) % 4]
Quiet   == [bytes |-> Pattern, watch |-> {}, writer |-> 0, events |-> << >>]
Watching == [Quiet EXCEPT !.watch = {<<33, 2>>}]
Machine(a, b, c, d) ==
  [gpr |-> [r \in 0..3 |-> CASE r = 0 -> a [] r = 1 -> b [] r = 2 -> c [] OTHER -> d],
   xer |-> {}, cr |-> {}, lr |-> 43, ctr |-> 1, cia |-> 16,
   fpr |-> [r \in 0..1 |-> IF r = 0 THEN 23405 ELSE 32768 + 77],
   ps1 |-> [r \in 0..1 |-> IF r = 0 THEN 700 ELSE 51200],
   gqr |-> [q \in 0..1 |-> IF q = 0 THEN Quantized(0, 0, 0, 0) ELSE Quantized(6, 1, 4, 3)],
   reservation_valid |-> FALSE, reservation_address |-> 0]
Start(state, memory) == [state |-> state, memory |-> memory]

Places == {8, 13, 44, 45, 46, 54, 134, 150, 240, 252, 253, 255}
One1(ops) == [length |-> 1, ops |-> ops, forms |-> {<<2, 1, 3>>, <<1, 1, 3>>, <<3, 0, 3>>},
              immediates |-> {0, 4, 252}, counts |-> {}, sizes |-> {1, 3}, starts |-> {}]
Integers ==
  [One1(LoadOps \cup StoreOps \cup CacheOps \cup {"lwarx", "stwcx"}) EXCEPT
     !.starts = {Start(Machine(90, p, 165, x), Quiet) : p \in Places, x \in {0, 4, 255}}]
Multiples ==
  [One1(MultipleOps \cup StringOps) EXCEPT
     !.counts = {0, 1, 3, 5, 7}, !.forms = {<<2, 1, 3>>, <<3, 1, 1>>, <<1, 0, 2>>, <<0, 3, 2>>},
     !.starts = {Start([Machine(9, p, 165, x) EXCEPT !.xer = e], Quiet) :
                   p \in Places, x \in {0, 4, 255}, e \in {{}, {0, 2}, {1, 3}}}]
Floats ==
  [One1(ScalarFloatOps) EXCEPT
     !.starts = {Start(Machine(90, p, 165, x), Quiet) : p \in Places, x \in {0, 252}}]
\* Every type of lane at its scales; the register pairs saturate, round and are not numbers.
Types == {0, 2, 4, 5, 6, 7}
Pairs ==
  [One1(PairLoads \cup PairStores) EXCEPT !.forms = {<<2, 1, 3>>}, !.immediates = {0, 252},
     !.starts = {Start([Machine(90, p, 165, x) EXCEPT
                          !.gqr[1] = Quantized(t, k, t, k), !.ps1[0] = z, !.fpr[0] = y], Quiet) :
                   p \in {12, 45, 54, 252, 255}, x \in {0, 255}, t \in Types, k \in {1, 2},
                   y \in {300, 25900, 51300}, z \in {700, 32800}}]
\* Registers not yet written back when a store reaches the block's own words at 16.
Blocks ==
  [length |-> 3, forms |-> {<<2, 1, 3>>}, immediates |-> {4}, counts |-> {5}, sizes |-> {1, 3},
   ops |-> {"addi", "lwzu", "stwu", "stbux", "stfdu", "stmw", "lmw", "stswi", "lswi", "dcbz",
            "dcbst", "psq_stu", "psq_lu", "isync"},
   starts |-> {Start(Machine(90, p, 165, 3), Quiet) : p \in {8, 15, 20, 52}}]
\* Two names of one word: 8 and 128.
Links ==
  [length |-> 4, forms |-> {<<2, 1, 3>>, <<3, 0, 1>>}, immediates |-> {0}, counts |-> {},
   sizes |-> {1}, ops |-> {"lwarx", "stwcx", "stw"},
   starts |-> {Start(Machine(a, 8, 77, b), Quiet) : a \in {8, 60}, b \in {0, 4, 120}}]
\* Stores around the watched bytes 33 and 34, of registers not yet written back.
Watch ==
  [length |-> 3, forms |-> {<<2, 1, 3>>}, immediates |-> {2}, counts |-> {}, sizes |-> {3},
   ops |-> {"addi", "stw", "sthu", "stb", "stfd", "stmw", "psq_stu", "stwcx", "lwarx", "dcbz"},
   starts |-> {Start(Machine(90, p, 165, 2), Watching) : p \in {24, 28, 31, 33, 60}}]
MCPrograms == [integers |-> Integers, multiples |-> Multiples, floats |-> Floats, pairs |-> Pairs,
               blocks |-> Blocks, links |-> Links, watch |-> Watch]
\* psq_st leaves the block it overwrites without writing its registers back.
PsqExit == [Blocks EXCEPT !.length = 2, !.ops = {"addi", "psq_st"}, !.immediates = {4},
              !.starts = {Start(Machine(a, p, 165, 3), Quiet) : a \in 80..99, p \in {8, 12, 40}}]
MCPsqExit == [psq |-> PsqExit]
============================================================================
