--------------------------- MODULE GuestExecution ---------------------------
(***************************************************************************)
(* What running guest code means, whichever engine runs it: every          *)
(* instruction is fetched from memory at the moment it executes.  The      *)
(* recompiler (JitCache) implements this; the interpreter does it directly *)
(***************************************************************************)
EXTENDS GuestMemory

CONSTANT Import  \* the address of an import stub, answered by the host

VARIABLES memory, pc, executed, stopped

vars == <<memory, pc, executed, stopped>>

NoInstruction == [at |-> 0, insn |-> "none"]
Targets       == Mapped \cup {Import}

Init ==
  /\ memory \in Memories
  /\ pc \in Mapped
  /\ executed = NoInstruction
  /\ stopped = "no"

StoreSomething ==
  \E r \in Storable, v \in Code : memory' = Stored(memory, r[1], r[2], v)

Execute ==
  /\ stopped = "no"
  /\ pc \in Mapped
  /\ executed' = [at |-> pc, insn |-> Read(memory, pc)]
  /\ \/ Read(memory, pc) \in {"store", "dcbz"} /\ StoreSomething /\ pc' = pc + 1
     \/ Read(memory, pc) = "branch" /\ pc' \in Targets /\ UNCHANGED memory
     \/ Read(memory, pc) \in {"plain", "foreign"} /\ pc' = pc + 1 /\ UNCHANGED memory
  /\ UNCHANGED stopped

\* The host answers an import and may write guest memory.
Call ==
  /\ stopped = "no"
  /\ pc = Import
  /\ StoreSomething \/ UNCHANGED memory
  /\ pc' \in Targets
  /\ UNCHANGED <<executed, stopped>>

\* The host cannot answer the import, and may have written memory before.
CallError ==
  /\ stopped = "no"
  /\ pc = Import
  /\ StoreSomething \/ UNCHANGED memory
  /\ stopped' = "hle_error"
  /\ UNCHANGED <<pc, executed>>

\* An unmapped fetch or store address, or an unsupported instruction.
Fault ==
  /\ stopped = "no"
  /\ \/ pc \notin Targets /\ stopped' = "memory_fault"
     \/ pc \in Mapped /\ Read(memory, pc) \in {"store", "dcbz"} /\ stopped' = "memory_fault"
     \/ pc \in Mapped /\ Read(memory, pc) \in {"store", "foreign"}
        /\ stopped' = "unsupported_instruction"
  /\ UNCHANGED <<memory, pc, executed>>

Next == Execute \/ Call \/ CallError \/ Fault

Spec == Init /\ [][Next]_vars
=============================================================================
