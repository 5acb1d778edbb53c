----------------------------- MODULE Gx2Replay -----------------------------
(***************************************************************************)
(* Gx2RegisterState (gpu/gx2_register_state.hpp): the renderer's copy of    *)
(* the Latte registers, rebuilt from the command stream.  A command has a   *)
(* type, the slot it is at, and a value; the register writes of one call,   *)
(* a command each in the code, are one whose value maps registers to words. *)
(* A function whose domain is what has been written stands for the map of   *)
(* registers and for the optional bindings.                                 *)
(***************************************************************************)
EXTENDS Gx2Registers, SequencesExt

CONSTANTS Units, Null   \* the texture and sampler units looked at, 0..15 in the code

ASSUME UnitsAssumption == Units \subseteq 0..15

Command(type, at, value) == [type |-> type, at |-> at, value |-> value]
Blank == [registers |-> <<>>, bindings |-> <<>>, draws |-> <<>>, swaps |-> <<>>, fences |-> <<>>]

\* Compute shaders use the bank of the vertex stage.
TextureBank == [pixel |-> \h38000, vertex |-> \h39180, compute |-> \h39180, geometry |-> \h3A4C0]
SamplerBank == [pixel |-> \h3C000, vertex |-> \h3C0D8, compute |-> \h3C0D8, geometry |-> \h3C1B0]
Stages == {"pixel", "vertex", "geometry"}

\* count words of one type from a register on, or Null when one was never written so.
ReadWords(state, type, first, count) ==
  LET addresses == [n \in 1..count |-> first + 4 * (n - 1)]
  IN IF \A n \in 1..count : /\ addresses[n] \in DOMAIN state.registers
                            /\ state.registers[addresses[n]].type = type
     THEN [n \in 1..count |-> state.registers[addresses[n]].value] ELSE Null
texture_resource(state, stage, unit) ==
  ReadWords(state, "set_shader_resource", TextureBank[stage] + 28 * unit, 7)
sampler(state, stage, unit) ==
  ReadWords(state, "set_shader_sampler", SamplerBank[stage] + 12 * unit, 3)

snapshot_shader_resources(state) ==
  [stage \in Stages |-> [unit \in Units |->
     [texture |-> texture_resource(state, stage, unit), sampler |-> sampler(state, stage, unit)]]]

\* A draw keeps the whole state it was issued under.
Drawn_Unbound(state, call) ==   \* mutant: the draw does not keep the bindings
  [call |-> call, registers |-> state.registers, bindings |-> <<>>,
   resources |-> snapshot_shader_resources(state)]
Drawn(state, call) == [call |-> call, registers |-> state.registers, bindings |-> state.bindings,
                       resources |-> snapshot_shader_resources(state)]

apply(state, command) ==
  CASE command.type = "gpu_fence" -> [state EXCEPT !.fences = Append(@, command.value)]
    [] command.type = "scan_buffer_swap" -> [state EXCEPT !.swaps = Append(@, command.value)]
    [] command.type = "draw" -> [state EXCEPT !.draws = Append(@, Drawn(state, command.value))]
    [] command.type \in {"set_vertex_buffer", "set_fetch_shader", "set_program_shader"} ->
         [state EXCEPT !.bindings = Over(Entry(command.at, command.value), @)]
    [] command.type \in {"set_color_buffer", "set_depth_buffer"} ->
         [state EXCEPT !.bindings =
            IF command.value = Null
            THEN [slot \in DOMAIN @ \ {command.at} |-> @[slot]]
            ELSE Over(Entry(command.at, command.value), @)]
    [] command.type \in {"flush", "draw_done"} -> state
    [] OTHER -> [state EXCEPT !.registers =
                   [r \in DOMAIN command.value \cup DOMAIN @ |->
                      IF r \in DOMAIN command.value
                      THEN [type |-> command.type, value |-> command.value[r]] ELSE @[r]]]
applied(state, commands) ==
  FoldLeft(LAMBDA before, command : Evaluated(LAMBDA now : apply(now, command), before), state, commands)
=============================================================================
