-------------------------------- MODULE Gx2 --------------------------------
(***************************************************************************)
(* The GX2 library of gx2_hle.cpp between the title and the renderer.  A    *)
(* call of the title changes objects in guest memory or queues commands;    *)
(* after each chunk of guest execution the launch thread takes the queue    *)
(* and publishes it with the scan-out it captured, and the frame loop later *)
(* applies what was published to the renderer's registers.  A scenario says *)
(* which calls a title makes, with which arguments.                         *)
(***************************************************************************)
EXTENDS Gx2Replay, Gx2Surface, Gx2Fields

CONSTANTS Scenarios, Unset,
          Period    \* gx2_virtual_vsync_period, in steps of the host's clock

\* Unset and Null are no values of what they stand in for.
ASSUME PeriodAssumption ==
  /\ Period \in Nat \ {0} /\ Unset \notin Int
  /\ Null \notin [offset : Nat, size : Nat, swap : Nat]

VARIABLES
  scenario,   \* what the title does: chosen once
  gx2,        \* Gx2RuntimeState
  published,  \* commands taken and not yet applied
  scanout,    \* the last captured scan-out
  gpu,        \* the renderer's Gx2RegisterState
  guest,      \* the title's objects, each with what was asked for
  call,       \* the title's last call
  clock       \* the host's time since the first deadline, modulo Period, and when the
              \* last wait for a vertical blank was to end

vars == <<scenario, gx2, published, scanout, gpu, guest, call, clock>>

----------------------------------------------------------------------------
(* The calls of each register state, by its name.                           *)

GX2Set(state, a) ==
  CASE state = "DepthOnlyControl"    -> GX2SetDepthOnlyControl(a)
    [] state = "DepthStencilControl" -> GX2SetDepthStencilControl(a)
    [] state = "StencilMask"         -> GX2SetStencilMask(a)
    [] state = "PolygonControl"      -> GX2SetPolygonControl(a)
    [] state = "PolygonOffset"       -> GX2SetPolygonOffset(a)
    [] state = "PointSize"           -> GX2SetPointSize(a)
    [] state = "PointLimits"         -> GX2SetPointLimits(a)
    [] state = "LineWidth"           -> GX2SetLineWidth(a)
    [] state = "ColorControl"        -> GX2SetColorControl(a)
    [] state = "BlendControl"        -> GX2SetBlendControl(a)
    [] state = "BlendConstantColor"  -> GX2SetBlendConstantColor(a)
    [] state = "AlphaTest"           -> GX2SetAlphaTest(a)
    [] state = "TargetChannelMasks"  -> GX2SetTargetChannelMasks(a)
    [] state = "AAMask"              -> GX2SetAAMask(a)
    [] state = "AlphaToMask"         -> GX2SetAlphaToMask(a)
    [] state = "Scissor"             -> GX2SetScissor(a)
    [] state = "WindowOffset"        -> GX2SetWindowOffset(a)
    [] state = "Viewport"            -> GX2SetViewport(a)

\* The states that have objects; those of a viewport the title fills in itself.
GX2InitReg(state, a) ==
  CASE state = "DepthStencilControl" -> GX2InitDepthStencilControlReg(a)
    [] state = "StencilMask"         -> GX2InitStencilMaskReg(a)
    [] state = "PolygonControl"      -> GX2InitPolygonControlReg(a)
    [] state = "PolygonOffset"       -> GX2InitPolygonOffsetReg(a)
    [] state = "PointSize"           -> GX2InitPointSizeReg(a)
    [] state = "PointLimits"         -> GX2InitPointLimitsReg(a)
    [] state = "LineWidth"           -> GX2InitLineWidthReg(a)
    [] state = "ColorControl"        -> GX2InitColorControlReg(a)
    [] state = "BlendControl"        -> GX2InitBlendControlReg(a)
    [] state = "BlendConstantColor"  -> GX2InitBlendConstantColorReg(a)
    [] state = "AlphaTest"           -> GX2InitAlphaTestReg(a)
    [] state = "TargetChannelMasks"  -> GX2InitTargetChannelMasksReg(a)
    [] state = "AAMask"              -> GX2InitAAMaskReg(a)
    [] state = "AlphaToMask"         -> GX2InitAlphaToMaskReg(a)
    [] state = "Scissor"             -> GX2InitScissorReg(a)
    [] state = "Viewport"            -> [n \in 1..12 |-> GX2SetViewport(a)[n].word]
ObjectStates == {"DepthStencilControl", "StencilMask", "PolygonControl", "PolygonOffset",
                 "PointSize", "PointLimits", "LineWidth", "ColorControl", "BlendControl",
                 "BlendConstantColor", "AlphaTest", "TargetChannelMasks", "AAMask",
                 "AlphaToMask", "Scissor", "Viewport"}

\* A blend control object has no call that sets it.
GX2SetReg(state, o) ==
  CASE state = "DepthStencilControl" -> GX2SetDepthStencilControlReg(o)
    [] state = "StencilMask"         -> GX2SetStencilMaskReg(o)
    [] state = "PolygonControl"      -> GX2SetPolygonControlReg(o)
    [] state = "PolygonOffset"       -> GX2SetPolygonOffsetReg(o)
    [] state = "PointSize"           -> GX2SetPointSizeReg(o)
    [] state = "PointLimits"         -> GX2SetPointLimitsReg(o)
    [] state = "LineWidth"           -> GX2SetLineWidthReg(o)
    [] state = "ColorControl"        -> GX2SetColorControlReg(o)
    [] state = "BlendConstantColor"  -> GX2SetBlendConstantColorReg(o)
    [] state = "AlphaTest"           -> GX2SetAlphaTestReg(o)
    [] state = "TargetChannelMasks"  -> GX2SetTargetChannelMasksReg(o)
    [] state = "AAMask"              -> GX2SetAAMaskReg(o)
    [] state = "AlphaToMask"         -> GX2SetAlphaToMaskReg(o)
    [] state = "Scissor"             -> GX2SetScissorReg(o)
    [] state = "Viewport"            -> GX2SetViewportReg(o)

\* A window offset and a viewport have no getter: the last cases say what they mean.
Signed(w) == Field(w, 0, 30) - (IF 30 \in w THEN 2^30 ELSE 0)
ViewportOf(o) ==
  <<Signed(o[2]) - Signed(o[1]), Signed(o[4]) + Signed(o[3]), 2 * Signed(o[1]), -2 * Signed(o[3]),
    Signed(o[6]) - Signed(o[5]), Signed(o[6]) + Signed(o[5])>>
GX2GetReg(state, o) ==
  CASE state = "DepthStencilControl" -> GX2GetDepthStencilControlReg(o)
    [] state = "StencilMask"         -> GX2GetStencilMaskReg(o)
    [] state = "PolygonControl"      -> GX2GetPolygonControlReg(o)
    [] state = "PolygonOffset"       -> GX2GetPolygonOffsetReg(o)
    [] state = "PointSize"           -> GX2GetPointSizeReg(o)
    [] state = "PointLimits"         -> GX2GetPointLimitsReg(o)
    [] state = "LineWidth"           -> GX2GetLineWidthReg(o)
    [] state = "ColorControl"        -> GX2GetColorControlReg(o)
    [] state = "BlendControl"        -> GX2GetBlendControlReg(o)
    [] state = "BlendConstantColor"  -> GX2GetBlendConstantColorReg(o)
    [] state = "AlphaTest"           -> GX2GetAlphaTestReg(o)
    [] state = "TargetChannelMasks"  -> GX2GetTargetChannelMasksReg(o)
    [] state = "AAMask"              -> GX2GetAAMaskReg(o)
    [] state = "AlphaToMask"         -> GX2GetAlphaToMaskReg(o)
    [] state = "Scissor"             -> GX2GetScissorReg(o)
    [] state = "WindowOffset"        -> <<Field(o[1], 0, 16), Field(o[1], 16, 16)>>
    [] state = "Viewport"            -> ViewportOf(o)

\* The registers of a state.
RegistersOf(state, unit) ==
  CASE state = "DepthStencilControl" -> <<db_depth_control_register>>
    [] state = "StencilMask"         -> <<db_stencilrefmask_register, db_stencilrefmask_bf_register>>
    [] state = "PolygonControl"      -> <<pa_su_sc_mode_cntl_register>>
    [] state = "PolygonOffset"       -> polygon_offset_registers
    [] state = "PointSize"           -> <<pa_su_point_size_register>>
    [] state = "PointLimits"         -> <<pa_su_point_minmax_register>>
    [] state = "LineWidth"           -> <<pa_su_line_cntl_register>>
    [] state = "ColorControl"        -> <<cb_color_control_register>>
    [] state = "BlendControl"        -> <<cb_blend0_control_register + 4 * unit>>
    [] state = "BlendConstantColor"  -> blend_constant_registers
    [] state = "AlphaTest"           -> <<sx_alpha_test_control_register, sx_alpha_ref_register>>
    [] state = "TargetChannelMasks"  -> <<cb_target_mask_register>>
    [] state = "AAMask"              -> <<pa_sc_aa_mask_register>>
    [] state = "AlphaToMask"         -> <<db_alpha_to_mask_register>>
    [] state = "Scissor"             -> scissor_registers
    [] state = "WindowOffset"        -> <<pa_sc_window_offset_register>>
    [] state = "Viewport"            -> viewport_registers
RegisterStates == ObjectStates \cup {"WindowOffset"}
RegisterSlots  == ((RegisterStates \ {"BlendControl"}) \X {0}) \cup ({"BlendControl"} \X (0..7))
SlotOf(state, a) == <<state, IF state = "BlendControl" THEN a[1] ELSE 0>>

\* The registers Gx2RuntimeState mirrors.
MirroredStates == {"DepthStencilControl", "StencilMask", "PolygonControl", "ColorControl",
                   "BlendControl", "BlendConstantColor", "AlphaTest", "TargetChannelMasks",
                   "AlphaToMask"}
MirroredRegisters ==
  UNION {Range(RegistersOf(slot[1], slot[2])) : slot \in {s \in RegisterSlots : s[1] \in MirroredStates}}

----------------------------------------------------------------------------
(* Calls.                                                                   *)

NotInitialized ==
  [initialized |-> FALSE, pending |-> <<>>, mirrors |-> <<>>, bound |-> <<>>,
   shadowing |-> FALSE, flips |-> 0, tv_enabled |-> Unset, tv |-> Null,
   deadline |-> Unset, waited |-> Unset]
Called(name, slot, value) ==
  /\ call.n < scenario.calls
  /\ call' = [n |-> call.n + 1, name |-> name, slot |-> slot, value |-> value]
Queue(commands) == gx2' = [gx2 EXCEPT !.pending = @ \o commands]
Written(writes) ==
  [r \in {w.register : w \in Range(writes)} |-> (CHOOSE w \in Range(writes) : w.register = r).word]

\* A setter keeps its mirrors and queues its writes.
Write_registers_FirstMirror(writes) ==   \* mutant: a mirror once set is not changed
  LET words == Written(writes)
  IN gx2' = [gx2 EXCEPT !.mirrors = Over(@, Restrict(words, DOMAIN words \cap MirroredRegisters)),
                        !.pending = Append(@, Command("set_context_register", Null, words))]
Write_registers(writes) ==
  LET words == Written(writes)
  IN gx2' = [gx2 EXCEPT !.mirrors = Over(Restrict(words, DOMAIN words \cap MirroredRegisters), @),
                        !.pending = Append(@, Command("set_context_register", Null, words))]
SetState(state, a) ==
  /\ gx2.initialized
  /\ Write_registers(GX2Set(state, a))
  /\ IF state = "DepthOnlyControl" THEN Called("SetDepthOnly", Null, a)
     ELSE Called("Set", SlotOf(state, a), a)
  /\ UNCHANGED <<scenario, published, scanout, gpu, guest, clock>>
InitStateReg(state, a) ==
  /\ state \in ObjectStates
  /\ guest' = [guest EXCEPT !.objects = Over(Entry(state, [words |-> GX2InitReg(state, a), asked |-> a]), @)]
  /\ Called("Other", Null, Null)
  /\ UNCHANGED <<scenario, gx2, published, scanout, gpu, clock>>
SetStateReg(state) ==
  LET o == guest.objects[state]
  IN /\ gx2.initialized /\ state # "BlendControl"
     /\ Write_registers(GX2SetReg(state, o.words))
     /\ Called("Set", SlotOf(state, o.asked), o.asked)
     /\ UNCHANGED <<scenario, published, scanout, gpu, guest, clock>>

\* The sampler object, and what was last asked for each of its fields.
SamplerWords(step, s) ==
  LET a == step.args
  IN CASE step.name = "Init"         -> GX2InitSampler(a[1], a[2])
       [] step.name = "Clamping"     -> GX2InitSamplerClamping(s, a[1], a[2], a[3])
       [] step.name = "XYFilter"     -> GX2InitSamplerXYFilter(s, a[1], a[2], a[3])
       [] step.name = "ZMFilter"     -> GX2InitSamplerZMFilter(s, a[1], a[2])
       [] step.name = "LOD"          -> GX2InitSamplerLOD(s, a[1], a[2], a[3])
       [] step.name = "DepthCompare" -> GX2InitSamplerDepthCompare(s, a[1])
       [] step.name = "BorderType"   -> GX2InitSamplerBorderType(s, a[1])
Asked(step, asked) ==
  LET a == step.args
  IN CASE step.name = "Init" ->
            [clamp |-> <<a[1], a[1], a[1]>>, xy |-> <<a[2], a[2], 0>>, zm |-> <<1, 1>>,
             lod |-> <<0, 1023, 0>>, compare |-> 0, border |-> 0]
       [] step.name = "Clamping"     -> [asked EXCEPT !.clamp = a]
       [] step.name = "XYFilter"     -> [asked EXCEPT !.xy = a]
       [] step.name = "ZMFilter"     -> [asked EXCEPT !.zm = a]
       [] step.name = "LOD"          -> [asked EXCEPT !.lod = <<Smaller(a[1] \div 2, 1023), Smaller(a[2] \div 2, 1023), a[3] \div 2>>]
       [] step.name = "DepthCompare" -> [asked EXCEPT !.compare = a[1]]
       [] step.name = "BorderType"   -> [asked EXCEPT !.border = a[1]]
ChangeSampler(step) ==
  LET s == SamplerWords(step, guest.sampler.words)
  IN /\ step.name = "Init" \/ guest.sampler.words # Failed
     /\ s # Failed
     /\ guest' = [guest EXCEPT !.sampler = [words |-> s, asked |-> Asked(step, @.asked)]]
     /\ Called("Other", Null, Null)
     /\ UNCHANGED <<scenario, gx2, published, scanout, gpu, clock>>

\* The title fills in a texture; GX2InitTextureRegs makes its registers.
DescribeTexture(t) ==
  /\ guest' = [guest EXCEPT !.texture = [t EXCEPT !.registers = guest.texture.registers]]
  /\ Called("Other", Null, Null)
  /\ UNCHANGED <<scenario, gx2, published, scanout, gpu, clock>>
GX2InitTextureRegs ==
  LET registers == initialize_gx2_texture_registers(guest.texture)
  IN /\ registers # Failed
     /\ guest' = [guest EXCEPT !.texture.registers = registers, !.described = guest.texture]
     /\ Called("Other", Null, Null)
     /\ UNCHANGED <<scenario, gx2, published, scanout, gpu, clock>>

\* The words of a texture or sampler, and what they are bound as.
ResourceWrites(type, first, words) ==
  Command(type, Null, [r \in {first + 4 * (n - 1) : n \in DOMAIN words} |-> words[(r - first) \div 4 + 1]])
\* Compute bindings overwrite those of the vertex stage.
StageOf(stage) == IF stage = "compute" THEN "vertex" ELSE stage

\* What a title that described texture t, and moved its image since, may expect to be read.
Described(t, now) ==
  [dimension |-> t.dimension, width |-> t.width, height |-> AtLeastOne(t.height),
   depth_or_layers |-> IF t.dimension \in {2, 3, 4, 5, 7} THEN AtLeastOne(t.depth) ELSE 1,
   pitch_pixels |-> IF IsCompressed(t.format) THEN 4 * t.pitch ELSE t.pitch,
   format |-> t.format % 64, tile_mode |-> t.tile_mode, component_selectors |-> t.components,
   base_level |-> t.first_mip, base_array |-> t.first_slice,
   last_array |-> t.first_slice + AtLeastOne(t.num_slices) - 1,
   image |-> now.image \cap 16..31,
   mipmap |-> (IF now.mipmap = {} THEN now.image ELSE now.mipmap) \cap 16..31]
TextureRead(words) ==
  LET Read(d) ==
     IF d = Failed THEN Failed
     ELSE [dimension |-> d.dimension, width |-> d.width, height |-> d.height,
           depth_or_layers |-> d.depth_or_layers, pitch_pixels |-> d.pitch_pixels,
           format |-> d.format, tile_mode |-> d.tile_mode,
           component_selectors |-> d.component_selectors, base_level |-> d.base_level,
           base_array |-> d.base_array, last_array |-> d.last_array,
           image |-> d.image_address \cap 16..31, mipmap |-> d.mipmap_address \cap 16..31]
  IN Evaluated(Read, decode_latte_texture_resource(words))
SamplerRead(words) ==
  LET Filter(d, encoded) == IF d.max_anisotropy # 0 THEN encoded - 2 ELSE encoded
      Read(d) ==
     IF d = Failed THEN Failed
     ELSE [clamp |-> d.wrap_modes,
           xy |-> <<Filter(d, d.mag_filter), Filter(d, d.min_filter), d.max_anisotropy>>,
           zm |-> <<d.z_filter, d.mip_filter>>,
           lod |-> <<d.min_lod_fixed, d.max_lod_fixed, d.lod_bias_fixed>>,
           compare |-> d.depth_compare, border |-> d.border_color_type]
  IN Evaluated(Read, decode_latte_sampler(words))

SetTexture(stage, unit) ==
  LET words == texture_binding_words(guest.texture)
  IN /\ gx2.initialized /\ guest.described # Null /\ words # Failed
     /\ gx2' = [gx2 EXCEPT
          !.pending = Append(@, ResourceWrites("set_shader_resource", TextureBank[stage] + 28 * unit, words)),
          !.bound = Over(Entry(<<"Texture", <<StageOf(stage), unit>>>>, words), @)]
     /\ Called("Bind", <<"Texture", <<StageOf(stage), unit>>>>, Described(guest.described, guest.texture))
     /\ UNCHANGED <<scenario, published, scanout, gpu, guest, clock>>
SetSampler(stage, unit) ==
  LET words == guest.sampler.words
  IN /\ gx2.initialized /\ words # Failed
     /\ gx2' = [gx2 EXCEPT
          !.pending = Append(@, ResourceWrites("set_shader_sampler", SamplerBank[stage] + 12 * unit, words)),
          !.bound = Over(Entry(<<"Sampler", <<StageOf(stage), unit>>>>, words), @)]
     /\ Called("Bind", <<"Sampler", <<StageOf(stage), unit>>>>, guest.sampler.asked)
     /\ UNCHANGED <<scenario, published, scanout, gpu, guest, clock>>
BorderBank == [pixel |-> \hA400, vertex |-> \hA600, compute |-> \hA600, geometry |-> \hA800]
SetSamplerBorderColor(stage, unit, color) ==
  LET words == [n \in 1..4 |-> FloatBits(color[n])]
  IN /\ gx2.initialized
     /\ gx2' = [gx2 EXCEPT
          !.pending = Append(@, ResourceWrites("set_context_register", BorderBank[stage] + 16 * unit, words)),
          !.bound = Over(Entry(<<"BorderColor", <<StageOf(stage), unit>>>>, words), @)]
     /\ Called("Bind", <<"BorderColor", <<StageOf(stage), unit>>>>, color)
     /\ UNCHANGED <<scenario, published, scanout, gpu, guest, clock>>

\* Shaders and render targets are read from guest memory when they are bound.
Bindings == [FetchShader |-> "set_fetch_shader", ProgramShader |-> "set_program_shader",
             VertexBuffer |-> "set_vertex_buffer", ColorBuffer |-> "set_color_buffer",
             DepthBuffer |-> "set_depth_buffer"]
\* The calls that look at initialized.
Checked == {"ColorBuffer", "DepthBuffer"}
BindObject(slot, object) ==
  LET value == IF object = Null THEN Null
               ELSE IF slot[1] = "VertexBuffer" THEN [object |-> object, contents |-> Null]
               ELSE [object |-> object, contents |-> guest.contents[object]]
  IN /\ slot[1] \in Checked => gx2.initialized
     /\ object = Null => slot[1] \in Checked
     /\ gx2' = [gx2 EXCEPT !.pending = Append(@, Command(Bindings[slot[1]], slot, value)),
                           !.bound = Over(Entry(slot, value), @)]
     /\ Called(IF value = Null THEN "Unbind" ELSE "Bind", slot, value)
     /\ UNCHANGED <<scenario, published, scanout, gpu, guest, clock>>

\* Vertex data, index data and everything else in memory is the title's to change.
GuestWrites(object) ==
  /\ guest' = [guest EXCEPT !.contents[object] = 1 - @]
  /\ Called("Other", Null, Null)
  /\ UNCHANGED <<scenario, gx2, published, scanout, gpu, clock>>

\* GX2DrawEx, GX2DrawIndexedEx and GX2DrawIndexedImmediateEx differ in the recorded request.
GX2DrawEx(request) ==
  /\ Queue(<<Command("draw", Null, request)>>)
  /\ Called("Draw", Null, request)
  /\ UNCHANGED <<scenario, published, scanout, gpu, guest, clock>>
GX2SwapScanBuffers ==
  /\ gx2' = [gx2 EXCEPT !.flips = @ + (IF gx2.initialized THEN 1 ELSE 0),
                        !.pending = Append(@, Command("scan_buffer_swap", Null,
                                               gx2.flips + IF gx2.initialized THEN 1 ELSE 0))]
  /\ Called("Other", Null, Null)
  /\ UNCHANGED <<scenario, published, scanout, gpu, guest, clock>>
GX2Flush ==
  /\ Queue(<<Command("flush", Null, Null)>>)
  /\ Called("Other", Null, Null)
  /\ UNCHANGED <<scenario, published, scanout, gpu, guest, clock>>
GX2DrawDone ==
  /\ Queue(<<Command("flush", Null, Null), Command("draw_done", Null, Null)>>)
  /\ Called("Other", Null, Null)
  /\ UNCHANGED <<scenario, published, scanout, gpu, guest, clock>>
GX2SetGPUFence(fence) ==
  /\ Queue(<<Command("gpu_fence", Null, [fence EXCEPT !.compare_op = @ % 8])>>)
  /\ Called("Other", Null, Null)
  /\ UNCHANGED <<scenario, published, scanout, gpu, guest, clock>>

----------------------------------------------------------------------------
(* Context states.  GX2SetupContextStateEx zeroes the title's object, and   *)
(* no setter writes to it: a restore loads zeros.                           *)

context_load_ranges ==   \* first register and count, from the register at 4 * \hA000
  <<<<\h0, \h2>>, <<\h3, \h3>>, <<\hA, \h4>>, <<\h10, \h38>>, <<\h50, \h34>>, <<\h8E, \h4>>,
    <<\h94, \h40>>, <<\h100, \h9>>, <<\h10C, \h3>>, <<\h10F, \h60>>, <<\h185, \hA>>,
    <<\h191, \h27>>, <<\h1E0, \h9>>, <<\h200, \h1>>, <<\h202, \h7>>, <<\hE0, \h20>>,
    <<\h210, \h29>>, <<\h250, \h34>>, <<\h290, \h1>>, <<\h292, \h2>>, <<\h2A1, \h1>>,
    <<\h2A5, \h1>>, <<\h2A8, \h2>>, <<\h2AC, \h3>>, <<\h2CA, \h1>>, <<\h2CC, \h1>>,
    <<\h2CE, \h1>>, <<\h300, \h9>>, <<\h30C, \h1>>, <<\h312, \h1>>, <<\h316, \h2>>,
    <<\h343, \h2>>, <<\h349, \h3>>, <<\h34C, \h2>>, <<\h351, \h1>>, <<\h37E, \h6>>,
    <<\h2B4, \h3>>, <<\h2B8, \h3>>, <<\h2BC, \h3>>, <<\h2C0, \h3>>, <<\h2C8, \h1>>,
    <<\h29B, \h1>>, <<\h8C, \h1>>, <<\hD5, \h1>>, <<\h284, \hC>>>>
config_load_ranges == <<<<\h900, \h48>>, <<\h980, \h48>>, <<\hA00, \h48>>>>   \* from 4 * \h2000
resource_load_ranges ==   \* from 4 * \hE000
  <<<<\h0, \h70>>, <<\h380, \h70>>, <<\h460, \h70>>, <<\h7E0, \h70>>, <<\h8B9, \h7>>,
    <<\h8C0, \h70>>, <<\h930, \h70>>, <<\hCB0, \h70>>, <<\hD89, \h7>>>>
sampler_load_ranges == <<<<\h0, \h36>>, <<\h36, \h36>>, <<\h6C, \h36>>>>   \* from 4 * \hF000
Loads(ranges, base, address) ==
  \E n \in DOMAIN ranges : LET index == address \div 4 - base
                           IN index >= ranges[n][1] /\ index < ranges[n][1] + ranges[n][2]

\* The registers that some call of the model writes.
StateRegisters    == UNION {Range(RegistersOf(slot[1], slot[2])) : slot \in RegisterSlots}
BorderRegisters   == {BorderBank[stage] + 16 * unit + 4 * n : stage \in Stages, unit \in Units, n \in 0..3}
ResourceRegisters == {TextureBank[stage] + 28 * unit + 4 * n : stage \in Stages, unit \in Units, n \in 0..6}
SamplerRegisters  == {SamplerBank[stage] + 12 * unit + 4 * n : stage \in Stages, unit \in Units, n \in 0..2}
\* Which of them a restore loads, with the type of its commands.
Zeroes(type, addresses) == Command(type, Null, [address \in addresses |-> Zero])
RestoreCommands ==
  <<Zeroes("set_context_register",
           {r \in StateRegisters : Loads(context_load_ranges, \hA000, r)} \cup
           {r \in BorderRegisters : Loads(config_load_ranges, \h2000, r)}),
    Zeroes("set_shader_resource", {r \in ResourceRegisters : Loads(resource_load_ranges, \hE000, r)}),
    Zeroes("set_shader_sampler", {r \in SamplerRegisters : Loads(sampler_load_ranges, \hF000, r)})>>

GX2SetupContextStateEx ==
  /\ gx2.initialized
  /\ gx2' = [gx2 EXCEPT !.shadowing = TRUE]
  /\ guest' = [guest EXCEPT !.context = TRUE]
  /\ Called("Other", Null, Null)
  /\ UNCHANGED <<scenario, published, scanout, gpu, clock>>
\* The mirrors stay as they are.
GX2SetContextState ==
  /\ guest.context
  /\ gx2' = [gx2 EXCEPT !.pending = @ \o RestoreCommands, !.shadowing = TRUE]
  /\ Called("Restore", Null, Null)
  /\ UNCHANGED <<scenario, published, scanout, gpu, guest, clock>>
GX2LeaveContextState ==
  /\ gx2' = [gx2 EXCEPT !.shadowing = FALSE]
  /\ Called("Other", Null, Null)
  /\ UNCHANGED <<scenario, published, scanout, gpu, guest, clock>>

----------------------------------------------------------------------------
(* Surfaces.  A surface whose layout is refused ends the call that asked.   *)

locked_flag    == 2^30
allocated_flag == 2^29
WithoutFlag(flags, flag) == IF HasFlag(flags, flag) THEN flags - flag ELSE flags

\* A surface with the fields of layout l written.
LaidOut(s, l) ==
  [s EXCEPT !.mip_levels = l.mip_levels, !.image_size = l.image_size, !.mipmap_size = l.mipmap_size,
            !.tile_mode = l.tile_mode, !.swizzle = l.swizzle, !.alignment = l.alignment,
            !.pitch = l.pitch, !.mip_offsets = l.mip_offsets]
GX2CalcSurfaceSizeAndAlignment ==
  LET layout == calculate_gx2_surface_size_and_alignment(guest.surface)
  IN /\ layout # Failed
     /\ guest' = [guest EXCEPT !.surface = LaidOut(@, layout), !.levels = layout.levels]
     /\ Called("Other", Null, Null)
     /\ UNCHANGED <<scenario, gx2, published, scanout, gpu, clock>>
\* The flags are written before the layout, which depends on them, and put back when it
\* fails; the mutant leaves them.
create_gx2_surface_user_memory_Flagged(s, image, mipmap, resource_flags) ==
  LET flagged == [s EXCEPT !.use = WithoutFlag(WithoutFlag(resource_flags, locked_flag), allocated_flag)]
      layout  == calculate_gx2_surface_size_and_alignment(flagged)
  IN IF layout = Failed THEN [made |-> FALSE, levels |-> Null, surface |-> flagged]
     ELSE [made |-> TRUE, levels |-> layout.levels,
           surface |-> [LaidOut(flagged, layout) EXCEPT !.image = image, !.mipmap = mipmap]]
create_gx2_surface_user_memory(s, image, mipmap, resource_flags) ==
  LET flagged == [s EXCEPT !.use = WithoutFlag(WithoutFlag(resource_flags, locked_flag), allocated_flag)]
      layout  == calculate_gx2_surface_size_and_alignment(flagged)
  IN IF layout = Failed
     THEN [made |-> FALSE, levels |-> Null, surface |-> [flagged EXCEPT !.use = s.use]]
     ELSE [made |-> TRUE, levels |-> layout.levels,
           surface |-> [LaidOut(flagged, layout) EXCEPT !.image = image, !.mipmap = mipmap]]
GX2RCreateSurfaceUserMemory(image, mipmap, resource_flags) ==
  LET made == create_gx2_surface_user_memory(guest.surface, image, mipmap, resource_flags)
  IN /\ guest' = [guest EXCEPT !.surface = made.surface, !.levels = made.levels]
     /\ Called(IF made.made THEN "Other" ELSE "Failed", Null, Null)
     /\ UNCHANGED <<scenario, gx2, published, scanout, gpu, clock>>
GX2RLockSurfaceEx ==
  /\ guest' = [guest EXCEPT !.surface.use = WithoutFlag(@, locked_flag) + locked_flag]
  /\ Called("Other", Null, Null)
  /\ UNCHANGED <<scenario, gx2, published, scanout, gpu, clock>>
GX2RUnlockSurfaceEx ==
  /\ guest' = [guest EXCEPT !.surface.use = WithoutFlag(@, locked_flag)]
  /\ Called("Other", Null, Null)
  /\ UNCHANGED <<scenario, gx2, published, scanout, gpu, clock>>

----------------------------------------------------------------------------
(* The display.                                                             *)

\* The title passes the size that GX2CalcTVSize gave it.
GX2SetTVBuffer(render_mode, buffering_mode, format) ==
  LET dimensions == get_tv_dimensions(render_mode)
  IN /\ dimensions # Failed /\ format = unorm_r8_g8_b8_a8 /\ get_scan_buffer_count(buffering_mode) # 0
     /\ gx2' = [gx2 EXCEPT !.tv = [width |-> dimensions[1], height |-> dimensions[2],
                                   buffering_mode |-> buffering_mode,
                                   size |-> calculate_tv_size(render_mode, format, buffering_mode)]]
     /\ Called("Other", Null, Null)
     /\ UNCHANGED <<scenario, published, scanout, gpu, guest, clock>>
GX2SetTVEnable(enable) ==
  /\ gx2' = [gx2 EXCEPT !.tv_enabled = enable]
  /\ Called("Other", Null, Null)
  /\ UNCHANGED <<scenario, published, scanout, gpu, guest, clock>>

\* With host pacing a wait sleeps until the next deadline; one that comes late skips the
\* deadlines it missed.  The deadline is kept relative to the end of the last wait, after
\* which the title spends elapsed, and a sleep may last overslept too long.
next_deadline_NoSkip(deadline, elapsed) ==   \* mutant: missed deadlines are kept
  IF deadline = Unset THEN Period ELSE deadline - elapsed
next_deadline(deadline, elapsed) ==
  IF deadline = Unset THEN Period
  ELSE LET left == deadline - elapsed
       IN IF left > 0 THEN left ELSE left + Period * ((-left) \div Period + 1)
GX2WaitForVsync(elapsed, overslept) ==
  LET target == next_deadline(gx2.deadline, elapsed)
      woken  == target + overslept
  IN /\ IF scenario.pacing
        THEN /\ gx2' = [gx2 EXCEPT !.deadline = target + Period - woken, !.waited = target]
             /\ LET start == IF gx2.deadline = Unset THEN 0 ELSE clock.now + elapsed
                IN clock' = [now |-> (start + woken) % Period, landed |-> (start + target) % Period]
        ELSE UNCHANGED <<gx2, clock>>
     /\ Called("Other", Null, Null)
     /\ UNCHANGED <<scenario, published, scanout, gpu, guest>>

----------------------------------------------------------------------------
(* The host.                                                                *)

\* Only the first GX2Init does anything; it replaces the whole state, queue included.
GX2Init ==
  /\ gx2' = IF gx2.initialized THEN gx2 ELSE [NotInitialized EXCEPT !.initialized = TRUE]
  /\ Called(IF gx2.initialized THEN "Other" ELSE "Initialise", Null, Null)
  /\ UNCHANGED <<scenario, published, scanout, gpu, guest, clock>>

\* The buffer of a swap; the mutant does not go round.
buffer_index_Linear(request, buffer_count) == IF request = 0 THEN 0 ELSE request - 1
buffer_index(request, buffer_count) == IF request = 0 THEN 0 ELSE (request - 1) % buffer_count
\* The scan-out of a chunk: the buffer of its last swap, if it is inside the title's memory.
capture_tv_scanout(commands) ==
  LET swaps        == {n \in DOMAIN commands : commands[n].type = "scan_buffer_swap"}
      request      == commands[Max(swaps)].value
      buffer_count == get_scan_buffer_count(gx2.tv.buffering_mode)
      frame_size   == 4 * gx2.tv.width * gx2.tv.height
      frame_offset == frame_size * buffer_index(request, buffer_count)
  IN IF gx2.tv = Null \/ gx2.tv_enabled = FALSE \/ swaps = {} THEN Null
     ELSE IF frame_offset + frame_size > gx2.tv.size THEN Null
     ELSE [offset |-> frame_offset, size |-> frame_size, swap |-> request]

\* After a chunk: take_gx2_commands, the capture, and the publication of both.
Publish ==
  LET captured == capture_tv_scanout(gx2.pending)
  IN /\ gx2.pending # <<>>
     /\ gx2' = [gx2 EXCEPT !.pending = <<>>]
     /\ published' = published \o gx2.pending
     /\ scanout' = IF captured = Null THEN scanout ELSE captured
     /\ UNCHANGED <<scenario, gpu, guest, call, clock>>
\* The frame loop applies the batches in order.
Apply ==
  /\ published # <<>>
  /\ gpu' = applied(gpu, published)
  /\ published' = <<>>
  /\ UNCHANGED <<scenario, gx2, scanout, guest, call, clock>>

----------------------------------------------------------------------------
NewGuest == [objects |-> <<>>, sampler |-> [words |-> Failed, asked |-> Null],
             texture |-> Null, described |-> Null, surface |-> Null, levels |-> Null,
             contents |-> [o \in {"a", "b"} |-> 0], context |-> FALSE]

\* The words of a GX2Surface, two addresses and a swizzle as bits.  Extents are bounded so that
\* a surface has no more levels than mip_offsets has room for.
Extents == 0..TwoTo[14] - 1
SurfaceObjects ==
  [dimension : Nat, width : Extents, height : Extents, depth : Extents, mip_levels : Nat, format : Nat, aa_mode : Nat,
   use : Nat, tile_mode : Nat, image_size : Nat, mipmap_size : Nat, alignment : Nat, pitch : Nat,
   swizzle : SUBSET WordBits, image : SUBSET WordBits, mipmap : SUBSET WordBits, mip_offsets : [1..13 -> Nat]]

\* A title binds objects to slots that have a binding and resources to the units of a stage,
\* changes its sampler by the calls for it, and its surface is an object.
SamplerCalls == {"Init", "Clamping", "XYFilter", "ZMFilter", "LOD", "DepthCompare", "BorderType"}
ASSUME ScenariosAssumption ==
  \A s \in Scenarios : /\ \A slot \in s.bindings : slot[1] \in DOMAIN Bindings
                       /\ \A place \in s.units : place[1] \in DOMAIN TextureBank /\ place[2] \in Units
                       /\ \A step \in s.sampling : step.name \in SamplerCalls
                       /\ s.surface \in SurfaceObjects

Init ==
  /\ scenario \in Scenarios
  /\ gx2 = [NotInitialized EXCEPT !.initialized = scenario.initialized]
  /\ published = <<>> /\ scanout = Null
  /\ gpu = Blank
  /\ guest = [NewGuest EXCEPT !.texture = scenario.texture, !.surface = scenario.surface]
  /\ call = [n |-> 0, name |-> "None", slot |-> Null, value |-> Null]
  /\ clock = [now |-> 0, landed |-> 0]

May(name) == name \in scenario.may

Registers ==
  \/ May("set") /\ \E setting \in scenario.settings : SetState(setting[1], setting[2])
  \/ May("objects") /\ \E setting \in scenario.settings : InitStateReg(setting[1], setting[2])
  \/ \E state \in DOMAIN guest.objects : SetStateReg(state)
Resources ==
  \/ \E step \in scenario.sampling : ChangeSampler(step)
  \/ \E t \in scenario.textures : DescribeTexture(t)
  \/ scenario.textures # {} /\ GX2InitTextureRegs
  \/ \E place \in scenario.units :
       \/ SetTexture(place[1], place[2]) \/ SetSampler(place[1], place[2])
       \/ \E color \in scenario.colors : SetSamplerBorderColor(place[1], place[2], color)
Surfaces ==
  /\ May("surface")
  /\ \/ GX2CalcSurfaceSizeAndAlignment \/ GX2RLockSurfaceEx \/ GX2RUnlockSurfaceEx
     \/ \E flags \in scenario.flags : GX2RCreateSurfaceUserMemory({12}, {16}, flags)
Stream ==
  \/ \E slot \in scenario.bindings, o \in {"a", "b", Null} : BindObject(slot, o)
  \/ May("write") /\ \E o \in {"a", "b"} : GuestWrites(o)
  \/ May("draw") /\ GX2DrawEx("triangles")
  \/ May("swap") /\ GX2SwapScanBuffers
  \/ May("sync") /\ (GX2Flush \/ GX2DrawDone
                     \/ GX2SetGPUFence([address |-> 64, mask |-> {0}, compare_op |-> 11, value |-> 1]))
  \/ May("init") /\ GX2Init
  \/ May("context") /\ (GX2SetupContextStateEx \/ GX2SetContextState \/ GX2LeaveContextState)
Display ==
  \/ \E mode \in scenario.tv : GX2SetTVBuffer(mode[1], mode[2], mode[3])
  \/ May("enable") /\ \E enable \in BOOLEAN : GX2SetTVEnable(enable)
  \/ May("wait") /\ \E elapsed \in 0..2 * Period + 1, overslept \in 0..Period + 1 :
                      GX2WaitForVsync(elapsed, overslept)

Next == Registers \/ Resources \/ Surfaces \/ Stream \/ Display \/ Publish \/ Apply
Spec == Init /\ [][Next]_vars

----------------------------------------------------------------------------
(* Properties.                                                              *)

\* What the command stream says so far, wherever its commands are.
Replayed == applied(gpu, published \o gx2.pending)

Places == Stages \X Units
\* The registers a slot is read from; of a viewport those of its transform.
SlotRegisters ==
  [slot \in RegisterSlots \cup ({"BorderColor"} \X Places) |->
     CASE slot[1] = "BorderColor" ->
            [n \in 1..4 |-> BorderBank[slot[2][1]] + 16 * slot[2][2] + 4 * (n - 1)]
       [] slot[1] = "Viewport"    -> SubSeq(viewport_registers, 1, 6)
       [] OTHER                   -> RegistersOf(slot[1], slot[2])]
\* What the words of a slot's registers say.
Meaning(slot, words) ==
  CASE slot[1] = "BorderColor"  -> [n \in 1..4 |-> Field(words[n], 0, 31)]
    [] slot[1] = "BlendControl" -> GX2GetReg("BlendControl", <<Put(slot[2], 0, 31), words[1]>>)
    [] OTHER                    -> GX2GetReg(slot[1], words)
\* The slots that a renderer's state has something in, with what they hold.
BoundIn(registers, bindings, resources) ==
  LET written  == {slot \in DOMAIN SlotRegisters : Range(SlotRegisters[slot]) \subseteq DOMAIN registers}
      Held(slot) == Evaluated(LAMBDA words : Meaning(slot, words),
                              [n \in DOMAIN SlotRegisters[slot] |-> registers[SlotRegisters[slot][n]].value])
      textures == {p \in Places : resources[p[1]][p[2]].texture # Null}
      samplers == {p \in Places : resources[p[1]][p[2]].sampler # Null}
  IN Over([slot \in written |-> Held(slot)],
     Over([slot \in {"Texture"} \X textures |-> Evaluated(TextureRead, resources[slot[2][1]][slot[2][2]].texture)],
     Over([slot \in {"Sampler"} \X samplers |-> Evaluated(SamplerRead, resources[slot[2][1]][slot[2][2]].sampler)],
          bindings)))
ClearedSlots ==
  Over([slot \in DOMAIN SlotRegisters |-> Meaning(slot, [n \in 1..12 |-> Zero])],
  Over([slot \in {"Texture"} \X Places |-> TextureRead([n \in 1..7 |-> Zero])],
       [slot \in {"Sampler"} \X Places |-> SamplerRead([n \in 1..3 |-> Zero])]))
StateBound(state) == BoundIn(state.registers, state.bindings, snapshot_shader_resources(state))
StateDraws(state) ==
  [n \in DOMAIN state.draws |->
     LET draw == state.draws[n]
     IN [call |-> draw.call, bound |-> BoundIn(draw.registers, draw.bindings, draw.resources)]]
Bound == Evaluated(StateBound, Replayed)
Draws == Evaluated(StateDraws, Replayed)

Immediate == INSTANCE Gx2Immediate WITH Cleared <- ClearedSlots, bound <- Bound, drawn <- Draws

\* The deferred command stream is the immediate machine: what a call asked is bound at once
\* for the draws after it and no others, through packing, object, queue, publication and
\* replay, whatever the title writes to its memory later; no call disturbs another's slot,
\* and a context restore clears all but the slots it does not reach.
ImplementsImmediate == Immediate!Spec

\* A register object gives back through its getter what it was made of.
ReadBack ==
  \A state \in DOMAIN guest.objects :
    LET o == guest.objects[state]
    IN GX2GetReg(state, o.words) = Kept(state, o.asked)

\* The renderer reads from a sampler object, in any order of the calls that change it, what
\* each of its fields was last asked to be.
SamplerAsAsked == guest.sampler.words # Failed => SamplerRead(guest.sampler.words) = guest.sampler.asked

\* The words bound for an initialised texture decode to the texture the title described.
TextureAsDescribed ==
  guest.described # Null =>
    LET words == texture_binding_words(guest.texture)
    IN words # Failed => TextureRead(words) = Described(guest.described, guest.texture)

\* What a title keeps in its own memory to hand over later, registers, samplers and textures,
\* says what the title asked for, whichever calls in whichever order made it.
ObjectsAsAsked == ReadBack /\ SamplerAsAsked /\ TextureAsDescribed

\* The levels of a laid-out surface start at their alignment and end before the next starts.
LevelsApart ==
  guest.levels # Null =>
    /\ \A n \in DOMAIN guest.levels :
         LET level == guest.levels[n]
             end   == level.start + level.size
         IN /\ level.start % level.alignment = 0
            /\ IF n < Len(guest.levels) THEN end <= guest.levels[n + 1].start
               ELSE n > 1 => end <= guest.surface.mipmap_size
    /\ guest.levels[1].size <= guest.surface.image_size

\* A surface whose creation fails keeps every field.
FailedCreateKeepsSurface ==
  [][call'.n # call.n /\ call'.name = "Failed" => guest'.surface = guest.surface]_vars

\* The mirrors agree with the stream's registers and bindings, except that a restore has
\* zeroed the registers and not the mirrors.
MirrorsCurrent ==
  LET state == Replayed
  IN /\ \A r \in DOMAIN gx2.mirrors : state.registers[r].value \in {gx2.mirrors[r], Zero}
     /\ \A r \in DOMAIN gx2.mirrors : state.registers[r].value # gx2.mirrors[r] => guest.context
     /\ \A slot \in {s \in DOMAIN gx2.bound : s[1] \in DOMAIN Bindings} :
          gx2.bound[slot] = IF slot \in DOMAIN state.bindings THEN state.bindings[slot] ELSE Null

\* A wait for the vertical blank sleeps at least a moment and at most a period, and is to
\* end at a whole number of periods from the first, however late the title comes.
VsyncPaced == gx2.waited # Unset => gx2.waited \in 1..Period /\ clock.landed = 0

\* Every chunk that swaps a configured, enabled scan buffer yields the frame of its last
\* swap, inside the memory whose size GX2CalcTVSize gave.
FramesCaptured ==
  [][/\ gx2.pending # <<>> /\ gx2'.pending = <<>> /\ call' = call
     /\ gx2.tv # Null /\ gx2.tv_enabled # FALSE
     /\ \E n \in DOMAIN gx2.pending : gx2.pending[n].type = "scan_buffer_swap"
     => /\ scanout' # Null /\ scanout'.swap = gx2.flips
        /\ scanout'.offset + scanout'.size <= gx2.tv.size]_vars
=============================================================================
