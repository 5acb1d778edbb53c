---------------------------- MODULE Gx2Registers ----------------------------
(***************************************************************************)
(* The Latte state setters of gx2_hle.cpp.  Each state has up to four calls *)
(* in the code, written separately: GX2SetX(a) queues register writes made  *)
(* of its arguments, GX2InitXReg(a) stores the words in a guest object,     *)
(* GX2SetXReg(o) queues the words of such an object, and GX2GetXReg(o)      *)
(* unpacks them.  Here a is the tuple of the arguments in the order of the  *)
(* ABI, o the sequence of the object's words, and a setter returns the      *)
(* sequence of the writes it appends.  Floating-point arguments count units *)
(* of the register's own kind, as each operator says.                       *)
(***************************************************************************)
EXTENDS Gx2Words

db_depth_control_register               == \h28800
db_stencilrefmask_register              == \h28430
db_stencilrefmask_bf_register           == \h28434
pa_su_sc_mode_cntl_register             == \h28814
cb_color_control_register               == \h28808
cb_blend0_control_register              == \h28780
cb_blend_red_register                   == \h28414
cb_blend_green_register                 == \h28418
cb_blend_blue_register                  == \h2841C
cb_blend_alpha_register                 == \h28420
sx_alpha_test_control_register          == \h28410
sx_alpha_ref_register                   == \h28438
cb_target_mask_register                 == \h28238
pa_sc_aa_mask_register                  == \h28C48
db_alpha_to_mask_register               == \h28D44
pa_sc_generic_scissor_tl_register       == \h28240
pa_sc_generic_scissor_br_register       == \h28244
pa_sc_window_offset_register            == \h28200
pa_su_point_size_register               == \h28A00
pa_su_point_minmax_register             == \h28A04
pa_su_line_cntl_register                == \h28A08
pa_su_poly_offset_front_scale_register  == \h28B80
pa_su_poly_offset_front_offset_register == \h28B84
pa_su_poly_offset_back_scale_register   == \h28B88
pa_su_poly_offset_back_offset_register  == \h28B8C
pa_su_poly_offset_clamp_register        == \h28B7C
pa_cl_vport_xscale_register             == \h2843C
pa_cl_gb_vert_clip_adj_register         == \h28BE8
pa_cl_gb_vert_disc_adj_register         == \h28BEC
pa_cl_gb_horz_clip_adj_register         == \h28BF0
pa_cl_gb_horz_disc_adj_register         == \h28BF4
pa_sc_vport_zmin_register               == \h282D0
pa_sc_vport_zmax_register               == \h282D4

\* One queued set_context_register command.
Write(register, word)    == [register |-> register, word |-> word]
\* The words of an object written to registers, in order.
Writes(registers, words) == [n \in 1..Len(registers) |-> Write(registers[n], words[n])]

----------------------------------------------------------------------------
(* Depth and stencil.  The order of the arguments is depth test, depth      *)
(* write, depth function, stencil test, back-face stencil, then function,   *)
(* zpass, zfail and fail of the front face and of the back face.            *)

GX2SetDepthOnlyControl(a) ==
  <<Write(db_depth_control_register, Flag(a[1], 1) \cup Flag(a[2], 2) \cup Put(a[3], 4, 3))>>

GX2SetDepthStencilControl(a) ==
  LET registers == [n \in 1..8 |-> a[n]]        \* r3 to r10
      stack     == [n \in 1..5 |-> a[8 + n]]
  IN <<Write(db_depth_control_register,
         Or({Flag(registers[4], 0), Flag(registers[1], 1), Flag(registers[2], 2),
             Put(registers[3], 4, 3), Flag(registers[5], 7), Put(registers[6], 8, 3),
             Put(stack[1], 11, 3), Put(registers[7], 14, 3), Put(registers[8], 17, 3),
             Put(stack[2], 20, 3), Put(stack[5], 23, 3),
             Put(stack[3], 26, 3), Put(stack[4], 29, 3)}))>>

GX2InitDepthStencilControlReg(a) ==
  LET registers == [n \in 1..7 |-> a[n]]        \* r4 to r10
      stack     == [n \in 1..6 |-> a[7 + n]]
  IN <<Or({Flag(registers[4], 0), Flag(registers[1], 1), Flag(registers[2], 2),
           Put(registers[3], 4, 3), Flag(registers[5], 7), Put(registers[6], 8, 3),
           Put(stack[2], 11, 3), Put(registers[7], 14, 3), Put(stack[1], 17, 3),
           Put(stack[3], 20, 3), Put(stack[6], 23, 3),
           Put(stack[4], 26, 3), Put(stack[5], 29, 3)})>>

GX2GetDepthStencilControlReg(o) ==
  LET control == o[1]
  IN <<Field(control, 1, 1), Field(control, 2, 1), Field(control, 4, 3), Field(control, 0, 1),
       Field(control, 7, 1), Field(control, 8, 3), Field(control, 14, 3), Field(control, 17, 3),
       Field(control, 11, 3), Field(control, 20, 3), Field(control, 26, 3),
       Field(control, 29, 3), Field(control, 23, 3)>>

GX2SetDepthStencilControlReg(o) == <<Write(db_depth_control_register, o[1])>>

----------------------------------------------------------------------------
(* Stencil masks: mask, write mask and reference of each face.              *)

pack_stencil_ref_mask(mask, write_mask, reference) ==
  Put(reference, 0, 8) \cup Put(mask, 8, 8) \cup Put(write_mask, 16, 8)

GX2SetStencilMask(a) ==
  LET masked == [n \in 1..6 |-> a[n] % 256]
  IN <<Write(db_stencilrefmask_register,
             pack_stencil_ref_mask(masked[1], masked[2], masked[3])),
       Write(db_stencilrefmask_bf_register,
             pack_stencil_ref_mask(masked[4], masked[5], masked[6]))>>
GX2SetStencilMaskReg(o) ==
  <<Write(db_stencilrefmask_register, o[1]), Write(db_stencilrefmask_bf_register, o[2])>>
GX2InitStencilMaskReg(a) ==
  <<pack_stencil_ref_mask(a[1], a[2], a[3]), pack_stencil_ref_mask(a[4], a[5], a[6])>>
GX2GetStencilMaskReg(o) ==
  LET decode_register(value) == <<Field(value, 8, 8), Field(value, 16, 8), Field(value, 0, 8)>>
  IN decode_register(o[1]) \o decode_register(o[2])

----------------------------------------------------------------------------
(* Rasterizer.                                                              *)

pack_polygon_control(front_face, cull_front, cull_back, polygon_mode, mode_front, mode_back, offset_front, offset_back, offset_parallel) ==
  Or({Flag(cull_front, 0), Flag(cull_back, 1), Flag(front_face, 2), Put(polygon_mode, 3, 2),
      Put(mode_front, 5, 3), Put(mode_back, 8, 3), Flag(offset_front, 11),
      Flag(offset_back, 12), Flag(offset_parallel, 13)})

GX2SetPolygonControl(a) ==
  <<Write(pa_su_sc_mode_cntl_register,
          pack_polygon_control(a[1], a[2], a[3], a[4], a[5], a[6], a[7], a[8], a[9]))>>
GX2InitPolygonControlReg(a) ==
  <<pack_polygon_control(a[1], a[2], a[3], a[4], a[5], a[6], a[7], a[8], a[9])>>
GX2GetPolygonControlReg(o) ==
  LET control == o[1]
  IN <<Field(control, 2, 1), Field(control, 0, 1), Field(control, 1, 1), Field(control, 3, 2),
       Field(control, 5, 3), Field(control, 8, 3), Field(control, 11, 1),
       Field(control, 12, 1), Field(control, 13, 1)>>
GX2SetPolygonControlReg(o) == <<Write(pa_su_sc_mode_cntl_register, o[1])>>

polygon_offset_registers ==
  <<pa_su_poly_offset_front_scale_register, pa_su_poly_offset_front_offset_register,
    pa_su_poly_offset_back_scale_register, pa_su_poly_offset_back_offset_register,
    pa_su_poly_offset_clamp_register>>
\* The call's order is offset, scale of each face and the clamp; the words' is scale, offset.
GX2SetPolygonOffset(a) ==
  Writes(polygon_offset_registers,
         <<FloatBits(a[2]), FloatBits(a[1]), FloatBits(a[4]), FloatBits(a[3]), FloatBits(a[5])>>)
GX2InitPolygonOffsetReg(a) ==
  <<FloatBits(a[2]), FloatBits(a[1]), FloatBits(a[4]), FloatBits(a[3]), FloatBits(a[5])>>
GX2GetPolygonOffsetReg(o) ==
  LET value_indices == <<2, 1, 4, 3, 5>>
  IN [n \in 1..5 |-> Field(o[value_indices[n]], 0, 31)]
GX2SetPolygonOffsetReg(o) == Writes(polygon_offset_registers, o)

\* Sizes count sixteenths of a pixel; a register field counts sixteenths of scale's unit.
pack_gx2_scaled_i16_field(value, scale) ==
  Clamp(Truncated(value * scale, 16), -2147483647 - 1, 2147483647)

pack_gx2_point_size(width, height) ==
  Put(pack_gx2_scaled_i16_field(width, 8), 16, 16) \cup
  Put(pack_gx2_scaled_i16_field(height, 8), 0, 16)
GX2SetPointSize(a)     == <<Write(pa_su_point_size_register, pack_gx2_point_size(a[1], a[2]))>>
GX2InitPointSizeReg(a) == <<pack_gx2_point_size(a[1], a[2])>>
GX2SetPointSizeReg(o)  == <<Write(pa_su_point_size_register, o[1])>>
\* A field times 0.125, in sixteenths.
GX2GetPointSizeReg(o)  == <<2 * Field(o[1], 16, 16), 2 * Field(o[1], 0, 16)>>

pack_gx2_point_limits(minimum, maximum) ==
  Put(pack_gx2_scaled_i16_field(maximum, 16), 16, 16) \cup
  Put(pack_gx2_scaled_i16_field(minimum, 16), 0, 16)
GX2SetPointLimits(a)     == <<Write(pa_su_point_minmax_register, pack_gx2_point_limits(a[1], a[2]))>>
GX2InitPointLimitsReg(a) == <<pack_gx2_point_limits(a[1], a[2])>>
GX2GetPointLimitsReg(o)  == <<Field(o[1], 0, 16), Field(o[1], 16, 16)>>
GX2SetPointLimitsReg(o)  == <<Write(pa_su_point_minmax_register, o[1])>>

GX2SetLineWidth(a)     == <<Write(pa_su_line_cntl_register, Put(pack_gx2_scaled_i16_field(a[1], 8), 0, 16))>>
GX2InitLineWidthReg(a) == <<Put(pack_gx2_scaled_i16_field(a[1], 8), 0, 16)>>
GX2GetLineWidthReg(o)  == <<2 * Field(o[1], 0, 16)>>
GX2SetLineWidthReg(o)  == <<Write(pa_su_line_cntl_register, o[1])>>

----------------------------------------------------------------------------
(* Color and blending.                                                      *)

pack_color_control(rop3, target_blend_enable, multi_write_enable, color_write_enable) ==
  LET special_op == IF color_write_enable # 0 THEN 0 ELSE 1
  IN Or({Flag(multi_write_enable, 1), Put(special_op, 4, 3),
         Put(target_blend_enable, 8, 8), Put(rop3, 16, 8)})
GX2SetColorControl(a)     == <<Write(cb_color_control_register, pack_color_control(a[1], a[2], a[3], a[4]))>>
GX2SetColorControlReg(o)  == <<Write(cb_color_control_register, o[1])>>
GX2InitColorControlReg(a) == <<pack_color_control(a[1], a[2], a[3], a[4])>>
GX2GetColorControlReg(o)  ==
  <<Field(o[1], 16, 8), Field(o[1], 8, 8), Field(o[1], 1, 1),
    IF Field(o[1], 4, 3) = 0 THEN 1 ELSE 0>>

pack_blend_control(color_source, color_destination, color_combine, use_alpha, alpha_source, alpha_destination, alpha_combine) ==
  Or({Put(color_source, 0, 5), Put(color_combine, 5, 3), Put(color_destination, 8, 5),
      Put(alpha_source, 16, 5), Put(alpha_combine, 21, 3), Put(alpha_destination, 24, 5),
      Flag(use_alpha, 29)})
\* The first argument is the render target, at most 7 in a direct call.
GX2SetBlendControl(a) ==
  <<Write(cb_blend0_control_register + 4 * a[1],
          pack_blend_control(a[2], a[3], a[4], a[5], a[6], a[7], a[8]))>>
GX2InitBlendControlReg(a) ==
  <<Put(a[1], 0, 31), pack_blend_control(a[2], a[3], a[4], a[5], a[6], a[7], a[8])>>
GX2GetBlendControlReg(o) ==
  LET control == o[2]
  IN <<Field(o[1], 0, 31), Field(control, 0, 5), Field(control, 8, 5), Field(control, 5, 3),
       Field(control, 29, 1), Field(control, 16, 5), Field(control, 24, 5), Field(control, 21, 3)>>

blend_constant_registers ==
  <<cb_blend_red_register, cb_blend_green_register, cb_blend_blue_register, cb_blend_alpha_register>>
GX2SetBlendConstantColor(a) ==
  Writes(blend_constant_registers,
         <<FloatBits(a[1]), FloatBits(a[2]), FloatBits(a[3]), FloatBits(a[4])>>)
GX2InitBlendConstantColorReg(a) ==
  <<FloatBits(a[1]), FloatBits(a[2]), FloatBits(a[3]), FloatBits(a[4])>>
GX2GetBlendConstantColorReg(o) == [n \in 1..4 |-> Field(o[n], 0, 31)]
GX2SetBlendConstantColorReg(o) == Writes(blend_constant_registers, o)

pack_alpha_test_control(alpha_test, compare_function) ==
  Put(compare_function, 0, 3) \cup Flag(alpha_test, 3)
GX2SetAlphaTest(a) ==
  <<Write(sx_alpha_test_control_register, pack_alpha_test_control(a[1], a[2])),
    Write(sx_alpha_ref_register, FloatBits(a[3]))>>
GX2SetAlphaTestReg(o) ==
  <<Write(sx_alpha_test_control_register, o[1]), Write(sx_alpha_ref_register, o[2])>>
GX2GetAlphaTestReg(o)  == <<Field(o[1], 3, 1), Field(o[1], 0, 3), Field(o[2], 0, 31)>>
GX2InitAlphaTestReg(a) == <<pack_alpha_test_control(a[1], a[2]), FloatBits(a[3])>>

pack_target_channel_masks(masks) == Or({Put(masks[n], 4 * (n - 1), 4) : n \in 1..8})
GX2SetTargetChannelMasks(a)     == <<Write(cb_target_mask_register, pack_target_channel_masks(a))>>
GX2InitTargetChannelMasksReg(a) == <<pack_target_channel_masks(a)>>
GX2GetTargetChannelMasksReg(o)  == [n \in 1..8 |-> Field(o[1], 4 * (n - 1), 4)]
GX2SetTargetChannelMasksReg(o)  == <<Write(cb_target_mask_register, o[1])>>

pack_aa_mask(upper_left, upper_right, lower_left, lower_right) ==
  Or({Put(upper_left, 0, 8), Put(upper_right, 8, 8), Put(lower_left, 16, 8), Put(lower_right, 24, 8)})
GX2SetAAMask(a)     == <<Write(pa_sc_aa_mask_register, pack_aa_mask(a[1], a[2], a[3], a[4]))>>
GX2InitAAMaskReg(a) == <<pack_aa_mask(a[1], a[2], a[3], a[4])>>
GX2GetAAMaskReg(o)  == [n \in 1..4 |-> Field(o[1], 8 * (n - 1), 8)]
GX2SetAAMaskReg(o)  == <<Write(pa_sc_aa_mask_register, o[1])>>

\* The dither pattern of each of the five modes; another mode leaves it zero.
DitherPatterns == <<\hAA, \h78, \hC6, \h2D, \h93>>
pack_alpha_to_mask(enabled, mode) ==
  Put(IF mode \in 0..4 THEN DitherPatterns[mode + 1] ELSE 0, 8, 8) \cup Flag(enabled, 0)
GX2SetAlphaToMask(a)     == <<Write(db_alpha_to_mask_register, pack_alpha_to_mask(a[1], a[2]))>>
GX2InitAlphaToMaskReg(a) == <<pack_alpha_to_mask(a[1], a[2])>>
\* The call fails on a pattern of none of the modes.
GX2GetAlphaToMaskReg(o)  ==
  LET known == {m \in 0..4 : DitherPatterns[m + 1] = Field(o[1], 8, 8)}
  IN IF known = {} THEN <<>> ELSE <<Field(o[1], 0, 1), CHOOSE m \in known : TRUE>>
GX2SetAlphaToMaskReg(o)  == <<Write(db_alpha_to_mask_register, o[1])>>

----------------------------------------------------------------------------
(* Scissor and viewport.                                                    *)

pack_scissor(x, y, width, height) ==
  <<{31} \cup Put(x, 0, 15) \cup Put(y, 16, 15), Put(x + width, 0, 15) \cup Put(y + height, 16, 15)>>
scissor_registers == <<pa_sc_generic_scissor_tl_register, pa_sc_generic_scissor_br_register>>
GX2SetScissor(a)     == Writes(scissor_registers, pack_scissor(a[1], a[2], a[3], a[4]))
GX2InitScissorReg(a) == pack_scissor(a[1], a[2], a[3], a[4])
GX2GetScissorReg(o)  ==
  LET x == Field(o[1], 0, 15)
      y == Field(o[1], 16, 15)
  IN <<x, y, (Field(o[2], 0, 15) - x) % 2^15, (Field(o[2], 16, 15) - y) % 2^15>>
GX2SetScissorReg(o)  == Writes(scissor_registers, o)

GX2SetWindowOffset(a) ==
  <<Write(pa_sc_window_offset_register, Put(a[1], 0, 16) \cup Put(a[2], 16, 16))>>

viewport_registers ==
  [n \in 1..6 |-> pa_cl_vport_xscale_register + 4 * (n - 1)] \o
  <<pa_cl_gb_vert_clip_adj_register, pa_cl_gb_vert_disc_adj_register,
    pa_cl_gb_horz_clip_adj_register, pa_cl_gb_horz_disc_adj_register,
    pa_sc_vport_zmin_register, pa_sc_vport_zmax_register>>
\* Coordinates and depths count halves, so 1.0 is 2.
One     == 2
GX2SetViewport(a) ==
  LET half_width  == a[3] \div 2
      half_height == a[4] \div 2
      near_z      == a[5]
      far_z       == a[6]
  IN Writes(viewport_registers,
            <<FloatBits(half_width), FloatBits(a[1] + half_width),
              FloatBits(-half_height), FloatBits(a[2] + half_height),
              FloatBits((far_z - near_z) \div 2), FloatBits((near_z + far_z) \div 2),
              FloatBits(One), FloatBits(One), FloatBits(One), FloatBits(One),
              Zero, FloatBits(One)>>)
\* The object is filled in by the guest: no call of the emulator makes one.
GX2SetViewportReg(o) == Writes(viewport_registers, o)
=============================================================================
