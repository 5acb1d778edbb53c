---------------------------- MODULE Gx2Resources ----------------------------
(***************************************************************************)
(* Samplers and textures, from the guest's objects to the words bound for   *)
(* the shaders and to what the renderer decodes from them: the sampler and  *)
(* texture calls of gx2_hle.cpp, latte_sampler.hpp and                      *)
(* latte_texture_resource.hpp.  A call that fails returns Failed.           *)
(***************************************************************************)
EXTENDS Gx2Words

Failed == <<>>
\* A value in place of n bits from lo.
Replace(w, lo, n, x) == Without(w, lo, n) \cup Put(x, lo, n)

----------------------------------------------------------------------------
(* A sampler object s is its three words.                                   *)

GX2InitSampler(clamp_mode, filter_mode) ==
  IF clamp_mode > 7 \/ filter_mode > 2 THEN Failed
  ELSE <<Or({Put(clamp_mode, 0, 3), Put(clamp_mode, 3, 3), Put(clamp_mode, 6, 3),
             Put(filter_mode, 9, 3), Put(filter_mode, 12, 3), {15, 17, 25}}), 10..19, {31}>>

GX2InitSamplerClamping(s, clamp_x, clamp_y, clamp_z) ==
  IF clamp_x > 7 \/ clamp_y > 7 \/ clamp_z > 7 THEN Failed
  ELSE [s EXCEPT ![1] = Without(@, 0, 9) \cup
                        Put(clamp_x, 0, 3) \cup Put(clamp_y, 3, 3) \cup Put(clamp_z, 6, 3)]

\* With anisotropy point filtering is encoded as 2 and bilinear as 3.
GX2InitSamplerXYFilter(s, filter_mag, filter_min, max_aniso) ==
  LET encoded(filter) == IF max_aniso = 0 THEN filter ELSE IF filter = 0 THEN 2 ELSE 3
  IN IF \/ filter_mag > 2 \/ filter_min > 2 \/ max_aniso > 4
        \/ max_aniso # 0 /\ 2 \in {filter_mag, filter_min}
     THEN Failed
     ELSE [s EXCEPT ![1] = Without(Without(@, 9, 6), 19, 3) \cup Put(max_aniso, 19, 3) \cup
                           Put(encoded(filter_mag), 9, 3) \cup Put(encoded(filter_min), 12, 3)]

\* Mutant: the old filters are not cleared.
GX2InitSamplerZMFilter_Adds(s, filter_z, filter_mip) ==
  IF filter_z > 2 \/ filter_mip > 2 THEN Failed
  ELSE [s EXCEPT ![1] = @ \cup Put(filter_z, 15, 2) \cup Put(filter_mip, 17, 2)]
GX2InitSamplerZMFilter(s, filter_z, filter_mip) ==
  IF filter_z > 2 \/ filter_mip > 2 THEN Failed
  ELSE [s EXCEPT ![1] = Without(@, 15, 4) \cup Put(filter_z, 15, 2) \cup Put(filter_mip, 17, 2)]

\* The arguments count 1/128: the registers keep 1/64, rounded down.
GX2InitSamplerLOD(s, min_lod, max_lod, lod_bias) ==
  LET fixed(lod)     == Clamp(Clamp(lod, 0, 16 * 128) \div 2, 0, 1023)
      lod_bias_fixed == Clamp(Clamp(lod_bias, -32 * 128, 32 * 128) \div 2, -2048, 2047)
  IN [s EXCEPT ![2] = Without(@, 0, 32) \cup Put(fixed(min_lod), 0, 10) \cup
                      Put(fixed(max_lod), 10, 10) \cup Put(lod_bias_fixed, 20, 12)]

GX2InitSamplerDepthCompare(s, depth_compare) ==
  IF depth_compare > 7 THEN Failed ELSE [s EXCEPT ![1] = Replace(@, 26, 3, depth_compare)]

GX2InitSamplerBorderType(s, border_type) ==
  IF border_type > 3 THEN Failed ELSE [s EXCEPT ![1] = Replace(@, 22, 2, border_type)]

\* What the renderer reads of the three words, or Failed.
decode_latte_sampler(s) ==
  LET signed_lod_bias == Field(s[2], 20, 12)
      fields == [wrap_modes |-> <<Field(s[1], 0, 3), Field(s[1], 3, 3), Field(s[1], 6, 3)>>,
                 mag_filter |-> Field(s[1], 9, 3), min_filter |-> Field(s[1], 12, 3),
                 z_filter |-> Field(s[1], 15, 2), mip_filter |-> Field(s[1], 17, 2),
                 max_anisotropy |-> Field(s[1], 19, 3), border_color_type |-> Field(s[1], 22, 2),
                 depth_compare |-> Field(s[1], 26, 3),
                 min_lod_fixed |-> Field(s[2], 0, 10), max_lod_fixed |-> Field(s[2], 10, 10),
                 lod_bias_fixed |-> IF signed_lod_bias >= 2048 THEN signed_lod_bias - 4096
                                    ELSE signed_lod_bias,
                 sampler_type |-> 31 \in s[3]]
  IN IF fields.mag_filter > 5 \/ fields.min_filter > 5 \/ fields.z_filter > 2 \/ fields.mip_filter > 2
     THEN Failed ELSE fields

----------------------------------------------------------------------------
(* A texture object t holds its surface, its view and, once initialised, the *)
(* five register words the code keeps at its end.  Addresses and the swizzle *)
(* are words.                                                                *)

\* Bits per element of a surface format, 0 for the formats the code rejects.
gx2_surface_format_bits(format) ==
  LET base == format % 64
  IN CASE base \in {1, 2} -> 8
       [] base \in {5, 6, 7, 8, 10, 11, 12} -> 16
       [] base \in {13, 14, 15, 16, 17, 22, 25, 26, 27} -> 32
       [] base \in {29, 30, 31, 32} -> 64
       [] base \in {34, 35} -> 128
       [] OTHER -> 0

IsCompressed(format) == format % 64 \in \h31..\h35

\* The byte order of a texel.
gx2_texture_endian_swap(format) ==
  LET base == format % 64
  IN CASE base \in {1, 2, 13, 14, 29, 30, 34, 35} \cup \h31..\h35 -> 0
       [] base \in {5, 6, 7, 8, 10, 11, 12} -> 1
       [] base \in {15, 16, 17, 22, 25, 26, 27} -> 2
       [] base \in {31, 32} -> 3

AtLeastOne(x) == IF x < 1 THEN 1 ELSE x
HasFlag(format, flag) == (format \div flag) % 2 = 1
DepthBufferUse == 4

\* The register words of a texture, or Failed.
initialize_gx2_texture_registers(t) ==
  LET height    == AtLeastOne(t.height)
      depth     == AtLeastOne(t.depth)
      levels    == AtLeastOne(t.mip_levels)
      num_mips  == AtLeastOne(t.num_mips)
      num_slices == AtLeastOne(t.num_slices)
      compressed == IsCompressed(t.format)
      pitch     == IF compressed THEN t.pitch * 4 ELSE t.pitch
      encoded_pitch == IF pitch = 0 THEN 2047 ELSE ((pitch \div 8) - 1) % 2048
      encoded_width == IF t.width = 0 THEN 8191 ELSE t.width - 1
      encoded_depth == CASE t.dimension = 3 -> IF depth \div 6 = 0 THEN 0 ELSE depth \div 6 - 1
                         [] t.dimension \in {2, 4, 5, 7} -> depth - 1
                         [] OTHER -> 0
      numeric_format == IF HasFlag(t.format, 2048) THEN 2 ELSE IF HasFlag(t.format, 256) THEN 1 ELSE 0
      last_mip  == IF t.aa_mode \in 1..3 THEN t.aa_mode ELSE t.first_mip + num_mips - 1
      last_slice == t.first_slice + num_slices - 1
  IN IF \/ t.dimension > 7 \/ t.width > 8192 \/ height > 8192 \/ depth > 8192
        \/ t.aa_mode > 3 \/ levels > 16 \/ t.first_mip > 15 \/ num_mips > 16
        \/ t.first_mip + num_mips > levels \/ t.first_slice > 8191 \/ num_slices > 8192
        \/ t.first_slice + num_slices > 8192
        \/ ~compressed /\ gx2_surface_format_bits(t.format) = 0
        \/ HasFlag(t.format, 64) \/ HasFlag(t.format, 128) \/ t.format >= 4096
        \/ t.tile_mode > 15
        \/ \E n \in 1..4 : t.components[n] % 8 > 5
        \/ t.dimension = 3 /\ (depth < 6 \/ depth % 6 # 0)
     THEN Failed
     ELSE <<Or({Put(t.dimension, 0, 3), Put(t.tile_mode, 3, 4),
                Flag(IF HasFlag(t.use, DepthBufferUse) THEN 1 ELSE 0, 7),
                Put(encoded_pitch, 8, 11), Put(encoded_width, 19, 13)}),
            Or({Put(height - 1, 0, 13), Put(encoded_depth, 13, 13), Put(t.format, 26, 6)}),
            Or({IF HasFlag(t.format, 512) THEN {0, 2, 4, 6} ELSE {}, Put(numeric_format, 8, 2),
                IF HasFlag(t.format, 1024) THEN {11} ELSE {},
                Put(gx2_texture_endian_swap(t.format), 12, 2), {15},
                Put(t.components[1], 16, 3), Put(t.components[2], 19, 3),
                Put(t.components[3], 22, 3), Put(t.components[4], 25, 3),
                Put(t.first_mip, 28, 4)}),
            Or({Put(last_mip, 0, 4), Put(t.first_slice, 4, 13), Put(last_slice, 17, 13),
                IF t.dimension = 3 /\ encoded_depth # 0 THEN {30} ELSE {}}),
            {2, 5, 6, 7, 31}>>

ShiftRight(w, n)  == {b - n : b \in {k \in w : k >= n}}
ShiftLeft(w, n)   == {b + n : b \in w} \cap WordBits
ExclusiveOr(v, w) == (v \ w) \cup (w \ v)

\* A texture without mipmaps has its image in their place.
mipmap_address(t) == IF t.mipmap = {} THEN t.image ELSE t.mipmap
\* The seven words set_gx2_texture queues for an initialised texture, or Failed.
texture_binding_words(t) ==
  LET mipmap     == mipmap_address(t)
      stop_level == Field(t.swizzle, 16, 8)
      macro_tiled == t.tile_mode \in 4..15
      low_swizzle == t.swizzle \cap 0..15
      image_word == IF macro_tiled /\ stop_level > 0 THEN ExclusiveOr(t.image, low_swizzle) ELSE t.image
      mip_word   == IF macro_tiled /\ stop_level > 1 THEN ExclusiveOr(mipmap, low_swizzle) ELSE mipmap
  IN IF t.swizzle \cap 0..7 # {} THEN Failed
     ELSE <<t.registers[1], t.registers[2], ShiftRight(image_word, 8), ShiftRight(mip_word, 8),
            t.registers[3], t.registers[4], t.registers[5]>>

\* What the renderer reads of the seven words, or Failed.
decode_latte_texture_resource(words) ==
  LET dimension     == Field(words[1], 0, 3)
      encoded_depth == Field(words[2], 13, 13)
      selectors     == [n \in 1..4 |-> Field(words[5], 13 + 3 * n, 3)]
  IN IF \/ words[7] \cap {30, 31} # {31}
        \/ words[3] \cap 24..31 # {} \/ words[4] \cap 24..31 # {}
        \/ Field(words[2], 26, 6) = 0 \/ Field(words[5], 8, 2) = 3
        \/ \E n \in 1..4 : selectors[n] > 5
     THEN Failed
     ELSE [dimension |-> dimension, tile_mode |-> Field(words[1], 3, 4),
           depth_tile |-> 7 \in words[1], pitch_pixels |-> (Field(words[1], 8, 11) + 1) * 8,
           width |-> Field(words[1], 19, 13) + 1, height |-> Field(words[2], 0, 13) + 1,
           depth_or_layers |-> IF dimension = 3 THEN (encoded_depth + 1) * 6 ELSE encoded_depth + 1,
           format |-> Field(words[2], 26, 6),
           image_address |-> ShiftLeft(words[3], 8), mipmap_address |-> ShiftLeft(words[4], 8),
           numeric_format |-> Field(words[5], 8, 2), endian_swap |-> Field(words[5], 12, 2),
           force_degamma |-> 11 \in words[5], component_selectors |-> selectors,
           base_level |-> Field(words[5], 28, 4), last_level |-> Field(words[6], 0, 4),
           base_array |-> Field(words[6], 4, 13), last_array |-> Field(words[6], 17, 13)]
=============================================================================
