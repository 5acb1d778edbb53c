----------------------------- MODULE Gx2Surface -----------------------------
(***************************************************************************)
(* The layout of surfaces and scan buffers: GX2CalcSurfaceSizeAndAlignment  *)
(* and GX2CalcTVSize of gx2_hle.cpp.  A calculation that the code refuses   *)
(* returns Failed.                                                          *)
(***************************************************************************)
EXTENDS Gx2Resources, SequencesExt

CONSTANT MaxBytes   \* 2^32 - 1 in the code

ASSUME MaxBytesAssumption == MaxBytes \in Nat \ {0}

Larger(a, b)  == IF a > b THEN a ELSE b
Smaller(a, b) == IF a < b THEN a ELSE b

linear_aligned == 1
thin1_1d       == 2
thick_1d       == 3
thin1_2d       == 4
thick_2d       == 7
linear_special == 16
MacroTiled  == {thin1_2d, thick_2d}
TileModes   == {linear_aligned, thin1_1d, thick_1d, linear_special} \cup MacroTiled
Thickness(tile_mode) == IF tile_mode \in {thick_1d, thick_2d} THEN 4 ELSE 1
\* What a macro-tiled level falls back to.
MicroTiled(tile_mode) == IF tile_mode = thick_2d THEN thick_1d ELSE thin1_1d

align_gx2_dimension(value, alignment) == ((value + alignment - 1) \div alignment) * alignment
BitCeil(n)   == TwoTo[CHOOSE k \in 0..24 : TwoTo[k] >= n /\ (k = 0 \/ TwoTo[k - 1] < n)]
Halved(n, level) == AtLeastOne(n \div TwoTo[level])

ColorBufferUse    == 2
DisplaySurfaceUse == 8

\* Alignments of a tile mode: of the base, the pitch, the height and the depth.
TileAlignments(tile_mode, bits, samples) ==
  LET thickness == Thickness(tile_mode)
  IN CASE tile_mode = linear_special -> <<1, 1, 1, 1>>
       [] tile_mode = linear_aligned -> <<256, Larger(64, 2048 \div bits), 1, 1>>
       [] tile_mode \in {thin1_1d, thick_1d} ->
            <<256, Larger(8, ((256 \div bits) \div samples) \div thickness), 8, thickness>>
       [] tile_mode \in MacroTiled ->
            LET pitch  == Larger(32, 32 * (((256 \div bits) \div (8 * thickness)) \div samples))
                macro_tile_bytes == (samples * bits * 16 * 32) \div 8
                row_bytes == (samples * 16 * bits * pitch) \div 8
                micro_tile_bytes == (thickness * samples * bits * 64) \div 8
                splits == IF micro_tile_bytes < 2048 THEN 1 ELSE micro_tile_bytes \div 2048
            IN <<Larger(macro_tile_bytes, row_bytes) \div splits, pitch, 16, thickness>>

\* One mip level of surface s in a tile mode; fits says that its size does.
calculate_gx2_surface_mip_layout(s, bits, samples, tile_mode, mip_level) ==
  LET tile     == TileAlignments(tile_mode, bits, samples)
      padded   == mip_level # 0 /\ tile_mode # linear_special
      Padded(n) == IF padded THEN BitCeil(n) ELSE n
      pitch_alignment  == Padded(IF HasFlag(s.use, DisplaySurfaceUse)
                                 THEN align_gx2_dimension(tile[2], 32) ELSE tile[2])
      height_alignment == Padded(tile[3])
      mip_height == IF s.dimension = 0 THEN 1 ELSE Halved(s.height, mip_level)
      mip_depth  == CASE s.dimension = 2 -> Halved(s.depth, mip_level)
                      [] s.dimension \in {4, 5, 7} -> s.depth
                      [] OTHER -> 1
      pitch    == align_gx2_dimension(Padded(Halved(s.width, mip_level)), pitch_alignment)
      height   == align_gx2_dimension(Padded(mip_height), height_alignment)
      depth    == align_gx2_dimension(Padded(mip_depth), Padded(tile[4]))
      maximum_texels == (MaxBytes * 8) \div (bits * samples)
  IN [pitch |-> pitch, base_alignment |-> tile[1], pitch_alignment |-> pitch_alignment,
      height_alignment |-> height_alignment,
      fits |-> pitch <= maximum_texels \div height /\ pitch * height <= maximum_texels \div depth,
      size |-> (pitch * height * depth * bits * samples) \div 8]

Levels(n) == Cardinality({k \in 0..24 : TwoTo[k] <= n})

\* The size of the mipmaps, to the end of the last level; the mutant forgets that level.
mipmap_bytes_Start(last_offset, last_size) == last_offset
mipmap_bytes(last_offset, last_size)       == last_offset + last_size
\* The tile mode a surface gets, unless its base is too small for it, and its levels.
asked_tile_mode(s) ==
  CASE s.tile_mode # 0 -> s.tile_mode
    [] s.dimension = 0 /\ ~HasFlag(s.use, DepthBufferUse) /\ s.aa_mode = 0 -> linear_aligned
    [] s.dimension # 2 \/ HasFlag(s.use, ColorBufferUse) -> thin1_2d
    [] OTHER -> thick_2d
mip_levels(s) ==
  LET max_levels == Larger(Levels(Larger(s.width, s.height)), IF s.dimension = 2 THEN Levels(s.depth) ELSE 1)
  IN Smaller(AtLeastOne(s.mip_levels), max_levels)
\* The tile mode of a level that is laid out so: small levels fall back.
LevelMode(s, tile_mode, level, layout) ==
  IF tile_mode \in MacroTiled /\ IF level = 0
       THEN s.width < layout.pitch_alignment /\ s.height < layout.height_alignment
       ELSE \/ Halved(s.width, level) < layout.pitch_alignment
            \/ Halved(s.height, level) < layout.height_alignment
  THEN MicroTiled(tile_mode) ELSE tile_mode
\* Where each level starts, from the place and the size of the one before; extents are below
\* 2^14, so that mip_offsets has room for every level.
Offsets(layouts) ==
  LET start[n \in 1..Len(layouts)] ==
        IF n = 1 THEN 0
        ELSE LET align   == layouts[n].base_alignment
                 before  == start[n - 1]
                 padding == (align - (before % align)) % align
             IN before + padding + layouts[n - 1].size
  IN start
\* The fields the calculation writes for levels at these offsets, or Failed; levels, what
\* each takes, is for the properties.
SurfaceFields(s, tile_mode, layouts, offsets) ==
  LET count       == Len(layouts)
      mipmap_size == IF count > 1 THEN mipmap_bytes(offsets[count], layouts[count].size) ELSE 0
  IN IF mipmap_size > MaxBytes \/ \E n \in 1..count : offsets[n] > MaxBytes THEN Failed
     ELSE [mip_levels |-> count, image_size |-> layouts[1].size, mipmap_size |-> mipmap_size,
           tile_mode |-> tile_mode, alignment |-> layouts[1].base_alignment, pitch |-> layouts[1].pitch,
           swizzle |-> Without(s.swizzle, 16, 8) \cup
                       (IF tile_mode \in MacroTiled THEN Put(13, 16, 8) ELSE {}),
           mip_offsets |-> [n \in 1..13 |-> IF n < count THEN offsets[n + 1] ELSE 0],
           levels |-> [n \in 1..count |-> [start |-> offsets[n], size |-> layouts[n].size,
                                           alignment |-> layouts[n].base_alignment]]]
\* A surface that no layout is calculated for.
RefusedSurface(s) ==
  \/ s.dimension > 7 \/ 0 \in {s.width, s.height, s.depth} \/ s.aa_mode > 3
  \/ s.width >= TwoTo[24] \/ s.height >= TwoTo[24] \/ s.depth >= TwoTo[24]
  \/ gx2_surface_format_bits(s.format) = 0
Layout(s, tile_mode, level) ==
  calculate_gx2_surface_mip_layout(s, gx2_surface_format_bits(s.format), TwoTo[s.aa_mode], tile_mode, level)
\* From the tile mode of the base: each level laid out in it, then in its own mode, then placed.
Macros(s, tile_mode) == [n \in 1..mip_levels(s) |-> Layout(s, tile_mode, n - 1)]
Layouts(s, tile_mode, macros) ==
  [n \in DOMAIN macros |->
     LET mode == IF n = 1 THEN tile_mode ELSE LevelMode(s, tile_mode, n - 1, macros[n])
     IN IF mode = tile_mode THEN macros[n] ELSE Layout(s, mode, n - 1)]
Finished(s, tile_mode, macros, layouts) ==
  IF \E n \in DOMAIN layouts : ~layouts[n].fits \/ ~macros[n].fits THEN Failed
  ELSE Evaluated(LAMBDA offsets : SurfaceFields(s, tile_mode, layouts, offsets), Offsets(layouts))
Leveled(s, tile_mode, macros) ==
  Evaluated(LAMBDA layouts : Finished(s, tile_mode, macros, layouts), Layouts(s, tile_mode, macros))
Tiled(s, tile_mode) ==
  Evaluated(LAMBDA macros : Leveled(s, tile_mode, macros), Macros(s, tile_mode))
Based(s, asked, base) ==
  IF asked \in MacroTiled /\ ~base.fits THEN Failed
  ELSE Evaluated(LAMBDA tile_mode : Tiled(s, tile_mode), LevelMode(s, asked, 0, base))
calculate_gx2_surface_size_and_alignment(s) ==
  IF RefusedSurface(s) \/ asked_tile_mode(s) \notin TileModes THEN Failed
  ELSE Evaluated(LAMBDA base : Based(s, asked_tile_mode(s), base), Layout(s, asked_tile_mode(s), 0))

----------------------------------------------------------------------------
(* Scan buffers.                                                            *)

unorm_r8_g8_b8_a8 == \h1A
get_tv_dimensions(render_mode) ==
  CASE render_mode = 3 -> <<1280, 720>> [] render_mode = 5 -> <<1920, 1080>> [] OTHER -> Failed
get_scan_buffer_count(buffering_mode) == IF buffering_mode \in 1..3 THEN buffering_mode ELSE 0

calculate_tv_size(render_mode, surface_format, buffering_mode) ==
  LET dimensions == get_tv_dimensions(render_mode)
      count      == get_scan_buffer_count(buffering_mode)
  IN IF dimensions = Failed \/ surface_format # unorm_r8_g8_b8_a8 \/ count = 0 THEN 0
     ELSE dimensions[1] * dimensions[2] * 4 * count
=============================================================================
