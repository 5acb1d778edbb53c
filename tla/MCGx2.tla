------------------------------- MODULE MCGx2 -------------------------------
(* Instances of Gx2 for TLC: what a title may call in each scenario. *)
EXTENDS Gx2

\* Arguments that fill a field's highest and lowest bits and one bit above it.
Telling(width) == CASE width = 0 -> 2 [] width = 31 -> 5 [] OTHER -> 2^width + 2^(width - 1) + 1
Arguments(state) ==
  CASE state \in {"PointSize", "PointLimits"} -> <<40001, 33>>
    [] state = "LineWidth"    -> <<33>>
    [] state = "AlphaToMask"  -> <<2, 3>>
    [] state = "BlendControl" -> <<7, 49, 50, 13, 2, 49, 51, 12>>
    [] state = "Viewport"     -> <<4, 6, 40, 20, 0, 2>>
    [] state = "DepthOnlyControl" -> <<1, 1, 5>>
    [] OTHER -> [n \in DOMAIN Widths[state] |-> Telling(Widths[state][n])]
\* One argument at a time, and all of them.
Settings(state) ==
  LET a == Arguments(state)
  IN {<<state, a>>} \cup {<<state, [n \in DOMAIN a |-> IF n = k THEN a[n] ELSE 0]>> : k \in DOMAIN a}
AllStates == RegisterStates \cup {"DepthOnlyControl"}
Others    == {<<"BlendControl", <<0, 3, 2, 1, 1, 2, 3, 1>>>>, <<"Viewport", <<0, 0, 8, 8, 2, 0>>>>}

ATexture == [dimension |-> 1, width |-> 64, height |-> 32, depth |-> 1, mip_levels |-> 4,
             format |-> \h1A, aa_mode |-> 0, use |-> 1, tile_mode |-> 4, pitch |-> 64,
             first_mip |-> 0, num_mips |-> 4, first_slice |-> 0, num_slices |-> 1,
             components |-> <<0, 1, 2, 3>>, image |-> {12, 20}, mipmap |-> {16, 21},
             swizzle |-> {}, registers |-> Failed]
Textures ==
  {[ATexture EXCEPT !.dimension = d, !.depth = 12, !.num_slices = 12] : d \in 0..7} \cup
  {[ATexture EXCEPT !.width = 8192, !.height = 0, !.pitch = 8192],
   [ATexture EXCEPT !.width = 1, !.height = 8192, !.pitch = 8],
   [ATexture EXCEPT !.first_mip = 3, !.num_mips = 0, !.first_slice = 5, !.num_slices = 3],
   [ATexture EXCEPT !.components = <<5, 4, 3, 0>>, !.mipmap = {}],
   [ATexture EXCEPT !.format = \h31, !.pitch = 16],
   [ATexture EXCEPT !.format = \hE10],
   [ATexture EXCEPT !.swizzle = {8, 16, 18, 19}],
   [ATexture EXCEPT !.aa_mode = 2, !.mip_levels = 1, !.num_mips = 1],
   [ATexture EXCEPT !.use = 4, !.tile_mode = 1, !.image = {8, 9, 31}]}

Step(name, args) == [name |-> name, args |-> args]
SamplerSteps ==
  {Step("Init", <<0, 0>>), Step("Init", <<7, 2>>), Step("Clamping", <<1, 2, 4>>),
   Step("XYFilter", <<0, 1, 0>>), Step("XYFilter", <<2, 1, 0>>), Step("XYFilter", <<0, 1, 4>>),
   Step("XYFilter", <<1, 0, 3>>), Step("ZMFilter", <<2, 0>>), Step("ZMFilter", <<0, 2>>),
   Step("LOD", <<64, 2048, -1>>), Step("LOD", <<2047, 130, 4095>>), Step("LOD", <<0, 1, -4096>>),
   Step("DepthCompare", <<7>>), Step("DepthCompare", <<0>>), Step("BorderType", <<3>>)}

ASurface == [dimension |-> 1, width |-> 64, height |-> 64, depth |-> 1, mip_levels |-> 1,
             format |-> \h1A, aa_mode |-> 0, use |-> 1, tile_mode |-> 0, swizzle |-> {0, 17},
             image |-> Zero, mipmap |-> Zero, image_size |-> 0, mipmap_size |-> 0,
             alignment |-> 0, pitch |-> 0, mip_offsets |-> [n \in 1..13 |-> 0]]
Surfaces_ ==
  {[ASurface EXCEPT !.dimension = d, !.width = size[1], !.height = size[2], !.depth = z,
                    !.mip_levels = 13, !.format = f, !.tile_mode = t] :
     d \in {1, 2, 5}, size \in {<<7, 9>>, <<100, 64>>, <<100, 9>>}, z \in {1, 6},
     f \in {1, \h1A}, t \in {0, 1, 3, 4, 16}} \cup
  {[ASurface EXCEPT !.use = 8, !.width = 100, !.mip_levels = l] : l \in {1, 2}}
Refused == {[ASurface EXCEPT !.format = 0], [ASurface EXCEPT !.tile_mode = 5],
            [ASurface EXCEPT !.width = 1000, !.height = 1000, !.format = 35],
            [ASurface EXCEPT !.width = 256, !.height = 128, !.aa_mode = 3, !.format = 35]}

Base == [calls |-> 2, initialized |-> TRUE, settings |-> {}, sampling |-> {}, textures |-> {},
         units |-> {}, colors |-> {}, flags |-> {}, bindings |-> {}, tv |-> {},
         pacing |-> TRUE, may |-> {}, texture |-> ATexture, surface |-> ASurface]

\* The fields of each state, set by the call and through an object.
Fields == {[Base EXCEPT !.settings = {setting}, !.may = {"set", "objects"}] :
             setting \in UNION {Settings(state) : state \in ObjectStates}} \cup
          {[Base EXCEPT !.settings = {setting}, !.may = {"set"}] :
             setting \in Settings("WindowOffset") \cup Settings("DepthOnlyControl")}
\* Each state beside every other.
Beside == [Base EXCEPT !.settings = {<<state, Arguments(state)>> : state \in AllStates} \cup Others,
                       !.may = {"set"}]
Context == [Base EXCEPT !.calls = 4, !.may = {"set", "context", "draw"},
              !.settings = {<<state, Arguments(state)>> :
                              state \in {"PolygonOffset", "Viewport", "ColorControl"}}]
Sampling == [Base EXCEPT !.calls = 3, !.sampling = SamplerSteps]
Describing == {[Base EXCEPT !.textures = {t}] : t \in Textures}
LayingOut  == {[Base EXCEPT !.surface = s, !.calls = 1, !.may = {"surface"}] : s \in Surfaces_}
Creating   == {[Base EXCEPT !.surface = s, !.calls = 3, !.may = {"surface"},
                            !.flags = {1, 8, 2^30 + 2^29 + 2}] : s \in Refused \cup {ASurface}}
Binding == [Base EXCEPT !.calls = 4, !.sampling = {Step("Init", <<2, 1>>), Step("LOD", <<0, 2, 2>>)},
              !.textures = {[ATexture EXCEPT !.width = 32, !.image = {20}]},
              !.units = {<<"pixel", 0>>, <<"compute", 1>>}, !.may = {"draw"}]
Borders == [Base EXCEPT !.calls = 3, !.colors = {<<1, 2, 3, 4>>, <<0, 0, 0, 5>>},
              !.units = {<<"pixel", 0>>, <<"vertex", 1>>, <<"compute", 1>>, <<"geometry", 0>>},
              !.may = {"draw", "context"}]
Drawing == [Base EXCEPT !.calls = 4, !.initialized = FALSE, !.may = {"draw", "write", "init"},
              !.bindings = {<<"FetchShader", 0>>, <<"ColorBuffer", 7>>}]
Shaders == [Base EXCEPT !.calls = 3, !.may = {"draw", "write"},
              !.bindings = {<<"ProgramShader", "vertex">>, <<"ProgramShader", "pixel">>,
                            <<"VertexBuffer", 0>>, <<"DepthBuffer", 0>>, <<"ColorBuffer", 0>>}]
Swapping == [Base EXCEPT !.calls = 4, !.initialized = FALSE,
               !.tv = {<<3, 1, \h1A>>, <<5, 2, \h1A>>, <<3, 3, \h1A>>, <<4, 2, \h1A>>},
               !.may = {"swap", "enable", "sync", "init"}]
Waiting == [Base EXCEPT !.calls = 4, !.may = {"wait"}]
Unpaced == [Waiting EXCEPT !.calls = 2, !.pacing = FALSE]
MCScenarios == Fields \cup Describing \cup LayingOut \cup Creating \cup
               {Beside, Context, Sampling, Binding, Borders, Drawing, Shaders, Swapping, Waiting, Unpaced}
=============================================================================
