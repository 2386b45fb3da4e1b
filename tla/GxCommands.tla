------------------------------ MODULE GxCommands ------------------------------
(***************************************************************************)
(* cgx.cpp, cgx_defaults.h and util.cpp: the commands the GX tests send down  *)
(* the FIFO and what they do with the CPU in between; and (external) what    *)
(* the GPU makes of the commands.  A register holds the fields the tests      *)
(* depend on, under a name of its own; a pixel of the EFB is a colour, a      *)
(* depth and the round of the test that put them there.                     *)
(*                                                                         *)
(* Positions are in tenths of the unit of the source; a depth is "inside",    *)
(* "front" of or "behind" the clipping planes, or "edge": so close that the   *)
(* GPU may take it either way.  The guard band is left out.                   *)
(***************************************************************************)
EXTENDS GxArithmetic, Sequences

Load(register, value) == [op |-> "load", register |-> register, value |-> value]

-----------------------------------------------------------------------------
(* What a test does, one statement after the other. *)
Send(commands) == [op |-> "send", commands |-> commands]
CGX_WaitForGpuToFinish == [op |-> "wait"]
Memset == [op |-> "memset"]
CGX_PokeARGB(colors) == [op |-> "poke", colors |-> colors]
CGX_PeekARGB(expected) == [op |-> "peek", expected |-> expected]
CGX_PeekZ(expected) == [op |-> "peekz", expected |-> expected]

(* ReadTestBuffer and the subtests on what it returns: for the pixels read,   *)
(* the channels (r, g, b and a are 1 to 4) compared and their values.        *)
ReadTestBuffer(expected) == [op |-> "read", expected |-> expected]

-----------------------------------------------------------------------------
(* cgx_defaults.h. *)
DefaultGenMode == [stages |-> 0, texgens |-> 0, chans |-> 1]
DefaultZMode == [test |-> FALSE, update |-> FALSE]
DefaultCombiner ==
    [a |-> "Zero", b |-> "Zero", c |-> "Zero", d |-> "Zero",
     bias |-> "Zero", op |-> "Add", clamp |-> FALSE, scale |-> "Scale1"]
DefaultOrder == FALSE   \* no texture

ColorEnv == <<"cc0", "cc1", "cc2", "cc3">>
AlphaEnv == <<"ac0", "ac1", "ac2", "ac3">>
ColorCombiner(stage, combiner) == Load(ColorEnv[stage + 1], combiner)
AlphaCombiner(stage, combiner) == Load(AlphaEnv[stage + 1], combiner)
D(input) == [DefaultCombiner EXCEPT !.d = input]

Viewport(x, y, width, height) == Load("viewport", [x |-> x, y |-> y, w |-> width, h |-> height])

-----------------------------------------------------------------------------
(* util.cpp, Quad: its vertices from the top left clockwise. *)
TopLeft == 1
TopRight == 2
BottomRight == 3
BottomLeft == 4
Quad == [op |-> "draw", x |-> <<-10, 10, 10, -10>>, y |-> <<10, 10, -10, -10>>,
         z |-> <<"inside", "inside", "inside", "inside">>,
         has |-> "position", color |-> <<0, 0, 0, 0>>, measured |-> FALSE]
Vertex(quad, i, x, y, z) == [quad EXCEPT !.x[i] = x, !.y[i] = y, !.z[i] = z]
AtDepth(quad, z) == [quad EXCEPT !.z = <<z, z, z, z>>]
ColorRGBA(quad, r, g, b, a) == [quad EXCEPT !.has = "color", !.color = <<r, g, b, a>>]

(* Draw describes the vertices before it sends them, but not to the XF        *)
(* (VTXSPECS), which keeps what it was told last.                           *)
Draw(quad) == <<Load("vertex", quad.has), quad>>

(* What has to be measured, whether the quad covers the pixel, is open. *)
Measured(quad) == [quad EXCEPT !.measured = TRUE]

-----------------------------------------------------------------------------
(* An EFB copy: only what changes the bytes of the copy. *)
EFBCopyParams == [clear |-> FALSE, intensity_fmt |-> FALSE, auto_conv |-> FALSE]
CGX_DoEfbCopyTex(left, top, right, bottom, params) ==
    [op |-> "copy", left |-> left, top |-> top, right |-> right, bottom |-> bottom, params |-> params]
CopyToTestBuffer(left, top, right, bottom, params) ==
    <<Memset, Send(<<CGX_DoEfbCopyTex(left, top, right, bottom, params)>>)>>

(* GetTevOutput for a test's only stage that writes to PREV: a stage more,    *)
(* then three, and the copy of each is read.  The mutant does not wait for it. *)
TevPixel == <<5, 5>>
PassUnwaited(genmode, stages, combiners) ==
    <<Send(<<Load("genmode", [genmode EXCEPT !.stages = stages])>> \o combiners),
      Memset,
      Send(Draw(ColorRGBA(AtDepth(Quad, "inside"), 255, 255, 255, 255))
           \o <<CGX_DoEfbCopyTex(0, 0, 99, 99, EFBCopyParams)>>)>>
Pass(genmode, stages, combiners) == PassUnwaited(genmode, stages, combiners) \o <<CGX_WaitForGpuToFinish>>
Halve(stage) ==
    <<ColorCombiner(stage, [D("PrevColor") EXCEPT !.scale = "Divide2"]),
      AlphaCombiner(stage, [D("PrevAlpha") EXCEPT !.scale = "Divide2"])>>
Quadruple(stage) ==
    <<ColorCombiner(stage, [DefaultCombiner EXCEPT !.a = "PrevColor", !.scale = "Scale4"]),
      AlphaCombiner(stage, [DefaultCombiner EXCEPT !.a = "PrevAlpha", !.scale = "Scale4"])>>
GetTevOutput(genmode, channel, expected) ==
    Pass(genmode, 1, Quadruple(1)) \o <<[op |-> "keep", channel |-> channel]>>
    \o Pass(genmode, 3, Halve(1) \o Halve(2) \o Halve(3))
    \o <<[op |-> "combine", channel |-> channel, expected |-> expected]>>

(* GXTest::Init: what libogc set up (external), and what Init makes of it. *)
PassColor == [color |-> D("RasColor"), alpha |-> D("RasAlpha")]
Full == [prev |-> 0, cur |-> 64, next |-> 0]
GX_Init ==
    [format |-> "RGB8", genmode |-> DefaultGenMode, zmode |-> [test |-> TRUE, update |-> TRUE],
     cc0 |-> DefaultCombiner, cc1 |-> DefaultCombiner, cc2 |-> DefaultCombiner, cc3 |-> DefaultCombiner,
     ac0 |-> DefaultCombiner, ac1 |-> DefaultCombiner, ac2 |-> DefaultCombiner, ac3 |-> DefaultCombiner,
     Color0 |-> <<0, 0, 0, 0>>, Color1 |-> <<0, 0, 0, 0>>, Color2 |-> <<0, 0, 0, 0>>, Prev |-> <<0, 0, 0, 0>>,
     K0 |-> <<0, 0, 0, 0>>, K1 |-> <<0, 0, 0, 0>>, K2 |-> <<0, 0, 0, 0>>, K3 |-> <<0, 0, 0, 0>>,
     ksel |-> [kc |-> <<0, 0>>, ka |-> <<0, 0>>],
     numchan |-> 0, channel |-> [source |-> "vertex", lit |-> FALSE], ambient |-> 0, material |-> 0,
     clip |-> 0, viewport |-> [x |-> 0, y |-> 0, w |-> 640, h |-> 480], vertex |-> "position", specs |-> "position",
     filter |-> Full, order |-> DefaultOrder, ztexture |-> "Disabled", clearz |-> 0,
     ssize |-> 0, tsize |-> 0, texture |-> [w |-> 0, h |-> 0], stale |-> FALSE]
GXTest_Init ==
    <<Send(<<Viewport(0, 0, 640, 528), Load("specs", "color"), Load("numchan", 1), Load("order", DefaultOrder),
             ColorCombiner(0, PassColor.color), AlphaCombiner(0, PassColor.alpha)>>
           \o Draw(ColorRGBA(Quad, 255, 255, 255, 255))
           \o <<Load("format", "RGBA6")>>)>>

-----------------------------------------------------------------------------
(* The GPU (external): a quad is two triangles, its pixel is covered if its    *)
(* centre is.                                                              *)
Across(vp, q, i) == 20 * vp.x + vp.w * (q.x[i] + 10)
Down(vp, q, i) == 20 * vp.y + vp.h * (10 - q.y[i])
Turn(vp, q, i, j, p) ==
    (Across(vp, q, j) - Across(vp, q, i)) * (20 * p[2] + 10 - Down(vp, q, i))
    - (Down(vp, q, j) - Down(vp, q, i)) * (20 * p[1] + 10 - Across(vp, q, i))
InTriangle(vp, q, i, j, k, p) ==
    LET turns == <<Turn(vp, q, i, j, p), Turn(vp, q, j, k, p), Turn(vp, q, k, i, p)>>
    IN  /\ turns[1] + turns[2] + turns[3] # 0
        /\ (\A n \in 1 .. 3 : turns[n] >= 0) \/ (\A n \in 1 .. 3 : turns[n] <= 0)
InQuad(vp, q, p) == InTriangle(vp, q, 1, 2, 3, p) \/ InTriangle(vp, q, 1, 3, 4, p)

(* Depth clipping drops a quad with a vertex outside, or, if it is disabled,  *)
(* one that is outside altogether.                                          *)
Outside(q, z) == q.z = <<z, z, z, z>>
Visible(gpu, q) ==
    /\ ~Outside(q, "behind") /\ ~Outside(q, "front")
    /\ gpu.clip = 0 => \A i \in 1 .. 4 : q.z[i] \in {"inside", "edge"}
Open(q) == q.measured \/ Outside(q, "edge")

(* The colour channel: the vertex's colour, or material times ambient light. *)
Garbage == <<-1, -1, -1, -1>>
Lit(material, ambient) == (material * (ambient + ambient \div 128)) \div 256
RasColor(gpu, q) ==
    CASE gpu.numchan = 0 -> <<0, 0, 0, 0>>
      [] gpu.channel.lit -> <<Lit(gpu.material, gpu.ambient), 0, 0, 255>>
      [] gpu.channel.source = "vertex" -> q.color
      [] OTHER -> <<gpu.material, 0, 0, 255>>

(* A constant: eighths of one, a register, or a component of a register. *)
KonstRegister == <<"K0", "K1", "K2", "K3">>
Konst(gpu, sel, ch) ==
    CASE sel < 8 -> <<255, 223, 191, 159, 128, 96, 64, 32>>[sel + 1]
      [] sel \in 12 .. 15 /\ ch < 4 -> gpu[KonstRegister[sel - 11]][ch]
      [] sel \in 16 .. 31 -> gpu[KonstRegister[(sel % 4) + 1]][sel \div 4 - 3]
      [] OTHER -> 0

(* The TEV: stage after stage, each from the registers and from PREV. *)
AlphaOf == [Alpha0 |-> "Color0", Alpha1 |-> "Color1", Alpha2 |-> "Color2"]
Input(gpu, q, prev, stage, name, ch) ==
    CASE name = "Zero" -> 0
      [] name = "Half" -> 128
      [] name = "PrevColor" -> prev[ch]
      [] name = "PrevAlpha" -> prev[4]
      [] name = "RasColor" -> RasColor(gpu, q)[ch]
      [] name = "RasAlpha" -> RasColor(gpu, q)[4]
      [] name = "Konst" -> Konst(gpu, IF ch = 4 THEN gpu.ksel.ka[stage] ELSE gpu.ksel.kc[stage], ch)
      [] name \in DOMAIN AlphaOf -> gpu[AlphaOf[name]][4]
      [] OTHER -> gpu[name][ch]
Stage(gpu, q, prev, stage) ==
    LET cc == gpu[ColorEnv[stage]]
        ac == gpu[AlphaEnv[stage]]
        In(name, ch) == Input(gpu, q, prev, stage, name, ch)
        Evaluated(c, ch) ==
            TevCombinerExpectation(In(c.a, ch), In(c.b, ch), In(c.c, ch), In(c.d, ch), c.scale, c.bias, c.op, c.clamp)
        Compared == In(ac.d, 4) + (IF In(cc.a, 1) % 256 > In(cc.b, 1) % 256 THEN In(ac.c, 4) % 256 ELSE 0)
    IN  [ch \in 1 .. 4 |->
            IF ch < 4 THEN Evaluated(cc, ch) ELSE IF ac.bias = "Compare" THEN Compared ELSE Evaluated(ac, 4)]
Shade(gpu, q) ==
    LET prev[n \in 0 .. 4] == IF n = 0 THEN gpu.Prev ELSE Stage(gpu, q, prev[n - 1], n)
        out == prev[gpu.genmode.stages + 1]
    IN  IF q.has = gpu.vertex /\ gpu.specs = gpu.vertex
        THEN [ch \in 1 .. 4 |-> out[ch] % 256] ELSE Garbage

(* What the EFB gives back of a colour. *)
Kept(format, color) ==
    IF color = Garbage THEN Garbage
    ELSE IF format = "RGBA6" THEN [ch \in 1 .. 4 |-> SixBit(color[ch])]
    ELSE <<color[1], color[2], color[3], 255>>

(* The depth a z-texture gives a pixel: the bytes of the texel. *)
Texel(gpu, p) == <<(p[1] * gpu.ssize) \div gpu.viewport.w, (p[2] * gpu.tsize) \div gpu.viewport.h>>
Depth(color) == 65536 * color[1] + 256 * color[2] + color[3]
DepthBytes(z) == IF z < 0 THEN Garbage ELSE <<z \div 65536, (z \div 256) % 256, z % 256, 255>>
NewDepth(gpu, buffer, p, old) ==
    CASE ~(gpu.zmode.test /\ gpu.zmode.update) -> old
      [] gpu.ztexture = "Disabled" -> 0
      [] /\ gpu.order /\ gpu.genmode.texgens = 1 /\ ~gpu.stale
         /\ gpu.texture = [w |-> gpu.ssize, h |-> gpu.tsize] /\ Texel(gpu, p) \in DOMAIN buffer
         -> Depth(buffer[Texel(gpu, p)].value)
      [] OTHER -> -1

(* The pixels after a draw of the round by. *)
Drawn(gpu, efb, buffer, q, by) ==
    [p \in DOMAIN efb |->
        IF InQuad(gpu.viewport, q, p) /\ Visible(gpu, q)
        THEN [color |-> Kept(gpu.format, Shade(gpu, q)), format |-> gpu.format,
              z |-> NewDepth(gpu, buffer, p, efb[p].z), by |-> by]
        ELSE efb[p]]

(* The copy of a pixel: its depth if that is what the format says, or its     *)
(* colour mixed with those above and below.                                 *)
Bytes(gpu, pixel) ==
    CASE gpu.format = "Z24" -> DepthBytes(pixel.z)
      [] pixel.format = gpu.format -> pixel.color
      [] OTHER -> Garbage
CopiedPixel(gpu, efb, p, params) ==
    LET own == Bytes(gpu, efb[p])
        Row(dy) == LET q == <<p[1], p[2] + dy>> IN IF q \in DOMAIN efb THEN Bytes(gpu, efb[q]) ELSE own
        mixed == [ch \in 1 .. 3 |->
                    Clamped(Raw([prev |-> Row(-1)[ch], cur |-> own[ch], next |-> Row(1)[ch]], gpu.filter))]
        yuv == Stored(Intensity(mixed[1], mixed[2], mixed[3]))
    IN  IF own = Garbage THEN Garbage
        ELSE IF params.intensity_fmt /\ params.auto_conv THEN <<yuv.r, yuv.g, yuv.b, own[4]>>
        ELSE mixed \o <<own[4]>>
InRect(c, p) == p[1] \in c.left .. c.right /\ p[2] \in c.top .. c.bottom
Copied(gpu, efb, buffer, c, by) ==
    [p \in DOMAIN buffer |->
        IF InRect(c, p) THEN [value |-> CopiedPixel(gpu, efb, p, c.params), drawn |-> efb[p].by, copied |-> by]
        ELSE buffer[p]]
ClearColor == <<0, 39, 0, 255>>
Cleared(gpu, efb, c, by) ==
    [p \in DOMAIN efb |->
        IF c.params.clear /\ InRect(c, p)
        THEN [color |-> Kept(gpu.format, ClearColor), format |-> gpu.format, z |-> gpu.clearz, by |-> by]
        ELSE efb[p]]
=============================================================================
