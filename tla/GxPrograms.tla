------------------------------ MODULE GxPrograms ------------------------------
(***************************************************************************)
(* The GX test programs (clipping, copyfilter, intensity, lighting,           *)
(* rasterization, tev): main, its loops and what a round of each sends to     *)
(* the GPU, copies, reads and expects, on a CPU that runs ahead of the GPU    *)
(* until it waits.  What a program does between draws is in the commands of   *)
(* the next round: a register that a test forgets to load keeps its value.    *)
(*                                                                         *)
(* Loops are cut to the rounds in the constants.  What CGX_WaitForGpuToFinish *)
(* and ReadTestBuffer do is that of GpuFence, EfbReadback and EfbTile.        *)
(***************************************************************************)
EXTENDS GxCommands

CONSTANTS
    Mains,          \* programs started
    ColorSteps,     \* steps of LightingTest, 256 * ambcolor + matcolor
    Reds,           \* values of c0 in the first loop of TevCombinerTest
    RandomStages,   \* what the loop of TevCombinerTest draws at random, a sequence
    FilterSums,     \* values of copy_filter_sum
    Columns,        \* values of x in copyfilter.cpp, x and y in intensity.cpp
    Blues           \* values of blue, a sequence

Programs == {"clipping", "copyfilter", "intensity", "lighting", "rasterization", "tev"}
ProgramConstants == Mains \subseteq Programs /\ Columns \subseteq 0 .. 255 /\ Blues \in Seq(Nat)
ASSUME ProgramAssumption == ProgramConstants

VARIABLES
    main,      \* the program
    round,     \* the test under way, which of its loops and where in it
    next,      \* its next statement
    fifo,      \* commands the GPU has yet to execute, each with its round
    gpu,       \* the GPU's registers
    efb,       \* the pixels that are sampled
    buffer,    \* test_buffer, a pixel for a pixel
    lower      \* GetTevOutput: the lower six bits

programVars == <<main, round, next, fifo, gpu, efb, buffer, lower>>

Round(test, scene, step) == [test |-> test, scene |-> scene, step |-> step]
Following(S, n) == {m \in S : m > n /\ \A k \in S : k > n => m <= k}

-----------------------------------------------------------------------------
(* What most tests begin with: no texture, one colour channel that is lit, or  *)
(* comes from the vertex or the register.                                   *)
Channel(source, lit) ==
    <<Load("order", DefaultOrder), Load("numchan", 1), Load("channel", [source |-> source, lit |-> lit])>>
Format(format) == Load("format", format)
White(quad) == ColorRGBA(quad, 255, 255, 255, 255)
Opaque(r, g, b) == Draw(ColorRGBA(Quad, r, g, b, 255))
Samples == <<125, 25>>
CopySamples == CopyToTestBuffer(0, 0, 199, 49, EFBCopyParams)
Red(p, value) == ReadTestBuffer([q \in {p} |-> [ch \in {1} |-> value]])

(* clipping.cpp. *)
ClipSetup ==
    <<Send(Channel("vertex", FALSE)
           \o <<AlphaCombiner(0, DefaultCombiner), Load("genmode", DefaultGenMode), Format("RGB8")>>)>>
AtX(quad, left, right) ==
    Vertex(Vertex(Vertex(Vertex(quad, TopLeft, left, 10, "inside"), BottomLeft, left, -10, "inside"),
                  TopRight, right, 10, "inside"), BottomRight, right, 10, "inside")
LeftAt(quad, left) ==
    Vertex(Vertex(quad, TopLeft, left, 10, "inside"), BottomLeft, left, -10, "inside")
ClipQuad(step) ==
    LET q == White(Quad)
    IN  CASE step = 1 -> LeftAt(q, -18)
          [] step = 2 -> LeftAt(q, -25)
          [] step = 3 -> AtX(q, -15, 15)
          [] step = 4 -> AtX(q, -25, 25)
          [] step = 5 -> Vertex(AtX(q, -18, -12), TopRight, 15, 10, "inside")
          [] step = 6 -> Vertex(q, TopLeft, -40, 10, "inside")
          [] step \in {7, 8} -> AtDepth(q, "behind")
          [] step \in {9, 10} -> AtDepth(q, "front")
          [] step \in {11, 12} -> AtDepth(q, "edge")
          [] step \in {13, 14} -> Vertex(q, TopLeft, -10, 10, "behind")
          [] step = 15 -> [q EXCEPT !.z = <<"behind", "behind", "inside", "behind">>]
          [] OTHER -> q
ClipDisabled(step) == IF step \in 7 .. 14 THEN <<(step + 1) % 2>> ELSE IF step = 15 THEN <<1>> ELSE <<>>
ClipShown(step) == step \notin {5, 7, 8, 9, 10, 13}
ClipPixel(step) ==
    CASE step = 1 -> <<75, 25>> [] step = 3 -> <<80, 25>> [] step \in {2, 4} -> <<51, 25>>
      [] step = 6 -> <<51, 1>> [] OTHER -> Samples
ClipBackground(step) ==
    <<Load("zmode", DefaultZMode),
      Viewport(0, 0, 201, 50), ColorCombiner(0, D("RasColor"))>> \o Opaque(0, 0, 0)
    \o <<Viewport(75, 0, 100, 50), ColorCombiner(0, D("RasColor"))>> \o Opaque(0, 127, 0)
    \o <<Viewport(100, 0, 50, 50), ColorCombiner(0, D("RasColor"))>> \o Opaque(0, 255, 0)
ClipStep(step) ==
    <<Send(ClipBackground(step)
           \o <<Viewport(100, 0, 50, 50), ColorCombiner(0, D("Color0")), Load("Color0", <<255, 0, 0, 0>>),
                Load("clip", 0)>>
           \o [i \in DOMAIN ClipDisabled(step) |-> Load("clip", ClipDisabled(step)[i])]
           \o Draw(ClipQuad(step)))>>
    \o CopySamples
    \o <<CGX_WaitForGpuToFinish, Red(ClipPixel(step), IF ClipShown(step) THEN 255 ELSE 0)>>

(* lighting.cpp. *)
LightingSetup ==
    <<Send(Channel("register", TRUE)
           \o <<AlphaCombiner(0, DefaultCombiner), Load("genmode", DefaultGenMode), Format("RGB8")>>)>>
LightingStep(step) ==
    <<Send(<<Load("zmode", DefaultZMode), Load("Color0", <<255, 0, 0, 0>>), Load("clip", 0),
             Load("ambient", step \div 256), Load("material", step % 256),
             Viewport(0, 0, 201, 50), ColorCombiner(0, D("RasColor"))>>
           \o Opaque(0, 0, 0))>>
    \o CopySamples
    \o <<CGX_WaitForGpuToFinish, Red(Samples, Lit(step % 256, step \div 256))>>

(* rasterization.cpp: the first two loops move a quad by the smallest steps    *)
(* there are, the third its vertices; whether it still covers the pixel is    *)
(* what they measure.                                                       *)
RasterSetup ==
    <<Send(Channel("vertex", FALSE) \o <<AlphaCombiner(0, D("RasAlpha")), ColorCombiner(0, D("RasColor"))>>)>>
Wide == [Quad EXCEPT !.x = <<-20, 20, 20, -20>>, !.y = <<20, 20, -20, -20>>]
ClearArea == Draw(ColorRGBA(Wide, 0, 0, 0, 255))
Magenta(quad) == Draw(Measured(ColorRGBA(quad, 255, 0, 255, 255)))
RasterEdge(step) ==
    <<Send(<<Viewport(0, 0, 100, 100)>> \o ClearArea \o Opaque(0, 255, 0) \o Magenta(LeftAt(Quad, 0)))>>
    \o CopyToTestBuffer(50, 0, 127, 127, EFBCopyParams)
    \o <<CGX_WaitForGpuToFinish, Red(<<50, 0>>, IF step = 0 THEN 255 ELSE 0)>>
RasterTiny(step) ==
    <<Send(<<Viewport(0, 0, 100, 100)>> \o ClearArea \o Opaque(0, 255, 0) \o <<Viewport(0, 0, 1, 100)>> \o Magenta(Quad))>>
    \o CopyToTestBuffer(0, 0, 127, 127, EFBCopyParams)
    \o <<CGX_WaitForGpuToFinish, Red(<<0, 0>>, IF step = 1 THEN 255 ELSE 0)>>
(* The two quads of the third are less than a tenth apart, and both at -2 or   *)
(* to the right of it.  Their pixel is the one that ReadTestBuffer finds at    *)
(* (10, 10) of 128 columns, in a copy of 78.                                 *)
RasterGuard(step) ==
    (IF step = 0 THEN <<Send(<<Viewport(100, 100, 100, 100)>>)>> ELSE <<>>)
    \o <<Send(ClearArea \o Magenta([Quad EXCEPT !.x = <<-20, -10, -10, -20>>]))>>
    \o CopyToTestBuffer(50, 100, 127, 127, EFBCopyParams)
    \o <<CGX_WaitForGpuToFinish, Red(<<76, 114>>, 255)>>

(* tev.cpp: the first loop sees whether GetTevOutput reads what a register     *)
(* holds, the second evaluates random stages, the third the compare mode.     *)
TevSetup == <<Send(Channel("vertex", FALSE) \o <<AlphaCombiner(0, DefaultCombiner)>>)>>
C0(red) == Load("Color0", <<red, 0, 0, 0>>)
C1(red) == Load("Color1", <<red, 0, 0, 0>>)
OneStage == Load("genmode", DefaultGenMode)
TevBits(red) ==
    <<Send(<<C0(red), OneStage, ColorCombiner(0, D("Color0")), Format("RGB8")>>)>>
    \o GetTevOutput(DefaultGenMode, 1, red)
TevBreak == <<Send(<<C0(-1024), OneStage, ColorCombiner(0, D("Color0"))>>)>>
TevRandom(stage) ==
    LET cc == [a |-> "Color0", b |-> "Color1", c |-> "Color2", d |-> "Zero",
               bias |-> stage.bias, op |-> stage.op, clamp |-> stage.clamp, scale |-> stage.scale]
    IN  <<Send(<<OneStage, ColorCombiner(0, cc), C0(stage.a), C1(stage.b),
                 Load("Color2", <<stage.c, 0, 0, 0>>), Load("Prev", <<0, 0, 0, 0>>), Format("RGB8")>>)>>
        \o GetTevOutput(DefaultGenMode, 1,
                TevCombinerExpectation(stage.a, stage.b, stage.c, 0,
                                       stage.scale, stage.bias, stage.op, stage.clamp))
TevCompare(i) ==
    <<Send(<<OneStage, ColorCombiner(0, [DefaultCombiner EXCEPT !.a = "Color2", !.b = "Color1"]),
             AlphaCombiner(0, [DefaultCombiner EXCEPT !.bias = "Compare", !.a = "Alpha0", !.b = "Alpha1",
                                                      !.c = "Alpha2"]),
             Format("RGBA6"), C0(127), C1(127), Load("Color2", <<127 + i, 0, 0, 255>>)>>)>>
    \o GetTevOutput(DefaultGenMode, 4, IF i = 1 THEN 255 ELSE 0)

(* KonstTest reads every constant, for colour and for alpha, and a half. *)
KonstSetup ==
    <<Send(Channel("register", FALSE)
           \o <<Load("genmode", [DefaultGenMode EXCEPT !.stages = 1]), Format("RGB8"), Load("clip", 0)>>
           \o [i \in 1 .. 4 |-> Load(KonstRegister[i], [ch \in 1 .. 4 |-> 10 * ch + 50 * (i - 1)])])>>
Black == Draw(ColorRGBA(Quad, 0, 0, 0, 255))
V1 == 0
KonstExpected(step) ==
    LET sel == step % 32
    IN  CASE sel < 8 -> <<255, 223, 191, 159, 128, 96, 64, 32>>[sel + 1]
          [] sel < 12 -> 0
          [] sel < 16 -> IF step < 32 THEN 10 + 50 * (sel % 4) ELSE 0
          [] OTHER -> 50 * (sel % 4) + 10 * (sel \div 4 - 3)
KonstStep(step) ==
    <<Send(<<Load("zmode", DefaultZMode), Viewport(0, 0, 201, 50),
             ColorCombiner(0, D("Konst")), AlphaCombiner(0, D("Konst")),
             ColorCombiner(1, D(IF step < 32 THEN "PrevColor" ELSE "PrevAlpha")), AlphaCombiner(1, D("Konst")),
             Load("ksel", [kc |-> <<IF step < 32 THEN step ELSE V1, V1>>,
                           ka |-> <<IF step < 32 THEN V1 ELSE step - 32, V1>>])>>
           \o Black)>>
    \o CopySamples \o <<CGX_WaitForGpuToFinish, Red(Samples, KonstExpected(step))>>
KonstHalf ==
    <<Send(<<OneStage, Load("zmode", DefaultZMode), Viewport(0, 0, 201, 50),
             ColorCombiner(0, D("Half")), AlphaCombiner(0, DefaultCombiner)>>
           \o Black)>>
    \o CopySamples \o <<CGX_WaitForGpuToFinish, Red(Samples, 128)>>

(* copyfilter.cpp: what is poked, and what it should read as. *)
FilterPixels == Columns \X (3 .. 5)
GenerateEFBColor(p) == <<p[1], CASE p[2] = 4 -> p[1] [] p[2] = 3 -> 255 [] OTHER -> 0, p[1], p[1]>>
GenerateEFBDepth(p) == Depth(GenerateEFBColor(p))
PIXEL_FORMATS == <<"RGB8", "RGBA6", "Z24">>
PredictEfbColor(p, format) ==
    LET color == GenerateEFBColor(p)
    IN  IF format = "RGBA6" THEN [ch \in 1 .. 4 |-> SixBit(color[ch])] ELSE <<color[1], color[2], color[3], 255>>

(* The depths cannot be poked: the colours are copied, and drawn over the EFB  *)
(* as a z-texture.  The mutant leaves the filter of the last copy as it is.   *)
SetCopyFilter(sums) == Load("filter", sums)
InvalidateTexAll == Load("stale", FALSE)
TextureQuad == [Quad EXCEPT !.has = "texture"]
SendDepths(filter) ==
    <<Send(<<filter, Load("clearz", 123456)>>)>>
    \o CopyToTestBuffer(0, 0, 255, 7, [EFBCopyParams EXCEPT !.clear = TRUE])
    \o <<Send(<<InvalidateTexAll, Load("genmode", [stages |-> 0, texgens |-> 1, chans |-> 0]),
                Load("specs", "texture"), Load("numchan", 0), Load("texture", [w |-> 256, h |-> 8]),
                Load("ztexture", "Replace"), Load("order", TRUE), Load("ssize", 256), Load("tsize", 8),
                ColorCombiner(0, D("Half")), Viewport(0, 0, 256, 8)>>
             \o Draw(TextureQuad)),
         CGX_WaitForGpuToFinish, Send(<<Format("Z24")>>)>>
FillWith(format, depths) ==
    <<Send(<<Format(IF format = "Z24" THEN "RGB8" ELSE format), Load("zmode", [test |-> TRUE, update |-> TRUE])>>),
      CGX_WaitForGpuToFinish,
      CGX_PokeARGB([p \in FilterPixels |-> GenerateEFBColor(p)])>>
    \o (IF format = "Z24" THEN depths ELSE <<>>)
FillUnfiltered(format) == FillWith(format, SendDepths(Load("clearz", 0)))
FillEFB(format) == FillWith(format, SendDepths(SetCopyFilter(Full)))

CheckEFB(format) ==
    IF format = "Z24" THEN <<CGX_PeekZ([p \in FilterPixels |-> GenerateEFBDepth(p)])>>
    ELSE <<CGX_PeekARGB([p \in FilterPixels |-> PredictEfbColor(p, format)])>>

(* main's flags: an intensity or not, the rows that count, and how much. *)
WeightSums(sum, flags) ==
    [prev |-> IF (flags \div 4) % 2 = 1 THEN Least(sum, 126) ELSE 0,
     cur |-> IF (flags \div 2) % 2 = 1 THEN Least(sum, 189) ELSE 0,
     next |-> IF flags \div 8 = 1 THEN Least(sum, 126) ELSE 0]
Yuv(r, g, b, a) == LET yuv == Stored(Intensity(r, g, b)) IN <<yuv.r, yuv.g, yuv.b, a>>
Predict(x, format, sums, intensity) ==
    LET Row(y) == PredictEfbColor(<<x, y>>, format)
        mixed == [ch \in 1 .. 3 |->
                    Clamped(Raw([prev |-> Row(3)[ch], cur |-> Row(4)[ch], next |-> Row(5)[ch]], sums))]
    IN  IF intensity THEN Yuv(mixed[1], mixed[2], mixed[3], Row(4)[4]) ELSE mixed \o <<Row(4)[4]>>
CopyFilterTest(format, sum, flags) ==
    LET intensity == flags % 2 = 1
    IN  <<Send(<<SetCopyFilter(WeightSums(sum, flags))>>)>>
        \o CopyToTestBuffer(0, 0, 255, 7,
                [EFBCopyParams EXCEPT !.intensity_fmt = intensity, !.auto_conv = intensity])
        \o <<CGX_WaitForGpuToFinish,
             ReadTestBuffer([p \in Columns \X {4} |-> Predict(p[1], format, WeightSums(sum, flags), intensity)])>>

(* intensity.cpp. *)
FillBlue(blue) ==
    <<Send(<<Format("RGB8")>>), CGX_WaitForGpuToFinish,
      CGX_PokeARGB([p \in Columns \X Columns |-> <<p[1], p[2], blue, 255>>])>>
IntensityTest(blue, intensity_fmt, auto_conv) ==
    CopyToTestBuffer(0, 0, 255, 255,
        [EFBCopyParams EXCEPT !.intensity_fmt = intensity_fmt, !.auto_conv = auto_conv])
    \o <<CGX_WaitForGpuToFinish,
         ReadTestBuffer([p \in Columns \X Columns |->
             IF intensity_fmt /\ auto_conv THEN Yuv(p[1], p[2], blue, 255) ELSE <<p[1], p[2], blue, 255>>])>>

-----------------------------------------------------------------------------
(* main: its loops, each with the values its counter takes.  A loop with a     *)
(* scene of -1 is what a test does before its loops.                        *)
Loop(test, scene, steps) == [test |-> test, scene |-> scene, steps |-> steps]
Setup(test) == Loop(test, -1, {0})
MainLoops(m) ==
    CASE m = "clipping" -> <<Setup("ClipTest"), Loop("ClipTest", 0, 0 .. 15)>>
      [] m = "lighting" -> <<Setup("LightingTest"), Loop("LightingTest", 0, ColorSteps)>>
      [] m = "rasterization" ->
            <<Setup("CoordinatePrecisionTest"), Loop("CoordinatePrecisionTest", 0, 0 .. 1),
              Loop("CoordinatePrecisionTest", 1, 0 .. 2), Loop("CoordinatePrecisionTest", 2, 0 .. 1)>>
      [] m = "tev" ->
            <<Setup("TevCombinerTest"), Loop("TevCombinerTest", 0, Reds), Loop("TevCombinerTest", 1, {-1024}),
              Loop("TevCombinerTest", 2, DOMAIN RandomStages), Loop("TevCombinerTest", 3, 0 .. 1),
              Setup("KonstTest"), Loop("KonstTest", 0, 0 .. 63), Loop("KonstTest", 1, {0})>>
      [] m = "copyfilter" ->
            [i \in 1 .. 9 |->
                LET scene == (i + 2) \div 3
                IN  CASE i % 3 = 1 -> Loop("FillEFB", scene, {0})
                      [] i % 3 = 2 -> Loop("CheckEFB", scene, {0})
                      [] OTHER -> Loop("CopyFilterTest", scene, {16 * sum + flags : sum \in FilterSums, flags \in 2 .. 15})]
      [] m = "intensity" ->
            [i \in 1 .. 2 * Len(Blues) |->
                LET blue == Blues[(i + 1) \div 2]
                IN  IF i % 2 = 1 THEN Loop("FillEFB", blue, {0}) ELSE Loop("IntensityTest", blue, 0 .. 7)]
Loops(m) == <<Loop("Init", 0, {0})>> \o MainLoops(m) \o <<Loop("return", 0, {0})>>

Program(r) ==
    CASE r.test = "Init" -> GXTest_Init
      [] r.test = "ClipTest" -> IF r.scene = -1 THEN ClipSetup ELSE ClipStep(r.step)
      [] r.test = "LightingTest" -> IF r.scene = -1 THEN LightingSetup ELSE LightingStep(r.step)
      [] r.test = "CoordinatePrecisionTest" ->
            (CASE r.scene = -1 -> RasterSetup [] r.scene = 0 -> RasterEdge(r.step)
               [] r.scene = 1 -> RasterTiny(r.step) [] OTHER -> RasterGuard(r.step))
      [] r.test = "TevCombinerTest" ->
            (CASE r.scene = -1 -> TevSetup [] r.scene = 0 -> TevBits(r.step) [] r.scene = 1 -> TevBreak
               [] r.scene = 2 -> TevRandom(RandomStages[r.step]) [] OTHER -> TevCompare(r.step))
      [] r.test = "KonstTest" ->
            (CASE r.scene = -1 -> KonstSetup [] r.scene = 0 -> KonstStep(r.step) [] OTHER -> KonstHalf)
      [] r.test = "FillEFB" -> IF main = "intensity" THEN FillBlue(r.scene) ELSE FillEFB(PIXEL_FORMATS[r.scene])
      [] r.test = "CheckEFB" -> CheckEFB(PIXEL_FORMATS[r.scene])
      [] r.test = "CopyFilterTest" -> CopyFilterTest(PIXEL_FORMATS[r.scene], r.step \div 16, r.step % 16)
      [] r.test = "IntensityTest" -> IntensityTest(r.scene, (r.step \div 2) % 2 = 1, r.step \div 4 = 1)
      [] OTHER -> <<>>

(* The round after r; HOME ends a loop, or in copyfilter.cpp all of them. *)
First(loop) == {Round(loop.test, loop.scene, n) : n \in {m \in loop.steps : \A k \in loop.steps : m <= k}}
Last(loops) == First(loops[Len(loops)])
After(r) ==
    LET loops == Loops(main)
        i == CHOOSE n \in DOMAIN loops : loops[n].test = r.test /\ loops[n].scene = r.scene
        steps == Following(loops[i].steps, r.step)
    IN  (IF steps # {} THEN {Round(r.test, r.scene, n) : n \in steps} ELSE First(loops[i + 1]))
        \cup (CASE r.test = "CopyFilterTest" -> Last(loops)
                [] r.test \in {"LightingTest", "IntensityTest"} \/ (r.test = "TevCombinerTest" /\ r.scene = 2)
                      -> First(loops[i + 1])
                [] OTHER -> {})

-----------------------------------------------------------------------------
Pixels(m) ==
    CASE m = "clipping" -> {ClipPixel(step) : step \in 0 .. 15}
      [] m = "rasterization" -> {<<50, 0>>, <<0, 0>>, <<76, 114>>}
      [] m = "tev" -> {TevPixel, Samples}
      [] m = "copyfilter" -> FilterPixels
      [] m = "intensity" -> Columns \X Columns
      [] OTHER -> {Samples}
Nobody == Round("nobody", 0, 0)
Zeroed(m) == [p \in Pixels(m) |-> [value |-> <<0, 0, 0, 0>>, drawn |-> Nobody, copied |-> Nobody]]

ProgramInit ==
    /\ main \in Mains
    /\ round = Round("Init", 0, 0) /\ next = 1
    /\ fifo = <<>> /\ gpu = GX_Init
    /\ efb = [p \in Pixels(main) |-> [color |-> Garbage, format |-> "RGB8", z |-> -1, by |-> Nobody]]
    /\ buffer = Zeroed(main)
    /\ lower = 0

Ended == next > Len(Program(round))
Statement == Program(round)[next]
Does(op) == ~Ended /\ Statement.op = op
Step(op) == Does(op) /\ next' = next + 1 /\ UNCHANGED <<main, round>>

SendCommands ==
    /\ Step("send")
    /\ fifo' = fifo \o [i \in DOMAIN Statement.commands |-> [command |-> Statement.commands[i], by |-> round]]
    /\ UNCHANGED <<gpu, efb, buffer, lower>>
WaitForGpu == Step("wait") /\ fifo = <<>> /\ UNCHANGED <<fifo, gpu, efb, buffer, lower>>
ZeroBuffer == Step("memset") /\ buffer' = Zeroed(main) /\ UNCHANGED <<fifo, gpu, efb, lower>>
Poke ==
    /\ Step("poke")
    /\ efb' = [p \in DOMAIN efb |->
                [efb[p] EXCEPT !.color = Kept(gpu.format, Statement.colors[p]), !.format = gpu.format, !.by = round]]
    /\ UNCHANGED <<fifo, gpu, buffer, lower>>
Keep ==
    /\ Step("keep")
    /\ lower' = buffer[TevPixel].value[Statement.channel] \div 4
    /\ UNCHANGED <<fifo, gpu, efb, buffer>>
Compare == (\E op \in {"read", "peek", "peekz", "combine"} : Step(op)) /\ UNCHANGED <<fifo, gpu, efb, buffer, lower>>

NextRound ==
    /\ Ended /\ round.test # "return"
    /\ round' \in After(round) /\ next' = 1
    /\ UNCHANGED <<main, fifo, gpu, efb, buffer, lower>>

(* The program returns, and another is started. *)
Return ==
    /\ round.test = "return"
    /\ main' \in Mains
    /\ round' = Round("Init", 0, 0) /\ next' = 1
    /\ fifo' = <<>> /\ gpu' = GX_Init
    /\ efb' = [p \in Pixels(main') |-> [color |-> Garbage, format |-> "RGB8", z |-> -1, by |-> Nobody]]
    /\ buffer' = Zeroed(main')
    /\ lower' = 0

(* The GPU (external) executes a command. *)
Takes(op) == fifo # <<>> /\ Head(fifo).command.op = op /\ fifo' = Tail(fifo) /\ UNCHANGED <<main, round, next, lower>>
ExecuteLoad ==
    /\ Takes("load")
    /\ LET c == Head(fifo).command IN gpu' = [gpu EXCEPT ![c.register] = c.value]
    /\ UNCHANGED <<efb, buffer>>
ExecuteDraw ==
    /\ Takes("draw")
    /\ LET q == Head(fifo).command
           drawn == Drawn(gpu, efb, buffer, q, Head(fifo).by)
       IN  IF Open(q) THEN efb' \in {efb, drawn} ELSE efb' = drawn
    /\ UNCHANGED <<gpu, buffer>>
ExecuteCopy ==
    /\ Takes("copy")
    /\ LET c == Head(fifo).command IN
        /\ buffer' = Copied(gpu, efb, buffer, c, Head(fifo).by)
        /\ efb' = Cleared(gpu, efb, c, Head(fifo).by)
    /\ gpu' = [gpu EXCEPT !.stale = TRUE]

ProgramNext ==
    \/ SendCommands \/ WaitForGpu \/ ZeroBuffer \/ Poke \/ Keep \/ Compare
    \/ NextRound \/ Return
    \/ ExecuteLoad \/ ExecuteDraw \/ ExecuteCopy

ProgramSpec == ProgramInit /\ [][ProgramNext]_programVars

-----------------------------------------------------------------------------
(* The comparisons of a statement agree: with the buffer, with the EFB, or    *)
(* with what GetTevOutput puts together.                                     *)
Agree(Found(_), expected) ==
    \A p \in DOMAIN expected : \A ch \in DOMAIN expected[p] : Found(p)[ch] = expected[p][ch]
Copy(p) == buffer[p].value
Peeked(p) == IF efb[p].format = gpu.format THEN efb[p].color ELSE Garbage
Passes ==
    CASE Statement.op = "read" -> Agree(Copy, Statement.expected)
      [] Statement.op = "peek" -> Agree(Peeked, Statement.expected)
      [] Statement.op = "peekz" -> \A p \in DOMAIN Statement.expected : efb[p].z = Statement.expected[p]
      [] Statement.op = "combine" ->
            Combine(Copy(TevPixel)[Statement.channel] \div 8, lower) = Statement.expected
      [] OTHER -> TRUE

(* What the hardware does is open in the rounds that measure it: clipping.cpp *)
(* near the clipping planes and past the guard band, where the pixel read is  *)
(* not one of the quad, and all of rasterization.cpp.                        *)
Unsettled ==
    \/ round.test = "ClipTest" /\ round.step \in {1, 2, 3, 4, 6, 11, 12}
    \/ round.test = "CoordinatePrecisionTest"

(* Every subtest the model settles passes: no register that an earlier round,   *)
(* test or helper loaded spoils a later one (DO_TEST in all of gxtest).       *)
SubtestsPass == ~Ended /\ ~Unsettled => Passes

(* A test reads the copy it asked for, of what it drew, or what the last fill  *)
(* put there: never an earlier round's, however far the CPU runs ahead.       *)
Filled(r) == r.test \in {"CheckEFB", "CopyFilterTest", "IntensityTest"}
Painter(r) == IF Filled(r) THEN Round("FillEFB", r.scene, 0) ELSE r
ReadsOwn ==
    \A p \in DOMAIN buffer :
        \/ Does("read") /\ p \in DOMAIN Statement.expected
        \/ (Does("keep") \/ Does("combine")) /\ p = TevPixel
        => buffer[p].copied = round /\ buffer[p].drawn = Painter(round)

(* Where clipping.cpp expects the quad to be shown, it is. *)
ShownWhereExpected ==
    Does("read") /\ round.test = "ClipTest" /\ ClipShown(round.step) => Passes
=============================================================================
