----------------------------- MODULE GxTestProofs -----------------------------
(* The calculations of the GX tests, for every value of their constants:        *)
(* where a pixel of a copy lies (EfbTile), what GetTevOutput reads back          *)
(* (TevReadback), and what a copy filter makes of a column (CopyFilter).         *)
EXTENDS EfbTile, TevReadback, CopyFilter, TLAPS

(***************************************************************************)
(* EfbTile                                                                 *)
(***************************************************************************)
(* Every caller repeats the width of its copy, as ReadTestBuffer asks. *)
WidthRepeated == \A s \in Sites : s.width = Rect(s).w

TileIInv ==
    \/ rect = None /\ stride = 0 /\ read = None
    \/ /\ \E s \in Sites : rect = Rect(s)
       /\ stride = Stride(rect.w)
       /\ \/ read = None
          \/ \E s \in Sites :
                /\ rect = Rect(s)
                /\ read = [x |-> s.x, y |-> s.y,
                           found |-> [c \in Channel |->
                               Source(ValAddr(s.x, s.y, s.width) + Offset(c))]]

-----------------------------------------------------------------------------
(* A row and a column of an array of rows of W are determined by the index. *)
LEMMA IndexInjective ==
    ASSUME NEW W \in Nat \ {0}, NEW t \in Nat, NEW u \in Nat,
           NEW p \in 0 .. W - 1, NEW q \in 0 .. W - 1, t * W + p = u * W + q
    PROVE  t = u /\ p = q
<1>1. ASSUME NEW i \in Nat, NEW j \in Nat, i < j PROVE i * W + W <= j * W
  <2>1. PICK k \in Nat : j = i + 1 + k
    <3>1. j - i - 1 \in Nat /\ j = i + 1 + (j - i - 1)
      BY <1>1
    <3> QED BY <3>1
  <2>2. (i + 1 + k) * W = i * W + W + k * W
    BY <2>1
  <2>3. k * W \in Nat
    BY <2>1
  <2>4. i * W \in Nat
    OBVIOUS
  <2> QED BY <2>1, <2>2, <2>3, <2>4
<1>2. t * W \in Nat /\ u * W \in Nat
  OBVIOUS
<1>3. ~(t < u)
  <2>1. t < u => t * W + W <= u * W
    BY <1>1
  <2> QED BY <2>1, <1>2
<1>4. ~(u < t)
  <2>1. u < t => u * W + W <= t * W
    BY <1>1
  <2> QED BY <2>1, <1>2
<1>5. t = u
  BY <1>3, <1>4
<1> QED BY <1>5, <1>2

(* Rounding up: w pixels are in Tiles(w) tiles, the last of which is used. *)
LEMMA TilesRoundUp ==
    ASSUME NEW w \in Nat \ {0}
    PROVE  /\ Tiles(w) \in Nat \ {0}
           /\ 4 * Tiles(w) <= w + 3 /\ w <= 4 * Tiles(w)
           /\ \A x \in 0 .. w - 1 : x \div 4 \in 0 .. Tiles(w) - 1
  BY DEF Tiles

(* The byte of a channel of the pixel x, y, and where ReadTestBuffer looks. *)
ByteOf(w, x, y, c) == 64 * ((y \div 4) * Tiles(w) + x \div 4) + InTile(x, y) + Offset(c)

(* No two bytes of a tile share an address. *)
LEMMA InTileInjective ==
    ASSUME NEW x \in Nat, NEW y \in Nat, NEW c \in Channel
    PROVE  /\ InTile(x, y) + Offset(c) \in 0 .. 63
           /\ \A x2, y2 \in Nat, c2 \in Channel :
                InTile(x, y) + Offset(c) = InTile(x2, y2) + Offset(c2)
                    => x % 4 = x2 % 4 /\ y % 4 = y2 % 4 /\ c = c2
<1>1. \A d \in Channel : Offset(d) \in {0, 1, 32, 33}
  BY DEF Channel, Offset, LineSize
<1>2. \A d, e \in Channel : Offset(d) = Offset(e) => d = e
  BY DEF Channel, Offset, LineSize
<1>3. \A n \in Nat : n % 4 \in 0 .. 3
  OBVIOUS
<1>4. \A i, j, k, l \in 0 .. 3, d, e \in {0, 1, 32, 33} :
        2 * (4 * i + j) + d = 2 * (4 * k + l) + e => i = k /\ j = l /\ d = e
  OBVIOUS
<1>5. InTile(x, y) + Offset(c) \in 0 .. 63
  BY <1>1, <1>3 DEF InTile
<1>6. ASSUME NEW x2 \in Nat, NEW y2 \in Nat, NEW c2 \in Channel,
             InTile(x, y) + Offset(c) = InTile(x2, y2) + Offset(c2)
      PROVE  x % 4 = x2 % 4 /\ y % 4 = y2 % 4 /\ c = c2
  <2>1. y % 4 = y2 % 4 /\ x % 4 = x2 % 4 /\ Offset(c) = Offset(c2)
    BY <1>6, <1>1, <1>3, <1>4 DEF InTile
  <2> QED BY <2>1, <1>2
<1> QED BY <1>5, <1>6

(* No two channels of pixels of a copy share an address. *)
LEMMA ByteInjective ==
    ASSUME NEW w \in Nat \ {0},
           NEW x \in 0 .. w - 1, NEW y \in Nat, NEW c \in Channel,
           NEW x2 \in 0 .. w - 1, NEW y2 \in Nat, NEW c2 \in Channel,
           ByteOf(w, x, y, c) = ByteOf(w, x2, y2, c2)
    PROVE  x = x2 /\ y = y2 /\ c = c2
<1> DEFINE T == Tiles(w)
           I == (y \div 4) * T + x \div 4
           J == (y2 \div 4) * T + x2 \div 4
           b == InTile(x, y) + Offset(c)
           d == InTile(x2, y2) + Offset(c2)
<1>1. T \in Nat \ {0} /\ x \div 4 \in 0 .. T - 1 /\ x2 \div 4 \in 0 .. T - 1
  BY TilesRoundUp
<1>2. b \in 0 .. 63 /\ d \in 0 .. 63
  BY InTileInjective
<1>3. y \div 4 \in Nat /\ y2 \div 4 \in Nat
  OBVIOUS
<1>4. I \in Nat /\ J \in Nat
  BY <1>1, <1>3
<1>5. 64 * I + b = 64 * J + d
  <2>1. Offset(c) \in Nat /\ Offset(c2) \in Nat /\ InTile(x, y) \in Nat /\ InTile(x2, y2) \in Nat
    BY DEF Offset, Channel, LineSize, InTile
  <2> QED BY <1>4, <2>1 DEF ByteOf
<1>6. I = J /\ b = d
  <2> HIDE DEF I, J, b, d
  <2> QED BY <1>2, <1>4, <1>5
<1>7. x % 4 = x2 % 4 /\ y % 4 = y2 % 4 /\ c = c2
  BY <1>6, InTileInjective
<1>8. y \div 4 = y2 \div 4 /\ x \div 4 = x2 \div 4
  <2> HIDE DEF T
  <2> QED BY <1>1, <1>3, <1>6, IndexInjective
<1> QED BY <1>7, <1>8

-----------------------------------------------------------------------------
(* What the GPU writes and what ReadTestBuffer reads, with the right width. *)
LEMMA SameByte ==
    ASSUME NEW w \in Nat \ {0}, NEW x \in Nat, NEW y \in Nat, NEW c \in Channel
    PROVE  /\ stride = Stride(w) => Written(x, y, c) = ByteOf(w, x, y, c)
           /\ ValAddr(x, y, w) + Offset(c) = ByteOf(w, x, y, c)
<1>1. Tiles(w) \in Nat
  BY TilesRoundUp
<1>2. Offset(c) \in Nat /\ y \div 4 \in Nat /\ x \div 4 \in Nat /\ y % 4 \in Nat /\ x % 4 \in Nat
  BY DEF Offset, Channel, LineSize
<1>3. (y \div 4) * (Tiles(w) * 2) = 2 * ((y \div 4) * Tiles(w)) /\ (y \div 4) * Tiles(w) \in Nat
  BY <1>1, <1>2
<1>4. stride = Stride(w) => Written(x, y, c) = ByteOf(w, x, y, c)
  BY <1>1, <1>2, <1>3 DEF Written, ByteOf, Stride, InTile, LineSize
<1>5. ValAddr(x, y, w) + Offset(c) = ByteOf(w, x, y, c)
  BY <1>1, <1>2, <1>3 DEF ValAddr, ByteOf, InTile
<1> QED BY <1>4, <1>5

(* What a call site may be. *)
LEMMA SiteType ==
    ASSUME NEW s \in Sites
    PROVE  /\ Rect(s).w \in 1 .. EfbWidth /\ Rect(s).h \in 1 .. EfbHeight
           /\ s.x \in 0 .. Rect(s).w - 1 /\ s.y \in 0 .. Rect(s).h - 1
<1>1. /\ s.left \in Nat /\ s.right \in s.left .. EfbWidth - 1
      /\ s.top \in Nat /\ s.bottom \in s.top .. EfbHeight - 1
      /\ s.x \in 0 .. s.right - s.left /\ s.y \in 0 .. s.bottom - s.top
      /\ EfbWidth \in Nat /\ EfbHeight \in Nat
  BY SitesFit, EfbIsTiled
<1>2. Rect(s).w = s.right - s.left + 1 /\ Rect(s).h = s.bottom - s.top + 1
  BY DEF Rect
<1> QED BY <1>1, <1>2

(* The inductive invariant holds in every reachable state. *)
THEOREM TileInvariance == TileSpec => []TileIInv
<1>1. TileInit => TileIInv
  BY DEF TileInit, TileIInv
<1>2. TileIInv /\ [TileNext]_tileVars => TileIInv'
  <2> SUFFICES ASSUME TileIInv, [TileNext]_tileVars PROVE TileIInv'
    OBVIOUS
  <2>1. ASSUME NEW s \in Sites, CopyToTestBuffer(s) PROVE TileIInv'
    BY <2>1 DEF CopyToTestBuffer, TileIInv
  <2>2. ASSUME NEW s \in Sites, ReadTestBuffer(s) PROVE TileIInv'
    <3>1. rect' = rect /\ stride' = stride
      BY <2>2 DEF ReadTestBuffer
    <3>2. (\E z \in Sites : rect = Rect(z)) /\ stride = Stride(rect.w)
      <4>1. rect = None => TileIInv /\ Rect(s) = None
        BY <2>2 DEF ReadTestBuffer
      <4>2. Rect(s) # None
        BY DEF Rect, None
      <4> QED BY <4>1, <4>2 DEF TileIInv
    <3>3. read' = [x |-> s.x, y |-> s.y,
                   found |-> [c \in Channel |->
                       Source(ValAddr(s.x, s.y, s.width) + Offset(c))']]
      BY <2>2 DEF ReadTestBuffer, Source, Pixels, Written
    <3> QED BY <2>2, <3>1, <3>2, <3>3 DEF TileIInv, ReadTestBuffer, Source, Pixels, Written
  <2>3. CASE UNCHANGED tileVars
    BY <2>3 DEF tileVars, TileIInv, Source, Pixels, Written
  <2> QED BY <2>1, <2>2, <2>3 DEF TileNext
<1> QED BY <1>1, <1>2, PTL DEF TileSpec

(* Every variable keeps its type, in an EFB of any size. *)
THEOREM TileTypeCorrect == TileSpec => []TileTypeOK
<1>1. TileIInv => TileTypeOK
  <2> SUFFICES ASSUME TileIInv PROVE TileTypeOK
    OBVIOUS
  <2>1. CASE rect = None /\ stride = 0 /\ read = None
    BY <2>1, EfbIsTiled DEF TileTypeOK
  <2>2. ASSUME NEW s \in Sites, rect = Rect(s), stride = Stride(rect.w),
               read = None \/ \E z \in Sites : rect = Rect(z) /\ read =
                   [x |-> z.x, y |-> z.y, found |-> [c \in Channel |->
                       Source(ValAddr(z.x, z.y, z.width) + Offset(c))]]
        PROVE  TileTypeOK
    <3>1. stride \in 0 .. EfbWidth \div 2
      <4>1. rect.w \in 1 .. EfbWidth
        BY <2>2, SiteType
      <4> QED BY <2>2, <4>1, EfbIsTiled DEF Stride, Tiles
    <3>2. read = None \/ /\ read.x \in 0 .. rect.w - 1 /\ read.y \in 0 .. rect.h - 1
                         /\ read.found \in [Channel -> SUBSET (Pixels \X Channel)]
      <4>1. \A o : Source(o) \in SUBSET (Pixels \X Channel)
        BY DEF Source
      <4> QED BY <2>2, <4>1, SiteType
    <3> QED BY <2>2, <3>1, <3>2 DEF TileTypeOK
  <2> QED BY <2>1, <2>2 DEF TileIInv
<1> QED BY <1>1, TileInvariance, PTL

(* A test that repeats the width of its copy reads the pixel it asks for, for *)
(* copies of every size: no other pixel of the copy has its address.         *)
THEOREM RightPixel == WidthRepeated => (TileSpec => []ReadsPixel)
<1>1. ASSUME WidthRepeated, TileIInv PROVE ReadsPixel
  <2> SUFFICES ASSUME read # None, NEW c \in Channel
               PROVE  read.found[c] = {<< <<read.x, read.y>>, c>>}
    BY DEF ReadsPixel
  <2>1. PICK s \in Sites :
            /\ rect = Rect(s) /\ stride = Stride(rect.w)
            /\ read = [x |-> s.x, y |-> s.y,
                       found |-> [d \in Channel |->
                           Source(ValAddr(s.x, s.y, s.width) + Offset(d))]]
    BY <1>1 DEF TileIInv
  <2>2. read.x = s.x /\ read.y = s.y /\ read.found[c] = Source(ValAddr(s.x, s.y, rect.w) + Offset(c))
    BY <1>1, <2>1 DEF WidthRepeated
  <2> DEFINE w == rect.w
  <2>3. w \in Nat \ {0} /\ rect.h \in Nat \ {0} /\ s.x \in 0 .. w - 1 /\ s.y \in 0 .. rect.h - 1
    BY <2>1, SiteType, EfbIsTiled
  <2>4. read.found[c] = Source(ByteOf(w, s.x, s.y, c))
    BY <2>2, <2>3, SameByte
  <2>5. \A p \in Pixels \X Channel :
            Written(p[1][1], p[1][2], p[2]) = ByteOf(w, s.x, s.y, c) <=> p = << <<s.x, s.y>>, c>>
    <3> TAKE p \in Pixels \X Channel
    <3>1. PICK x \in 0 .. w - 1, y \in 0 .. rect.h - 1, d \in Channel : p = << <<x, y>>, d>>
      BY DEF Pixels
    <3>2. x \in Nat /\ y \in Nat /\ s.x \in Nat /\ s.y \in Nat
      BY <2>3
    <3>3. Written(p[1][1], p[1][2], p[2]) = ByteOf(w, x, y, d)
      <4>1. p[1][1] = x /\ p[1][2] = y /\ p[2] = d
        BY <3>1
      <4>2. Written(x, y, d) = ByteOf(w, x, y, d)
        BY <2>1, <2>3, <3>2, SameByte
      <4> QED BY <4>1, <4>2
    <3>4. ByteOf(w, x, y, d) = ByteOf(w, s.x, s.y, c) => x = s.x /\ y = s.y /\ d = c
      <4> HIDE DEF w
      <4> QED BY <2>3, <3>2, ByteInjective
    <3> QED BY <3>1, <3>3, <3>4
  <2>6. << <<s.x, s.y>>, c>> \in Pixels \X Channel
    BY <2>3 DEF Pixels
  <2> HIDE DEF w
  <2> QED BY <2>2, <2>4, <2>5, <2>6 DEF Source
<1>2. ASSUME WidthRepeated PROVE TileSpec => []ReadsPixel
  <2>1. TileIInv => ReadsPixel
    BY <1>1, <1>2
  <2> QED BY <2>1, TileInvariance, PTL
<1> QED BY <1>2

(* Every copy of a rectangle of the EFB stays inside test_buffer and inside   *)
(* the range that is invalidated for it, whatever the width.                *)
THEOREM StaysInBuffer == TileSpec => []InBuffer
<1>1. TileIInv => InBuffer
  <2> SUFFICES ASSUME TileIInv, rect # None, NEW x \in 0 .. rect.w - 1, NEW y \in 0 .. rect.h - 1,
                      NEW c \in Channel
               PROVE  /\ Written(x, y, c) \in 0 .. TestBufferSize - 1
                      /\ Written(x, y, c) < GetTexBufferSize(rect.w, rect.h)
    BY DEF InBuffer
  <2> DEFINE T == Tiles(rect.w)
             U == Tiles(rect.h)
             A == EfbWidth \div 4
             B == EfbHeight \div 4
  <2>1. /\ rect.w \in 1 .. EfbWidth /\ rect.h \in 1 .. EfbHeight
        /\ stride = Stride(rect.w) /\ EfbWidth \in Nat /\ EfbHeight \in Nat
    BY SiteType, EfbIsTiled DEF TileIInv
  <2>2. /\ T \in Nat \ {0} /\ U \in Nat \ {0}
        /\ x \div 4 \in 0 .. T - 1 /\ y \div 4 \in 0 .. U - 1
    BY <2>1, TilesRoundUp
  <2>3. /\ A \in Nat /\ B \in Nat /\ EfbWidth = 4 * A /\ EfbHeight = 4 * B
        /\ T <= A /\ U <= B
    BY <2>1, EfbIsTiled DEF Tiles
  <2>4. Written(x, y, c) = 64 * ((y \div 4) * T + x \div 4) + (InTile(x, y) + Offset(c))
    <3>1. Written(x, y, c) = ByteOf(rect.w, x, y, c)
      BY <2>1, SameByte
    <3>2. InTile(x, y) \in Nat /\ Offset(c) \in Nat /\ (y \div 4) * T \in Nat
      BY <2>1, <2>2 DEF InTile, Offset, Channel, LineSize
    <3> QED BY <2>1, <2>2, <3>1, <3>2 DEF ByteOf
  <2>5. InTile(x, y) + Offset(c) \in 0 .. 63
    BY InTileInjective
  <2>6. (y \div 4) * T + T <= U * T
    <3>1. PICK k \in Nat : U = y \div 4 + 1 + k
      <4>1. U - y \div 4 - 1 \in Nat /\ U = y \div 4 + 1 + (U - y \div 4 - 1)
        BY <2>1, <2>2
      <4> QED BY <4>1
    <3> HIDE DEF T, U
    <3>2. (y \div 4 + 1 + k) * T = (y \div 4) * T + T + k * T /\ k * T \in Nat /\ (y \div 4) * T \in Nat
      BY <2>2, <3>1
    <3> QED BY <3>1, <3>2, <2>2
  <2>7. T * U <= A * B
    <3> HIDE DEF T, U, A, B
    <3>1. T * U <= A * U
      BY <2>2, <2>3
    <3>2. A * U <= A * B
      BY <2>2, <2>3
    <3>3. T * U \in Nat /\ A * U \in Nat /\ A * B \in Nat
      BY <2>2, <2>3
    <3> QED BY <3>1, <3>2, <3>3
  <2>8. GetTexBufferSize(rect.w, rect.h) = 64 * (T * U) /\ TestBufferSize = 64 * (A * B)
    <3>1. T * U * 64 = 64 * (T * U) /\ 4 * A * (4 * B) * 4 = 64 * (A * B)
      <4> HIDE DEF T, U, A, B
      <4> QED BY <2>2, <2>3
    <3>2. EfbWidth * EfbHeight * 4 = 4 * A * (4 * B) * 4
      BY <2>3
    <3> QED BY <3>1, <3>2 DEF GetTexBufferSize, TestBufferSize, TileSize, LineSize
  <2>9. U * T = T * U /\ T * U \in Nat /\ A * B \in Nat /\ (y \div 4) * T \in Nat
    <3> HIDE DEF T, U, A, B
    <3> QED BY <2>1, <2>2, <2>3
  <2> HIDE DEF T, U, A, B
  <2> QED BY <2>2, <2>4, <2>5, <2>6, <2>7, <2>8, <2>9
<1> QED BY <1>1, TileInvariance, PTL


(***************************************************************************)
(* TevReadback                                                             *)
(***************************************************************************)
(* The registers of the pixel after the extra stages drawn so far. *)
Drawn1 ==
    pc = "draw1" =>
        /\ last = call.stage + 1
        /\ stage \in call.stage .. last + 1
        /\ env[1] = [input |-> "a", reg |-> call.dest, scale |-> "Scale4"]
        /\ stage = call.stage + 1 => regs[call.dest] = call.value
        /\ stage = call.stage + 2 => regs["Prev"] = 4 * (call.value % 256)

Drawn2 ==
    pc = "draw2" =>
        /\ last = call.stage + 3
        /\ stage \in call.stage .. last + 1
        /\ \A i \in 1 .. 3 : env[i] = [input |-> "d", reg |-> call.dest, scale |-> "Divide2"]
        /\ call.dest = "Prev" =>
            /\ stage = call.stage + 1 => regs["Prev"] = call.value
            /\ stage = call.stage + 2 => regs["Prev"] = call.value \div 2
            /\ stage = call.stage + 3 => regs["Prev"] = call.value \div 4
            /\ stage = call.stage + 4 => regs["Prev"] = call.value \div 8

(* The bytes the two passes give. *)
First == EfbByte(call.pixel, (4 * (call.value % 256)) % 256)
Second == EfbByte(call.pixel, (call.value \div 8) % 256)

Bytes ==
    /\ pc = "copy1" => efb = First
    /\ pc \in {"pass2", "draw2", "copy2"} => result1 = First \div 4
    /\ pc = "copy2" /\ call.dest = "Prev" => efb = Second
    /\ pc = "done" /\ call.dest = "Prev" => result = Combine(Second \div 8, First \div 4)

TevIInv == TevTypeOK /\ Drawn1 /\ Drawn2 /\ Bytes

-----------------------------------------------------------------------------
(* Division of 11-bit numbers. *)
LEMMA Divided ==
    ASSUME NEW x \in Word11
    PROVE  /\ x \in Int /\ x \div 2 \in Word11
           /\ x % 256 \in 0 .. 255
           /\ x % 64 \in 0 .. 63 /\ x \div 64 \in -16 .. 15 /\ x = 64 * (x \div 64) + (x % 64)
  BY DEF Word11

(* Halving three times divides by eight, rounding down. *)
LEMMA HalvedAgain ==
    ASSUME NEW x \in Word11
    PROVE  (x \div 2) \div 2 = x \div 4 /\ (x \div 4) \div 2 = x \div 8
<1>1. x \in Int
  BY DEF Word11
<1> QED BY <1>1

(* A stage that multiplies by four sees the lower 8 bits. *)
LEMMA TimesFour ==
    ASSUME NEW x \in Word11
    PROVE  TevCombinerExpectation(x, 0, 0, 0, "Scale4", "Zero", "Add", FALSE) = 4 * (x % 256)
<1>1. 0 % 256 = 0 /\ 0 \div 128 = 0
  OBVIOUS
<1>2. LShift("Scale4") = 4 /\ RShift("Scale4") = 1 /\ RoundBias("Scale4", "Add") = 128
      /\ Bias("Zero") = 0 /\ Sign("Add") = 1
  BY DEF LShift, RShift, RoundBias, Bias, Sign
<1>3. x % 256 \in 0 .. 255
  BY Divided
<1> DEFINE p == (((x % 256) * 256) * 4 + 128) \div 256
<1>4. p = 4 * (x % 256)
  <2>1. ASSUME NEW y \in 0 .. 255 PROVE ((y * 256) * 4 + 128) \div 256 = 4 * y
    OBVIOUS
  <2> QED BY <1>3, <2>1
<1>5. TevCombinerExpectation(x, 0, 0, 0, "Scale4", "Zero", "Add", FALSE) = Between(-1024, p, 1023)
  BY <1>1, <1>2, <1>3 DEF TevCombinerExpectation
<1>6. Between(-1024, p, 1023) = p
  <2> HIDE DEF p
  <2> QED BY <1>3, <1>4 DEF Between
<1> HIDE DEF p
<1>7. TevCombinerExpectation(x, 0, 0, 0, "Scale4", "Zero", "Add", FALSE) = p
  BY <1>5, <1>6, Zenon
<1> QED BY <1>4, <1>7, Zenon

(* A stage that halves keeps the sign. *)
LEMMA Halves ==
    ASSUME NEW x \in Word11
    PROVE  TevCombinerExpectation(0, 0, 0, x, "Divide2", "Zero", "Add", FALSE) = x \div 2
<1>1. 0 % 256 = 0 /\ 0 \div 128 = 0 /\ 0 \div 256 = 0
  OBVIOUS
<1>2. LShift("Divide2") = 1 /\ RShift("Divide2") = 2 /\ RoundBias("Divide2", "Add") = 0
      /\ Bias("Zero") = 0 /\ Sign("Add") = 1
  BY DEF LShift, RShift, RoundBias, Bias, Sign
<1>3. TevCombinerExpectation(0, 0, 0, x, "Divide2", "Zero", "Add", FALSE)
        = Between(-1024, x \div 2, 1023)
  BY <1>1, <1>2 DEF TevCombinerExpectation, Word11
<1>4. x \div 2 \in Word11
  BY Divided
<1>5. ASSUME NEW y \in Word11 PROVE Between(-1024, y, 1023) = y
  BY DEF Between, Word11
<1>6. Between(-1024, x \div 2, 1023) = x \div 2
  BY <1>4, <1>5
<1> QED BY <1>3, <1>6, ZenonT(60)

(* What a stage computes fits the register. *)
LEMMA Fits ==
    ASSUME NEW x \in Int PROVE Between(-1024, x, 1023) \in Word11
  BY DEF Between, Word11

(* The two passes give back all 11 bits. *)
LEMMA Recombine ==
    ASSUME NEW v \in Word11
    PROVE  Combine(((v \div 8) % 256) \div 8, ((4 * (v % 256)) % 256) \div 4) = v
<1>1. ((4 * (v % 256)) % 256) \div 4 = v % 64
  BY DEF Word11
<1>2. ((v \div 8) % 256) \div 8 = (v \div 64) % 32
  BY DEF Word11
<1>3. v \div 64 \in -16 .. 15 /\ v % 64 \in 0 .. 63 /\ v = 64 * (v \div 64) + (v % 64)
  <2>1. v \in Int /\ -1024 <= v /\ v <= 1023
    BY DEF Word11
  <2> QED BY <2>1, Divided DEF Word11
<1>4. ASSUME NEW h \in -16 .. 15, NEW l \in Int
      PROVE  Combine(h % 32, l) = l + 64 * h
  BY DEF Combine
<1>5. Combine((v \div 64) % 32, v % 64) = (v % 64) + 64 * (v \div 64)
  <2>1. v % 64 \in Int
    BY <1>3
  <2> QED BY <1>3, <1>4, <2>1
<1>6. (v % 64) + 64 * (v \div 64) = v
  BY <1>3
<1> QED BY <1>1, <1>2, <1>5, <1>6

(* A byte of the EFB is a byte. *)
LEMMA ByteType ==
    ASSUME NEW v \in 0 .. 255, NEW p
    PROVE  EfbByte(p, v) \in 0 .. 255
  BY DEF EfbByte, SixBit

-----------------------------------------------------------------------------
(* The initial states satisfy the invariant. *)
LEMMA TevInitIInv == TevInit => TevIInv
<1> SUFFICES ASSUME TevInit PROVE TevIInv
  OBVIOUS
<1>1. TevTypeOK
  BY DEF TevInit, TevTypeOK, NoCall, NoStages, NoStage, NoPixel, Word11, Registers
<1>2. Drawn1 /\ Drawn2 /\ Bytes
  BY DEF TevInit, Drawn1, Drawn2, Bytes
<1> QED BY <1>1, <1>2 DEF TevIInv

(* Every step of the program and of the GPU keeps the invariant. *)
LEMMA TevNextIInv == TevIInv /\ [TevNext]_tevVars => TevIInv'
<1> SUFFICES ASSUME TevIInv, [TevNext]_tevVars PROVE TevIInv'
  OBVIOUS
<1> DEFINE Typed == TevTypeOK
<1>t. /\ pc \in {"idle", "pass1", "draw1", "copy1", "pass2", "draw2", "copy2", "done"}
      /\ call.value \in Word11 /\ call.stage \in 0 .. 12 /\ call.dest \in Registers
      /\ call.loaded \in Word11
      /\ last \in 0 .. 15 /\ stage \in 0 .. 16 /\ regs \in [Registers -> Word11]
      /\ efb \in 0 .. 255 /\ result1 \in 0 .. 63 /\ result \in Word11
  BY DEF TevIInv, TevTypeOK
<1>1. CASE Call
  <2>1. PICK v \in Values, n \in Stages, d \in Dests, p \in PixelsRead, l \in Loaded :
            GetTevOutput(v, n, d, p, l)
    BY <1>1 DEF Call
  <2>2. pc = "idle" /\ pc' = "pass1"
    BY <1>1 DEF Call, At
  <2>3. call' \in [value : Word11, stage : 0 .. 12, dest : Registers,
                   pixel : {"color", "alpha"} \X {"RGB8", "RGBA6"}, loaded : Word11]
    BY <2>1, CallsAreLegal DEF GetTevOutput
  <2>4. UNCHANGED <<last, env, stage, regs, efb, result1, result>>
    BY <2>1 DEF GetTevOutput
  <2>5. TevTypeOK'
    BY <2>2, <2>3, <2>4 DEF TevIInv, TevTypeOK
  <2> QED BY <2>2, <2>5 DEF TevIInv, Drawn1, Drawn2, Bytes
<1>2. CASE FirstPass
  <2>1. /\ pc = "pass1" /\ pc' = "draw1" /\ call' = call /\ last' = call.stage + 1
        /\ stage' = call.stage /\ efb' = efb /\ result' = result /\ result1' = result1
    BY <1>2, <1>t DEF FirstPass, At, StartPixel, NumTevStages
  <2>2. env' = [env EXCEPT ![1] = [input |-> "a", reg |-> call.dest, scale |-> "Scale4"]]
    BY <1>2 DEF FirstPass, Extra
  <2>3. regs' \in [Registers -> Word11]
    BY <1>2, <1>t DEF FirstPass, StartPixel
  <2>4. env' \in [1 .. 3 -> [input : {"a", "d", "Zero"}, reg : Registers,
                             scale : {"Scale1", "Scale4", "Divide2"}]]
    BY <2>2, <1>t DEF TevIInv, TevTypeOK
  <2>5. env'[1] = [input |-> "a", reg |-> call.dest, scale |-> "Scale4"]
    BY <2>2 DEF TevIInv, TevTypeOK
  <2>6. TevTypeOK'
    BY <2>1, <2>3, <2>4, <1>t DEF TevIInv, TevTypeOK
  <2>7. Drawn1'
    BY <2>1, <2>5, <1>t DEF Drawn1
  <2> QED BY <2>1, <2>6, <2>7 DEF TevIInv, Drawn2, Bytes, First, Second
<1>3. CASE Draw /\ pc = "draw1"
  <2>1. /\ pc' = "draw1" /\ stage <= last /\ stage' = stage + 1
        /\ UNCHANGED <<call, last, env, efb, result1, result>>
    BY <1>3 DEF Draw
  <2>2. last = call.stage + 1 /\ stage \in call.stage .. last
    BY <1>3, <2>1, <1>t DEF TevIInv, Drawn1
  <2>3. CASE stage = call.stage
    <3>1. regs' = [regs EXCEPT ![call.dest] = call.value]
      BY <1>3, <2>3 DEF Draw
    <3>2. regs' \in [Registers -> Word11] /\ regs'[call.dest] = call.value
      BY <3>1, <1>t
    <3>3. TevTypeOK'
      BY <2>1, <2>2, <3>2, <1>t DEF TevIInv, TevTypeOK
    <3>4. Drawn1'
      BY <1>3, <2>1, <2>2, <2>3, <3>2, <1>t DEF TevIInv, Drawn1
    <3> QED BY <1>3, <2>1, <3>3, <3>4 DEF TevIInv, Drawn2, Bytes, First, Second
  <2>4. CASE stage = call.stage + 1
    <3>1. stage - call.stage = 1 /\ stage # call.stage
      BY <2>4, <1>t
    <3>2. regs' = [regs EXCEPT !["Prev"] = Evaluate(env[1])]
      BY <1>3, <3>1 DEF Draw
    <3>3. Evaluate(env[1]) = 4 * (call.value % 256)
      <4>1. env[1].input = "a" /\ env[1].reg = call.dest /\ env[1].scale = "Scale4"
        BY <1>3 DEF TevIInv, Drawn1
      <4>2. regs[call.dest] = call.value
        BY <1>3, <2>4 DEF TevIInv, Drawn1
      <4>3. Input(env[1], "a") = call.value /\ Input(env[1], "d") = 0
        BY <4>1, <4>2 DEF Input
      <4> QED BY <4>1, <4>3, <1>t, TimesFour DEF Evaluate
    <3>4. 4 * (call.value % 256) \in Word11
      <4>1. call.value % 256 \in 0 .. 255
        BY <1>t, Divided
      <4> QED BY <4>1 DEF Word11
    <3>5. regs' \in [Registers -> Word11] /\ regs'["Prev"] = 4 * (call.value % 256)
      BY <3>2, <3>3, <3>4, <1>t DEF Registers
    <3>6. TevTypeOK'
      BY <2>1, <2>2, <3>5, <1>t DEF TevIInv, TevTypeOK
    <3>7. Drawn1'
      BY <1>3, <2>1, <2>2, <2>4, <3>5, <1>t DEF TevIInv, Drawn1
    <3> QED BY <1>3, <2>1, <3>6, <3>7 DEF TevIInv, Drawn2, Bytes, First, Second
  <2> QED BY <2>2, <2>3, <2>4, <1>t
<1>4. CASE Draw /\ pc = "draw2"
  <2>1. /\ pc' = "draw2" /\ stage <= last /\ stage' = stage + 1
        /\ UNCHANGED <<call, last, env, efb, result1, result>>
    BY <1>4 DEF Draw
  <2>2. last = call.stage + 3 /\ stage \in call.stage .. last
    BY <1>4, <2>1, <1>t DEF TevIInv, Drawn2
  <2>3. CASE stage = call.stage
    <3>1. regs' = [regs EXCEPT ![call.dest] = call.value]
      BY <1>4, <2>3 DEF Draw
    <3>2. regs' \in [Registers -> Word11] /\ regs'[call.dest] = call.value
      BY <3>1, <1>t
    <3>3. TevTypeOK'
      BY <2>1, <2>2, <3>2, <1>t DEF TevIInv, TevTypeOK
    <3>4. Drawn2'
      BY <1>4, <2>1, <2>2, <2>3, <3>2, <1>t DEF TevIInv, Drawn2
    <3> QED BY <1>4, <2>1, <3>3, <3>4 DEF TevIInv, Drawn1, Bytes, First, Second
  <2>4. CASE stage > call.stage
    <3> DEFINE i == stage - call.stage
    <3>1. i \in 1 .. 3 /\ stage # call.stage
      BY <2>2, <2>4, <1>t
    <3>2. regs' = [regs EXCEPT !["Prev"] = Evaluate(env[i])]
      BY <1>4, <3>1 DEF Draw
    <3>3. regs[call.dest] \in Word11
      BY <1>t
    <3>4. Evaluate(env[i]) = regs[call.dest] \div 2
      <4>1. env[i].input = "d" /\ env[i].reg = call.dest /\ env[i].scale = "Divide2"
        BY <1>4, <3>1 DEF TevIInv, Drawn2
      <4>2. Input(env[i], "a") = 0 /\ Input(env[i], "d") = regs[call.dest]
        BY <4>1 DEF Input
      <4> QED BY <3>3, <4>1, <4>2, Halves DEF Evaluate
    <3>5. regs[call.dest] \div 2 \in Word11
      BY <3>3, Divided
    <3>6. regs' \in [Registers -> Word11] /\ regs'["Prev"] = regs[call.dest] \div 2
      BY <3>2, <3>4, <3>5, <1>t DEF Registers
    <3>7. TevTypeOK'
      BY <2>1, <2>2, <3>6, <1>t DEF TevIInv, TevTypeOK
    <3>8. ASSUME call.dest = "Prev"
          PROVE  /\ stage = call.stage + 1 => regs'["Prev"] = call.value \div 2
                 /\ stage = call.stage + 2 => regs'["Prev"] = call.value \div 4
                 /\ stage = call.stage + 3 => regs'["Prev"] = call.value \div 8
      <4>1. /\ stage = call.stage + 1 => regs["Prev"] = call.value
            /\ stage = call.stage + 2 => regs["Prev"] = call.value \div 2
            /\ stage = call.stage + 3 => regs["Prev"] = call.value \div 4
        BY <1>4, <3>8 DEF TevIInv, Drawn2
      <4>2. (call.value \div 2) \div 2 = call.value \div 4 /\ (call.value \div 4) \div 2 = call.value \div 8
        BY <1>t, HalvedAgain
      <4> QED BY <3>6, <3>8, <4>1, <4>2
    <3>9. Drawn2'
      <4>1. last' = call'.stage + 3 /\ stage' \in call'.stage .. last' + 1
        BY <2>1, <2>2, <1>t
      <4>2. \A j \in 1 .. 3 : env'[j] = [input |-> "d", reg |-> call'.dest, scale |-> "Divide2"]
        BY <1>4, <2>1 DEF TevIInv, Drawn2
      <4>3. stage' # call'.stage + 1
        BY <2>1, <2>4, <1>t
      <4>4. \A j \in 1 .. 3 : stage' = call'.stage + 1 + j => stage = call.stage + j
        BY <2>1, <1>t
      <4>5. call'.dest = "Prev" =>
              /\ stage' = call'.stage + 2 => regs'["Prev"] = call'.value \div 2
              /\ stage' = call'.stage + 3 => regs'["Prev"] = call'.value \div 4
              /\ stage' = call'.stage + 4 => regs'["Prev"] = call'.value \div 8
        BY <2>1, <3>8, <4>4, <1>t
      <4> QED BY <4>1, <4>2, <4>3, <4>5 DEF Drawn2
    <3> QED BY <1>4, <2>1, <3>7, <3>9 DEF TevIInv, Drawn1, Bytes, First, Second
  <2> QED BY <2>2, <2>3, <2>4, <1>t
<1>5. CASE CopyEfb
  <2>1. /\ stage > last /\ UNCHANGED <<call, last, env, stage, regs, result1, result>>
        /\ efb' = EfbByte(call.pixel, regs["Prev"] % 256)
        /\ (pc = "draw1" /\ pc' = "copy1") \/ (pc = "draw2" /\ pc' = "copy2")
    BY <1>5 DEF CopyEfb, At
  <2>2. regs["Prev"] % 256 \in 0 .. 255
    BY <1>t, Divided DEF Registers
  <2>3. efb' \in 0 .. 255
    BY <2>1, <2>2, ByteType
  <2>4. TevTypeOK'
    BY <2>1, <2>3 DEF TevIInv, TevTypeOK
  <2>5. CASE pc = "draw1"
    <3>1. stage = call.stage + 2
      BY <2>1, <2>5, <1>t DEF TevIInv, Drawn1
    <3>2. efb' = First'
      BY <2>1, <2>5, <3>1 DEF TevIInv, Drawn1, First
    <3> QED BY <2>1, <2>4, <2>5, <3>2 DEF TevIInv, Drawn1, Drawn2, Bytes
  <2>6. CASE pc = "draw2"
    <3>1. stage = call.stage + 4
      BY <2>1, <2>6, <1>t DEF TevIInv, Drawn2
    <3>2. call.dest = "Prev" => efb' = Second'
      BY <2>1, <2>6, <3>1 DEF TevIInv, Drawn2, Second
    <3>3. result1' = First' \div 4
      BY <2>1, <2>6 DEF TevIInv, Bytes, First
    <3> QED BY <2>1, <2>4, <2>6, <3>2, <3>3 DEF TevIInv, Drawn1, Drawn2, Bytes
  <2> QED BY <2>1, <2>5, <2>6
<1>6. CASE ReadFirst
  <2>1. /\ pc = "copy1" /\ pc' = "pass2" /\ result1' = efb \div 4
        /\ UNCHANGED <<call, last, env, stage, regs, efb, result>>
    BY <1>6 DEF ReadFirst, At
  <2>2. result1' \in 0 .. 63
    BY <2>1, <1>t
  <2>3. TevTypeOK'
    BY <2>1, <2>2 DEF TevIInv, TevTypeOK
  <2>4. result1' = First' \div 4
    BY <2>1 DEF TevIInv, Bytes, First
  <2> QED BY <2>1, <2>3, <2>4 DEF TevIInv, Drawn1, Drawn2, Bytes
<1>7. CASE SecondPass
  <2>1. /\ pc = "pass2" /\ pc' = "draw2" /\ call' = call /\ last' = call.stage + 3
        /\ stage' = call.stage /\ efb' = efb /\ result' = result /\ result1' = result1
    BY <1>7, <1>t DEF SecondPass, At, StartPixel, NumTevStages
  <2>2. env' = [i \in 1 .. 3 |-> [input |-> "d", reg |-> call.dest, scale |-> "Divide2"]]
    BY <1>7 DEF SecondPass, Extra
  <2>3. regs' \in [Registers -> Word11]
    BY <1>7, <1>t DEF SecondPass, StartPixel
  <2>4. env' \in [1 .. 3 -> [input : {"a", "d", "Zero"}, reg : Registers,
                             scale : {"Scale1", "Scale4", "Divide2"}]]
    BY <2>2, <1>t
  <2>5. TevTypeOK'
    BY <2>1, <2>3, <2>4, <1>t DEF TevIInv, TevTypeOK
  <2>6. Drawn2'
    BY <2>1, <2>2, <1>t DEF Drawn2
  <2>7. Bytes'
    BY <2>1 DEF TevIInv, Bytes, First
  <2> QED BY <2>1, <2>5, <2>6, <2>7 DEF TevIInv, Drawn1
<1>8. CASE ReadSecond
  <2>1. /\ pc = "copy2" /\ pc' = "done" /\ result' = Combine(efb \div 8, result1)
        /\ UNCHANGED <<call, last, env, stage, regs, efb, result1>>
    BY <1>8 DEF ReadSecond, At
  <2>2. result' \in Word11
    <3>1. efb \div 8 \in 0 .. 31
      BY <1>t
    <3>2. ASSUME NEW h \in 0 .. 31, NEW l \in 0 .. 63 PROVE Combine(h, l) \in Word11
      BY DEF Combine, Word11
    <3> QED BY <2>1, <1>t, <3>1, <3>2
  <2>3. TevTypeOK'
    BY <2>1, <2>2 DEF TevIInv, TevTypeOK
  <2>4. call.dest = "Prev" => result' = Combine(Second \div 8, First \div 4)
    BY <2>1 DEF TevIInv, Bytes
  <2>5. Second' = Second /\ First' = First
    BY <2>1 DEF First, Second
  <2> QED BY <2>1, <2>3, <2>4, <2>5 DEF TevIInv, Drawn1, Drawn2, Bytes
<1>9. CASE Return
  <2>1. /\ pc' = "idle" /\ call' = NoCall /\ last' = 0 /\ env' = NoStages /\ stage' = 0
        /\ regs' = NoPixel /\ efb' = 0 /\ result1' = 0 /\ result' = 0
    BY <1>9 DEF Return, At
  <2>2. TevTypeOK'
    BY <2>1 DEF TevTypeOK, NoCall, NoStages, NoStage, NoPixel, Word11, Registers
  <2> QED BY <2>1, <2>2 DEF TevIInv, Drawn1, Drawn2, Bytes
<1>10. CASE UNCHANGED tevVars
  BY <1>10 DEF tevVars, TevIInv, TevTypeOK, Drawn1, Drawn2, Bytes, First, Second
<1> QED
  <2>1. Draw => pc = "draw1" \/ pc = "draw2"
    BY DEF Draw
  <2> QED BY <2>1, <1>1, <1>2, <1>3, <1>4, <1>5, <1>6, <1>7, <1>8, <1>9, <1>10 DEF TevNext

(* The inductive invariant holds in every reachable state. *)
THEOREM TevInvariance == TevSpec => []TevIInv
  BY TevInitIInv, TevNextIInv, PTL DEF TevSpec

(* No register ever needs a twelfth bit and no stage a seventeenth number,    *)
(* for every legal call.                                                   *)
THEOREM TevTypeCorrect == TevSpec => []TevTypeOK
  BY TevInvariance, PTL DEF TevIInv

(* GetTevOutput returns all 11 bits of every output. *)
THEOREM AllBits == TevSpec => []ReadsAllBits
<1>1. TevIInv => ReadsAllBits
  <2> SUFFICES ASSUME TevIInv, Returned, call.dest = "Prev", call.pixel = <<"color", "RGB8">>
               PROVE  result = call.value
    BY DEF ReadsAllBits
  <2>1. call.value \in Word11
    BY DEF TevIInv, TevTypeOK
  <2>2. \A v : EfbByte(call.pixel, v) = v
    BY DEF EfbByte
  <2>3. result = Combine(((call.value \div 8) % 256) \div 8, ((4 * (call.value % 256)) % 256) \div 4)
    BY <2>2 DEF TevIInv, Bytes, Returned, First, Second
  <2> QED BY <2>1, <2>3, Recombine
<1> QED BY <1>1, TevInvariance, PTL

(* The compare test reads its two outcomes from an EFB of 6 bits a channel. *)
THEOREM CompareExact == TevSpec => []CompareReads
<1>1. TevIInv => CompareReads
  <2> SUFFICES ASSUME TevIInv, Returned, call.dest = "Prev", call.pixel = <<"alpha", "RGBA6">>,
                      call.value \in {0, 255}
               PROVE  result = call.value
    BY DEF CompareReads
  <2>1. \A v : EfbByte(call.pixel, v) = SixBit(v)
    BY DEF EfbByte
  <2>2. result = Combine(SixBit((call.value \div 8) % 256) \div 8,
                         SixBit((4 * (call.value % 256)) % 256) \div 4)
    BY <2>1 DEF TevIInv, Bytes, Returned, First, Second
  <2> QED BY <2>2 DEF Combine, SixBit
<1> QED BY <1>1, TevInvariance, PTL


(***************************************************************************)
(* CopyFilter                                                              *)
(***************************************************************************)
Filters == [prev : 0 .. 126, cur : 0 .. 189, next : 0 .. 126, intensity : BOOLEAN]

(* The registers hold the filter of the test. *)
FilterLoaded ==
    doing # "idle" =>
        /\ low = Register(COPYFILTER0, LowFields(ctx))
        /\ high = Register(COPYFILTER1, HighFields(ctx))

FilterIInv == FilterTypeOK /\ FilterLoaded /\ FilterPredicted

-----------------------------------------------------------------------------
(* A sum of at most two, or three, fields is the sum of its parts. *)
LEMMA Parts ==
    ASSUME NEW sum \in 0 .. 189
    PROVE  /\ Part(sum, 0) \in Nat /\ Part(sum, 0) < 64
           /\ Part(sum, 1) \in Nat /\ Part(sum, 1) < 64
           /\ Part(sum, 2) \in Nat /\ Part(sum, 2) < 64
           /\ Part(sum, 0) + Part(sum, 1) + Part(sum, 2) = sum
           /\ sum <= 126 => Part(sum, 0) + Part(sum, 1) = sum
  BY DEF Part, Least

(* Fields that are not too large do not touch each other. *)
LEMMA Unpack ==
    ASSUME NEW n \in Nat, NEW a \in Nat, NEW b \in Nat, NEW c \in Nat, NEW d \in Nat,
           a < 64, b < 64, c < 64, d < 64
    PROVE  LET r == Register(n, a + Bit6 * b + Bit12 * c + Bit18 * d)
           IN  /\ Field(r, 1) = a /\ Field(r, Bit6) = b
               /\ Field(r, Bit12) = c /\ Field(r, Bit18) = d
<1> DEFINE r == Register(n, a + Bit6 * b + Bit12 * c + Bit18 * d)
<1>1. Field(r, 1) = a
  BY SMT DEF Register, Field, Bit6, Bit12, Bit18, Bit24
<1>2. Field(r, Bit6) = b
  BY SMT DEF Register, Field, Bit6, Bit12, Bit18, Bit24
<1>3. Field(r, Bit12) = c
  BY SMTT(30) DEF Register, Field, Bit6, Bit12, Bit18, Bit24
<1>4. Field(r, Bit18) = d
  <2> DEFINE e == a + Bit6 * b + Bit12 * c
             q == d + 64 * n
  <2>1. e \in Nat /\ e < 262144 /\ q \in Nat /\ r = e + 262144 * q
    BY SMT DEF Register, Bit6, Bit12, Bit18, Bit24
  <2>2. q % 64 = d
    BY SMT
  <2> HIDE DEF e, q, r
  <2>3. r \div 262144 = q
    BY <2>1, SMT
  <2> QED  BY <2>2, <2>3, SMT DEF Field, Bit18
<1> QED  BY <1>1, <1>2, <1>3, <1>4

(* The weights of a filter add up to the sums of its rows. *)
LEMMA Weights ==
    ASSUME ctx \in Filters,
           low = Register(COPYFILTER0, LowFields(ctx)), high = Register(COPYFILTER1, HighFields(ctx))
    PROVE  PrevWeights = ctx.prev /\ CurWeights = ctx.cur /\ NextWeights = ctx.next
<1>1. /\ ctx.prev \in 0 .. 189 /\ ctx.cur \in 0 .. 189 /\ ctx.next \in 0 .. 189
      /\ ctx.prev <= 126 /\ ctx.next <= 126
  BY DEF Filters
<1> DEFINE p0 == Part(ctx.prev, 0)  p1 == Part(ctx.prev, 1)
           c0 == Part(ctx.cur, 0)  c1 == Part(ctx.cur, 1)  c2 == Part(ctx.cur, 2)
           n0 == Part(ctx.next, 0)  n1 == Part(ctx.next, 1)
<1>2. /\ p0 \in Nat /\ p0 < 64 /\ p1 \in Nat /\ p1 < 64 /\ p0 + p1 = ctx.prev
      /\ c0 \in Nat /\ c0 < 64 /\ c1 \in Nat /\ c1 < 64 /\ c2 \in Nat /\ c2 < 64
      /\ c0 + c1 + c2 = ctx.cur
      /\ n0 \in Nat /\ n0 < 64 /\ n1 \in Nat /\ n1 < 64 /\ n0 + n1 = ctx.next
  BY <1>1, Parts
<1>3. /\ LowFields(ctx) = p0 + Bit6 * p1 + Bit12 * c1 + Bit18 * c0
      /\ HighFields(ctx) = c2 + Bit6 * n0 + Bit12 * n1
  BY DEF LowFields, HighFields
<1> HIDE DEF p0, p1, c0, c1, c2, n0, n1
<1>4. HighFields(ctx) = c2 + Bit6 * n0 + Bit12 * n1 + Bit18 * 0
  BY <1>2, <1>3, SMT DEF Bit6, Bit12, Bit18
<1>5. /\ Field(low, 1) = p0 /\ Field(low, Bit6) = p1
      /\ Field(low, Bit12) = c1 /\ Field(low, Bit18) = c0
  <2>1. COPYFILTER0 \in Nat
    BY DEF COPYFILTER0
  <2> QED  BY <1>2, <1>3, <2>1, Unpack
<1>6. Field(high, 1) = c2 /\ Field(high, Bit6) = n0 /\ Field(high, Bit12) = n1
  <2>1. COPYFILTER1 \in Nat /\ 0 \in Nat /\ 0 < 64
    BY DEF COPYFILTER1
  <2> QED  BY <1>2, <1>4, <2>1, Unpack
<1> QED
  BY <1>2, <1>5, <1>6, SMT DEF PrevWeights, CurWeights, NextWeights

(* The conversion of every colour keeps to the nominal ranges. *)
LEMMA NominalRange ==
    ASSUME NEW r \in Byte, NEW g \in Byte, NEW b \in Byte
    PROVE  /\ Intensity(r, g, b).r \in 16 .. 235
           /\ Intensity(r, g, b).g \in 16 .. 240
           /\ Intensity(r, g, b).b \in 16 .. 240
<1>1. ASSUME NEW y \in Nat, y <= 56100 PROVE Rounded(U16(y), 16) \in 16 .. 235
  <2>1. U16(y) = y
    BY <1>1, SMT DEF U16
  <2>2. Rounded(y, 16) \in Int /\ 16 <= Rounded(y, 16) /\ Rounded(y, 16) <= 235
    BY <1>1, SMT DEF Rounded
  <2> QED  BY <2>1, <2>2
<1>2. ASSUME NEW u \in Int, 0 - 28560 <= u, u <= 28560 PROVE Rounded(S16(u), 128) \in 16 .. 240
  <2>1. S16(u) = u
    BY <1>2, SMT DEF S16
  <2>2. Rounded(u, 128) \in Int /\ 16 <= Rounded(u, 128) /\ Rounded(u, 128) <= 240
    BY <1>2, SMT DEF Rounded
  <2> QED  BY <2>1, <2>2
<1> DEFINE y == 66 * r + 129 * g + 25 * b
           u == 112 * b - 38 * r - 74 * g
           v == 112 * r - 94 * g - 18 * b
<1>3. y \in Nat /\ y <= 56100
  BY SMT DEF Byte
<1>4. u \in Int /\ 0 - 28560 <= u /\ u <= 28560
  BY SMT DEF Byte
<1>5. v \in Int /\ 0 - 28560 <= v /\ v <= 28560
  BY SMT DEF Byte
<1>6. /\ Intensity(r, g, b).r = Rounded(U16(y), 16)
      /\ Intensity(r, g, b).g = Rounded(S16(u), 128)
      /\ Intensity(r, g, b).b = Rounded(S16(v), 128)
  BY DEF Intensity
<1> HIDE DEF y, u, v
<1> QED
  BY <1>1, <1>2, <1>3, <1>4, <1>5, <1>6

(* What a copy holds are bytes, for every filter. *)
LEMMA FilteredIsByte ==
    ASSUME NEW column \in Byte, NEW sums \in Filters
    PROVE  Filtered(column, sums) \in [r : Byte, g : Byte, b : Byte]
<1>1. ASSUME NEW rows \in [prev : Byte, cur : Byte, next : Byte]
      PROVE  Clamped(Raw(rows, sums)) \in Byte
  <2> DEFINE n == rows.prev * sums.prev + rows.cur * sums.cur + rows.next * sums.next
  <2>1. /\ rows.prev \in Nat /\ rows.cur \in Nat /\ rows.next \in Nat
        /\ sums.prev \in Nat /\ sums.cur \in Nat /\ sums.next \in Nat
    BY DEF Filters, Byte
  <2>2. n \in Int
    BY <2>1
  <2> HIDE DEF n
  <2>3. Clamped(n \div 64) \in Byte
    BY <2>2 DEF Clamped, Least, Byte
  <2> QED  BY <2>3 DEF Raw, n
<1>2. /\ RedRows(column) \in [prev : Byte, cur : Byte, next : Byte]
      /\ GreenRows(column) \in [prev : Byte, cur : Byte, next : Byte]
  BY DEF RedRows, GreenRows, Byte
<1> QED
  BY <1>1, <1>2 DEF Filtered

-----------------------------------------------------------------------------
(* main gives every row at most what its weights can hold. *)
LEMMA ContextFits ==
    ASSUME NEW sum \in 0 .. 189, NEW flags \in 2 .. 15
    PROVE  Context(sum, flags) \in Filters
<1>1. Least(sum, 2 * 63) \in 0 .. 126 /\ Least(sum, 3 * 63) \in 0 .. 189
  BY DEF Least
<1> QED  BY <1>1 DEF Context, Filters

(* Loading a filter leaves the numbers of the registers alone. *)
LEMMA RegistersFit ==
    ASSUME NEW c \in Filters
    PROVE  /\ Register(COPYFILTER0, LowFields(c))
                  \in Register(COPYFILTER0, 0) .. Register(COPYFILTER0, Bit24 - 1)
           /\ Register(COPYFILTER1, HighFields(c))
                  \in Register(COPYFILTER1, 0) .. Register(COPYFILTER1, Bit18 - 1)
<1>1. /\ c.prev \in 0 .. 189 /\ c.cur \in 0 .. 189 /\ c.next \in 0 .. 189
  BY DEF Filters
<1>2. ASSUME NEW p \in Nat, NEW q \in Nat, NEW s \in Nat, NEW t \in Nat, p < 64, q < 64, s < 64, t < 64
      PROVE  /\ p + Bit6 * q + Bit12 * s + Bit18 * t \in Nat
             /\ p + Bit6 * q + Bit12 * s + Bit18 * t <= Bit24 - 1
             /\ p + Bit6 * q + Bit12 * s \in Nat
             /\ p + Bit6 * q + Bit12 * s <= Bit18 - 1
  BY <1>2, SMT DEF Bit6, Bit12, Bit18, Bit24
<1>3. /\ LowFields(c) \in Nat /\ LowFields(c) <= Bit24 - 1
      /\ HighFields(c) \in Nat /\ HighFields(c) <= Bit18 - 1
  BY <1>1, <1>2, Parts DEF LowFields, HighFields
<1>4. ASSUME NEW f \in Nat, NEW top \in Nat, f <= top, NEW n \in Nat
      PROVE  Register(n, f) \in Register(n, 0) .. Register(n, top)
  BY <1>4, SMT DEF Register, Bit24
<1> QED
  BY <1>3, <1>4, SMT DEF COPYFILTER0, COPYFILTER1, Bit24, Bit18

LEMMA FilterInitIInv == FilterInit => FilterIInv
<1> SUFFICES ASSUME FilterInit PROVE FilterIInv
  OBVIOUS
<1>0. ASSUME NEW n \in Nat
      PROVE  /\ Register(n, 0) \in Register(n, 0) .. Register(n, Bit24 - 1)
             /\ Register(n, 0) \in Register(n, 0) .. Register(n, Bit18 - 1)
  BY SMT DEF Register, Bit24, Bit18
<1>1. low \in Register(COPYFILTER0, 0) .. Register(COPYFILTER0, Bit24 - 1)
  <2>1. low = Register(COPYFILTER0, 0)
    BY DEF FilterInit
  <2> QED  BY <2>1, <1>0 DEF COPYFILTER0
<1>2. high \in Register(COPYFILTER1, 0) .. Register(COPYFILTER1, Bit18 - 1)
  <2>1. high = Register(COPYFILTER1, 0)
    BY DEF FilterInit
  <2> QED  BY <2>1, <1>0 DEF COPYFILTER1
<1> QED
  BY <1>1, <1>2 DEF FilterInit, FilterIInv, FilterTypeOK, FilterLoaded, FilterPredicted, Black, Byte

(* Every step keeps the invariant. *)
LEMMA FilterNextIInv == FilterIInv /\ [FilterNext]_filterVars => FilterIInv'
<1> SUFFICES ASSUME FilterIInv, [FilterNext]_filterVars PROVE FilterIInv'
  OBVIOUS
<1> USE DEF FilterIInv
<1>0. ctx \in Filters
  BY DEF FilterTypeOK, Filters
<1>1. ASSUME NEW sum \in Sums, NEW flags \in 2 .. 15, CopyFilterTest(sum, flags) PROVE FilterIInv'
  <2>1. ctx' \in Filters
    BY <1>1, SumsFit, ContextFits DEF CopyFilterTest
  <2>2. FilterTypeOK'
    BY <1>1, <2>1, RegistersFit DEF CopyFilterTest, SetCopyFilter, FilterTypeOK, Filters
  <2> QED  BY <1>1, <2>2 DEF CopyFilterTest, SetCopyFilter, FilterLoaded, FilterPredicted
<1>2. ASSUME NEW column \in Columns, Copy(column) PROVE FilterIInv'
  <2>1. PrevWeights = ctx.prev /\ CurWeights = ctx.cur /\ NextWeights = ctx.next
    BY <1>0, <1>2, Weights DEF Copy, FilterLoaded
  <2>2. Filtered(column, [prev |-> PrevWeights, cur |-> CurWeights, next |-> NextWeights])
            = Filtered(column, ctx)
    BY <2>1 DEF Filtered, Raw
  <2>3. actual' = Predict(column, ctx)
    BY <1>2, <2>2 DEF Copy, Predict
  <2>4. actual' \in [r : Byte, g : Byte, b : Byte]
    <3> DEFINE p == Filtered(column, ctx)
    <3> HIDE DEF p
    <3>1. column \in Byte
      BY ColumnsAreBytes DEF Byte
    <3>2. p \in [r : Byte, g : Byte, b : Byte]
      BY <1>0, <3>1, FilteredIsByte DEF p
    <3>3. Stored(Intensity(p.r, p.g, p.b)) \in [r : Byte, g : Byte, b : Byte]
      <4>1. /\ Intensity(p.r, p.g, p.b).r \in 16 .. 235
            /\ Intensity(p.r, p.g, p.b).g \in 16 .. 240
            /\ Intensity(p.r, p.g, p.b).b \in 16 .. 240
        BY <3>2, NominalRange
      <4> QED  BY <4>1 DEF Stored, Byte
    <3> QED  BY <2>3, <3>2, <3>3 DEF Predict, p
  <2>5. FilterTypeOK'
    BY <1>2, <2>4, ColumnsAreBytes DEF Copy, FilterTypeOK, Byte
  <2> QED  BY <1>2, <2>3, <2>5 DEF Copy, FilterLoaded, FilterPredicted
<1>3. CASE Compare
  BY <1>3 DEF Compare, FilterTypeOK, FilterLoaded, FilterPredicted, Black, Byte
<1>4. CASE UNCHANGED filterVars
  BY <1>4 DEF filterVars, FilterTypeOK, FilterLoaded, FilterPredicted
<1> QED
  BY <1>1, <1>2, <1>3, <1>4 DEF FilterNext

(* The invariant holds in every reachable state. *)
THEOREM FilterInvariance == FilterSpec => []FilterIInv
  BY FilterInitIInv, FilterNextIInv, PTL DEF FilterSpec

-----------------------------------------------------------------------------
(* No field of a filter register runs into another or into its number. *)
THEOREM FilterTypeCorrect == FilterSpec => []FilterTypeOK
<1>1. FilterIInv => FilterTypeOK
  BY DEF FilterIInv
<1> QED  BY <1>1, FilterInvariance, PTL

(* The weights make the copy that the sums predict, for all sums and columns. *)
THEOREM Predicted == FilterSpec => []FilterPredicted
<1>1. FilterIInv => FilterPredicted
  BY DEF FilterIInv
<1> QED  BY <1>1, FilterInvariance, PTL

(* An intensity copy keeps to the nominal ranges, for all sums and columns. *)
THEOREM StaysInRange == FilterSpec => []IntensityInRange
<1>1. FilterIInv => IntensityInRange
  <2> SUFFICES ASSUME FilterIInv, doing = "compare", ctx.intensity
               PROVE  actual.r \in 16 .. 235 /\ actual.g \in 16 .. 240 /\ actual.b \in 16 .. 240
    BY DEF IntensityInRange
  <2> DEFINE p == Filtered(col, ctx)
  <2>1. p \in [r : Byte, g : Byte, b : Byte]
    BY FilteredIsByte DEF FilterIInv, FilterTypeOK, Filters
  <2>2. actual = Stored(Intensity(p.r, p.g, p.b))
    BY DEF FilterIInv, FilterPredicted, Predict
  <2> HIDE DEF p
  <2>3. /\ Intensity(p.r, p.g, p.b).r \in 16 .. 235
        /\ Intensity(p.r, p.g, p.b).g \in 16 .. 240
        /\ Intensity(p.r, p.g, p.b).b \in 16 .. 240
    BY <2>1, NominalRange
  <2> DEFINE yuv == Intensity(p.r, p.g, p.b)
  <2>4. yuv.r \in 16 .. 235 /\ yuv.g \in 16 .. 240 /\ yuv.b \in 16 .. 240
    BY <2>3
  <2>5. actual.r = yuv.r % 256 /\ actual.g = yuv.g % 256 /\ actual.b = yuv.b % 256
    BY <2>2 DEF Stored
  <2> HIDE DEF yuv
  <2>6. \A n \in 16 .. 240 : n % 256 = n
    BY SMT
  <2> QED  BY <2>4, <2>5, <2>6
<1> QED  BY <1>1, FilterInvariance, PTL
==============================================================================
