---------------------------- MODULE PictureProofs ----------------------------
(***************************************************************************)
(* Proofs about FrameLayout, for frames of every size and any alignment:   *)
(* no converter leaves the surface, the bitmap or the kernels' buffer; and *)
(* all make the picture: each write of a converter is a write of Nv12Of,   *)
(* and there are no others.  Only BGRtoNV12, of rows with padding, makes   *)
(* another one.                                                            *)
(***************************************************************************)
EXTENDS FrameLayout, TLAPS

-----------------------------------------------------------------------------
(* Arithmetic *)

\* Products keep an order.
LEMMA TimesMonotone ==
    ASSUME NEW a \in Nat, NEW b \in Int, NEW c \in Int, b <= c
    PROVE  a * b <= a * c
  <1>1. PICK k \in Nat : c = b + k
    <2>1. c - b \in Nat /\ c = b + (c - b)
      OBVIOUS
    <2> QED BY <2>1
  <1>2. a * k >= 0
    BY <1>1
  <1>3. a * c = a * b + a * k
    BY <1>1
  <1>4. a * b \in Int /\ a * k \in Int
    BY <1>1
  <1> QED BY <1>2, <1>3, <1>4

\* Column x of row y of a plane lies in the plane.
LEMMA RowMajor ==
    ASSUME NEW pitch \in Nat, NEW rows \in Nat, NEW y \in 0 .. rows - 1, NEW x \in 0 .. pitch - 1
    PROVE  pitch * y + x \in 0 .. pitch * rows - 1
  <1>1. pitch * y <= pitch * (rows - 1)
    BY TimesMonotone
  <1>2. pitch * (rows - 1) = pitch * rows - pitch /\ pitch * rows \in Nat /\ pitch * y \in Nat
    OBVIOUS
  <1> QED BY <1>1, <1>2

\* Rounding up yields the next multiple of a unit.
LEMMA RoundedUpFacts ==
    ASSUME NEW n \in Nat, NEW unit \in Nat, unit > 0
    PROVE  RoundedUp(n, unit) \in Nat /\ RoundedUp(n, unit) >= n
  <1> DEFINE q == (n + unit - 1) \div unit
  <1>1. q \in Int /\ n + unit - 1 < unit * (q + 1) /\ q >= 0
    OBVIOUS
  <1>2. unit * (q + 1) = unit * q + unit /\ unit * q \in Nat /\ q * unit = unit * q
    BY <1>1
  <1> HIDE DEF q
  <1> QED BY <1>1, <1>2 DEF RoundedUp, q
-----------------------------------------------------------------------------
(* Frames that are accepted *)

\* Even sizes, rows of the surface that hold a row of the frame, and room for
\* one and a half as many rows.
LEMMA FrameFacts ==
    ASSUME NEW f, IsFrame(f), CompressQuery(f)
    PROVE  /\ f.width \in Nat /\ f.height \in Nat /\ f.width > 0 /\ f.height > 0
           /\ f.width \div 2 \in Nat /\ f.width = 2 * (f.width \div 2)
           /\ f.height \div 2 \in Nat /\ f.height = 2 * (f.height \div 2)
           /\ AlignedWidth(f) \in Nat /\ AlignedWidth(f) >= f.width
           /\ AlignedWidth(f) * f.height = 2 * (AlignedWidth(f) * (f.height \div 2))
           /\ SurfaceSize(f) \in Nat
           /\ 3 * (AlignedWidth(f) * (f.height \div 2)) <= SurfaceSize(f)
  <1> DEFINE h2    == f.height \div 2
             pitch == AlignedWidth(f)
             rows  == RoundedUp(f.height, HeightAlignment)
  <1>1. f.width \in Nat /\ f.height \in Nat /\ f.width > 0 /\ f.height > 0
    BY DEF IsFrame
  <1>2. f.width \div 2 \in Nat /\ f.width = 2 * (f.width \div 2)
    BY <1>1 DEF CompressQuery
  <1>3. h2 \in Nat /\ f.height = 2 * h2
    BY <1>1 DEF CompressQuery
  <1>4. pitch \in Nat /\ pitch >= f.width
    BY <1>1, RoundedUpFacts, AlignmentAssumption DEF AlignedWidth
  <1>5. rows \in Nat /\ rows >= f.height
    BY <1>1, RoundedUpFacts, AlignmentAssumption
  <1> HIDE DEF h2, pitch, rows
  <1>6. pitch * (2 * h2) <= pitch * rows
    BY <1>3, <1>4, <1>5, TimesMonotone
  <1>7. pitch * (2 * h2) = 2 * (pitch * h2) /\ pitch * rows = rows * pitch
        /\ pitch * h2 \in Nat /\ rows * pitch \in Nat
    BY <1>3, <1>4, <1>5
  <1>8. SurfaceSize(f) = (rows * pitch * 3) \div 2
    BY DEF SurfaceSize, rows, pitch
  <1>9. PICK n \in Nat : n = rows * pitch
    BY <1>7
  <1>10. (n * 3) \div 2 \in Nat /\ 3 * (pitch * h2) <= (n * 3) \div 2
    BY <1>6, <1>7, <1>9
  <1> QED BY <1>1, <1>2, <1>3, <1>4, <1>7, <1>8, <1>9, <1>10 DEF h2, pitch

\* What the samples of a frame may be computed from.
BitmapBytes(f) == 0 .. BitmapSize(f) - 1

Sources(f) ==
    IF IsRgb(f) THEN [r : BitmapBytes(f), g : BitmapBytes(f), b : BitmapBytes(f)]
    ELSE BitmapBytes(f)

Samples(f) == [is : {"Y", "U", "V"}, of : SUBSET Sources(f)]

\* Writes that stay in the surface, of samples that stay in the bitmap.
InsideWrites(f) == (0 .. SurfaceSize(f) - 1) \X Samples(f)

\* A surface is where its writes are.
LEMMA WrittenInside ==
    ASSUME NEW D, NEW V, NEW writes \in SUBSET (D \X V)
    PROVE  /\ DOMAIN Written(writes) \subseteq D
           /\ \A at \in DOMAIN Written(writes) : Written(writes)[at] \in V
  <1>1. DOMAIN Written(writes) = {w[1] : w \in writes}
    BY DEF Written
  <1>2. \A w \in writes : w[1] \in D /\ w[2] \in V
    OBVIOUS
  <1>3. ASSUME NEW at \in DOMAIN Written(writes) PROVE Written(writes)[at] \in V
    <2>1. \E w \in writes : w[1] = at
      BY <1>1
    <2>2. (CHOOSE w \in writes : w[1] = at) \in writes
      BY <2>1
    <2>3. Written(writes)[at] = (CHOOSE w \in writes : w[1] = at)[2]
      BY <1>1 DEF Written
    <2> QED BY <1>2, <2>2, <2>3
  <1> QED BY <1>1, <1>2, <1>3

\* Luma: a column and row of the frame, in the first rows of the surface.
LEMMA LumaInSurface ==
    ASSUME NEW f, IsFrame(f), CompressQuery(f), NEW y \in Y(f), NEW x \in X(f)
    PROVE  AlignedWidth(f) * y + x \in 0 .. SurfaceSize(f) - 1
  <1>1. y \in 0 .. f.height - 1 /\ x \in 0 .. AlignedWidth(f) - 1
    BY FrameFacts DEF X, Y
  <1>2. AlignedWidth(f) * y + x \in 0 .. AlignedWidth(f) * f.height - 1
    BY <1>1, FrameFacts, RowMajor
  <1>3. PICK n \in Nat : n = AlignedWidth(f) * (f.height \div 2)
    BY FrameFacts
  <1> QED BY <1>2, <1>3, FrameFacts

\* Chroma: a pair in one of the rows behind those of luma.
LEMMA ChromaInSurface ==
    ASSUME NEW f, IsFrame(f), CompressQuery(f), NEW y \in HalfY(f), NEW x \in HalfX(f)
    PROVE  LET at == AlignedWidth(f) * f.height + AlignedWidth(f) * y + 2 * x
           IN  at \in 0 .. SurfaceSize(f) - 1 /\ at + 1 \in 0 .. SurfaceSize(f) - 1
  <1>1. y \in 0 .. (f.height \div 2) - 1
        /\ 2 * x \in 0 .. AlignedWidth(f) - 1 /\ 2 * x + 1 \in 0 .. AlignedWidth(f) - 1
    BY FrameFacts DEF HalfX, HalfY
  <1>2. PICK n \in Nat : n = AlignedWidth(f) * (f.height \div 2)
    BY FrameFacts
  <1>3. AlignedWidth(f) * y + 2 * x \in 0 .. n - 1 /\ AlignedWidth(f) * y + (2 * x + 1) \in 0 .. n - 1
    BY <1>1, <1>2, FrameFacts, RowMajor
  <1>4. AlignedWidth(f) * y \in Nat /\ x \in Nat
    BY <1>1, FrameFacts DEF HalfX
  <1> QED BY <1>2, <1>3, <1>4, FrameFacts
-----------------------------------------------------------------------------
(* The bitmap *)

\* The planes of YUV, in quarters of the luma.
LEMMA PlaneFacts ==
    ASSUME NEW f, IsFrame(f), CompressQuery(f)
    PROVE  LET n == (f.width \div 2) * (f.height \div 2)
           IN  /\ n \in Nat
               /\ f.width * f.height = 4 * n
               /\ ~IsRgb(f) => BitmapSize(f) = 6 * n
  <1> DEFINE w2 == f.width \div 2
             h2 == f.height \div 2
  <1>1. w2 \in Nat /\ f.width = 2 * w2 /\ h2 \in Nat /\ f.height = 2 * h2
    BY FrameFacts
  <1> HIDE DEF w2, h2
  <1>2. PICK n \in Nat : n = w2 * h2
    BY <1>1
  <1>3. f.width * f.height = 4 * n
    BY <1>1, <1>2
  <1>4. (f.width * f.height * 3) \div 2 = 6 * n
    BY <1>3
  <1> QED BY <1>2, <1>3, <1>4 DEF BitmapSize, w2, h2

\* The rows of RGB are at least as long as their pixels.
LEMMA BitmapHoldsPixels ==
    ASSUME NEW f, IsFrame(f), CompressQuery(f), IsRgb(f)
    PROVE  /\ Bpp(f.format) \in {3, 4}
           /\ f.width * f.height \in Nat
           /\ BitmapSize(f) \in Nat
           /\ Bpp(f.format) * (f.width * f.height) <= BitmapSize(f)
  <1> DEFINE m == f.width * Bpp(f.format)
  <1>1. f.width \in Nat /\ f.height \in Nat /\ Bpp(f.format) \in {3, 4}
    BY FrameFacts DEF Bpp
  <1>2. m \in Nat
    BY <1>1
  <1>3. BitmapStride(f) \in Nat /\ BitmapStride(f) >= m
    BY <1>2, RoundedUpFacts DEF BitmapStride
  <1>4. f.height * m <= f.height * BitmapStride(f)
    BY <1>1, <1>2, <1>3, TimesMonotone
  <1>5. f.height * m = Bpp(f.format) * (f.width * f.height)
    BY <1>1
  <1>6. BitmapSize(f) = f.height * BitmapStride(f) /\ BitmapSize(f) \in Nat
    BY <1>1, <1>3 DEF BitmapSize
  <1> QED BY <1>1, <1>4, <1>5, <1>6

\* The bytes of every pixel, counted without padding.
LEMMA PixelInside ==
    ASSUME NEW f, IsFrame(f), CompressQuery(f), IsRgb(f), NEW n \in 0 .. f.width * f.height - 1
    PROVE  LET p == PixelAt(n * Bpp(f.format), f.rgb)
               pixels == 0 .. Bpp(f.format) * (f.width * f.height) - 1
           IN  /\ p \in [r : pixels, g : pixels, b : pixels]
               /\ p \in Sources(f)
  <1>1. Bpp(f.format) \in {3, 4} /\ f.width * f.height \in Nat /\ BitmapSize(f) \in Nat
        /\ Bpp(f.format) * (f.width * f.height) <= BitmapSize(f)
    BY BitmapHoldsPixels
  <1>2. PICK a \in Nat : a = f.width * f.height
    BY <1>1
  <1>3. \A k \in 0 .. 2 : n * Bpp(f.format) + k \in 0 .. Bpp(f.format) * a - 1
    BY <1>1, <1>2
  <1>4. PixelAt(n * Bpp(f.format), f.rgb) =
            [r |-> n * Bpp(f.format) + (IF f.rgb THEN 0 ELSE 2),
             g |-> n * Bpp(f.format) + 1,
             b |-> n * Bpp(f.format) + (IF f.rgb THEN 2 ELSE 0)]
    BY DEF PixelAt
  <1>5. PixelAt(n * Bpp(f.format), f.rgb) \in
            [r : 0 .. Bpp(f.format) * a - 1, g : 0 .. Bpp(f.format) * a - 1,
             b : 0 .. Bpp(f.format) * a - 1]
    BY <1>3, <1>4
  <1>6. 0 .. Bpp(f.format) * a - 1 \subseteq BitmapBytes(f)
    BY <1>1, <1>2 DEF BitmapBytes
  <1> QED BY <1>2, <1>5, <1>6 DEF Sources
-----------------------------------------------------------------------------
(* The converters on the CPU *)

LEMMA CopiedLumaInside ==
    ASSUME NEW f, IsFrame(f), CompressQuery(f), ~IsRgb(f)
    PROVE  CopiedLuma(f) \subseteq InsideWrites(f)
  <1> SUFFICES ASSUME NEW x \in X(f), NEW h \in Y(f)
               PROVE  <<AlignedWidth(f) * h + x, Luma(f.width * h + x)>> \in InsideWrites(f)
    BY DEF CopiedLuma
  <1>1. AlignedWidth(f) * h + x \in 0 .. SurfaceSize(f) - 1
    BY LumaInSurface
  <1>2. f.width * h + x \in 0 .. f.width * f.height - 1
    BY FrameFacts, RowMajor DEF X, Y
  <1>3. PICK n \in Nat : f.width * f.height = 4 * n /\ BitmapSize(f) = 6 * n
    BY PlaneFacts
  <1>4. f.width * h + x \in Sources(f)
    BY <1>2, <1>3 DEF Sources, BitmapBytes
  <1> QED BY <1>1, <1>4 DEF InsideWrites, Samples, Luma

LEMMA Yv12Inside ==
    ASSUME NEW f, IsFrame(f), CompressQuery(f), ~IsRgb(f)
    PROVE  yv12ToNV12(f) \subseteq InsideWrites(f)
  <1> DEFINE w2     == f.width \div 2
             first  == f.width * f.height
             second == first + w2 * (f.height \div 2)
             at(i, h) == AlignedWidth(f) * f.height + AlignedWidth(f) * h + 2 * i
  <1>1. PICK n \in Nat : /\ n = w2 * (f.height \div 2)
                         /\ f.width * f.height = 4 * n /\ BitmapSize(f) = 6 * n
    BY PlaneFacts
  <1>2. ASSUME NEW i \in HalfX(f), NEW h \in HalfY(f)
        PROVE  {<<at(i, h), Chroma("U", {second + w2 * h + i})>>,
                <<at(i, h) + 1, Chroma("V", {first + w2 * h + i})>>} \subseteq InsideWrites(f)
    <2>1. at(i, h) \in 0 .. SurfaceSize(f) - 1 /\ at(i, h) + 1 \in 0 .. SurfaceSize(f) - 1
      BY ChromaInSurface
    <2>2. w2 * h + i \in 0 .. n - 1
      BY <1>1, FrameFacts, RowMajor DEF HalfX, HalfY
    <2>3. w2 * h \in Int /\ i \in Int
      BY FrameFacts DEF HalfX, HalfY
    <2>4. second + w2 * h + i \in Sources(f) /\ first + w2 * h + i \in Sources(f)
      BY <1>1, <2>2, <2>3 DEF Sources, BitmapBytes
    <2> HIDE DEF at, w2, first, second
    <2> QED BY <2>1, <2>4 DEF InsideWrites, Samples, Chroma
  <1> DEFINE pair(i, h) == {<<at(i, h), Chroma("U", {second + w2 * h + i})>>,
                            <<at(i, h) + 1, Chroma("V", {first + w2 * h + i})>>}
             chroma == UNION {pair(i, h) : i \in HalfX(f), h \in HalfY(f)}
  <1>3. yv12ToNV12(f) = CopiedLuma(f) \cup chroma
    BY DEF yv12ToNV12
  <1>4. \A i \in HalfX(f), h \in HalfY(f) : pair(i, h) \subseteq InsideWrites(f)
    BY <1>2
  <1> HIDE DEF pair
  <1>5. chroma \subseteq InsideWrites(f)
    BY <1>4
  <1> QED BY <1>3, <1>5, CopiedLumaInside

LEMMA Nv12Inside ==
    ASSUME NEW f, IsFrame(f), CompressQuery(f), ~IsRgb(f)
    PROVE  nv12ToNV12Aligned(f) \subseteq InsideWrites(f)
  <1> DEFINE h2 == f.height \div 2
  <1>1. PICK n \in Nat : /\ n = (f.width \div 2) * h2
                         /\ f.width * f.height = 4 * n /\ BitmapSize(f) = 6 * n
    BY PlaneFacts
  <1>2. ASSUME NEW x \in X(f), NEW h \in HalfY(f)
        PROVE  <<AlignedWidth(f) * (f.height + h) + x,
                 Chroma(IF x % 2 = 0 THEN "U" ELSE "V", {f.width * (f.height + h) + x})>>
               \in InsideWrites(f)
    <2>1. f.height + h \in 0 .. 3 * h2 - 1 /\ 3 * h2 \in Nat
          /\ x \in 0 .. f.width - 1 /\ x \in 0 .. AlignedWidth(f) - 1
      BY FrameFacts DEF X, HalfY
    <2>2. AlignedWidth(f) * (f.height + h) + x \in 0 .. AlignedWidth(f) * (3 * h2) - 1
      BY <2>1, FrameFacts, RowMajor
    <2>3. AlignedWidth(f) * (3 * h2) = 3 * (AlignedWidth(f) * h2)
      BY FrameFacts
    <2>4. AlignedWidth(f) * (f.height + h) + x \in 0 .. SurfaceSize(f) - 1
      BY <2>2, <2>3, FrameFacts
    <2>5. f.width * (f.height + h) + x \in 0 .. f.width * (3 * h2) - 1
      BY <2>1, FrameFacts, RowMajor
    <2>6. f.width * (3 * h2) = 6 * n
      BY <1>1, FrameFacts
    <2>7. f.width * (f.height + h) + x \in Sources(f)
      BY <1>1, <2>5, <2>6 DEF Sources, BitmapBytes
    <2> QED BY <2>4, <2>7 DEF InsideWrites, Samples, Chroma
  <1> DEFINE write(x, h) == <<AlignedWidth(f) * (f.height + h) + x,
                              Chroma(IF x % 2 = 0 THEN "U" ELSE "V",
                                     {f.width * (f.height + h) + x})>>
             chroma == {write(x, h) : x \in X(f), h \in HalfY(f)}
  <1>3. nv12ToNV12Aligned(f) = CopiedLuma(f) \cup chroma
    BY DEF nv12ToNV12Aligned
  <1>4. \A x \in X(f), h \in HalfY(f) : write(x, h) \in InsideWrites(f)
    BY <1>2
  <1> HIDE DEF write
  <1>5. chroma \subseteq InsideWrites(f)
    BY <1>4
  <1> QED BY <1>3, <1>5, CopiedLumaInside

\* The pixel in a column and row, counted from the first byte of the bitmap.
LEMMA CpuPixelInside ==
    ASSUME NEW f, IsFrame(f), CompressQuery(f), IsRgb(f), NEW y \in Y(f), NEW x \in X(f)
    PROVE  CpuPixel(f, x, y) \in Sources(f)
  <1>1. y * f.width + x \in 0 .. f.width * f.height - 1
    <2>1. f.width * y + x \in 0 .. f.width * f.height - 1
      BY FrameFacts, RowMajor DEF X, Y
    <2>2. f.width * y = y * f.width
      BY FrameFacts DEF Y
    <2> QED BY <2>1, <2>2
  <1> QED BY <1>1, PixelInside DEF CpuPixel

\* The four pixels of a pair are in the frame.
LEMMA BoxInFrame ==
    ASSUME NEW f, IsFrame(f), CompressQuery(f), NEW y \in HalfY(f), NEW x \in HalfX(f),
           NEW i \in {0, 1}, NEW j \in {0, 1}
    PROVE  2 * x + i \in X(f) /\ 2 * y + j \in Y(f)
  BY FrameFacts DEF X, Y, HalfX, HalfY

\* Row y from the bottom is a row.
LEMMA Flipped ==
    ASSUME NEW f, IsFrame(f), CompressQuery(f)
    PROVE  /\ \A y \in Y(f) : f.height - y - 1 \in Y(f)
           /\ \A y \in HalfY(f) : (f.height \div 2) - y - 1 \in HalfY(f)
  BY FrameFacts DEF Y, HalfY

\* A pair of chroma bytes of pixels of the bitmap.
LEMMA PairInside ==
    ASSUME NEW f, IsRgb(f), NEW at, NEW pixels \in SUBSET Sources(f),
           at \in 0 .. SurfaceSize(f) - 1, at + 1 \in 0 .. SurfaceSize(f) - 1
    PROVE  Pair(at, <<"U", "V">>, pixels) \subseteq InsideWrites(f)
  BY DEF Pair, InsideWrites, Samples, Chroma

LEMMA BgrInside ==
    ASSUME NEW f, IsFrame(f), CompressQuery(f), IsRgb(f)
    PROVE  BGRtoNV12(f) \subseteq InsideWrites(f)
  <1> DEFINE pitch == AlignedWidth(f)
             uv    == pitch * f.height
  <1>1. ASSUME NEW x \in X(f), NEW y \in Y(f)
        PROVE  <<pitch * (f.height - y - 1) + x, Luma(CpuPixel(f, x, y))>> \in InsideWrites(f)
    <2>1. pitch * (f.height - y - 1) + x \in 0 .. SurfaceSize(f) - 1
      BY Flipped, LumaInSurface
    <2>2. CpuPixel(f, x, y) \in Sources(f)
      BY CpuPixelInside
    <2> QED BY <2>1, <2>2 DEF InsideWrites, Samples, Luma
  <1>2. ASSUME NEW x \in HalfX(f), NEW y \in HalfY(f)
        PROVE  Pair(uv + pitch * ((f.height \div 2) - y - 1) + 2 * x, <<"U", "V">>,
                    {CpuPixel(f, 2 * x + i, 2 * y + j) : i \in {0, 1}, j \in {0, 1}})
               \subseteq InsideWrites(f)
    <2>1. LET at == uv + pitch * ((f.height \div 2) - y - 1) + 2 * x
          IN  at \in 0 .. SurfaceSize(f) - 1 /\ at + 1 \in 0 .. SurfaceSize(f) - 1
      BY Flipped, ChromaInSurface
    <2>2. {CpuPixel(f, 2 * x + i, 2 * y + j) : i \in {0, 1}, j \in {0, 1}} \in SUBSET Sources(f)
      <3>1. \A i \in {0, 1}, j \in {0, 1} : CpuPixel(f, 2 * x + i, 2 * y + j) \in Sources(f)
        BY BoxInFrame, CpuPixelInside
      <3> QED BY <3>1
    <2> HIDE DEF uv, pitch
    <2> QED BY <2>1, <2>2, PairInside
  <1> DEFINE write(x, y) == <<pitch * (f.height - y - 1) + x, Luma(CpuPixel(f, x, y))>>
             pair(x, y)  == Pair(uv + pitch * ((f.height \div 2) - y - 1) + 2 * x, <<"U", "V">>,
                                 {CpuPixel(f, 2 * x + i, 2 * y + j) : i \in {0, 1}, j \in {0, 1}})
             luma   == {write(x, y) : x \in X(f), y \in Y(f)}
             chroma == UNION {pair(x, y) : x \in HalfX(f), y \in HalfY(f)}
  <1>3. BGRtoNV12(f) = luma \cup chroma
    BY DEF BGRtoNV12
  <1>4. /\ \A x \in X(f), y \in Y(f) : write(x, y) \in InsideWrites(f)
        /\ \A x \in HalfX(f), y \in HalfY(f) : pair(x, y) \subseteq InsideWrites(f)
    BY <1>1, <1>2
  <1> HIDE DEF write, pair
  <1>5. luma \subseteq InsideWrites(f) /\ chroma \subseteq InsideWrites(f)
    BY <1>4
  <1> QED BY <1>3, <1>5
-----------------------------------------------------------------------------
(* The kernels *)

\* The buffer of the kernels holds the pixels without padding, is not copied
\* past its end, and gets bytes of the bitmap.  For the even widths that
\* CompressQuery lets through, adding the remainder of a row rounds it up.
LEMMA UploadedFacts ==
    ASSUME NEW f, IsFrame(f), CompressQuery(f), IsRgb(f)
    PROVE  /\ DOMAIN Uploaded(f) \subseteq 0 .. input_size(f) - 1
           /\ 0 .. Bpp(f.format) * (f.width * f.height) - 1 \subseteq DOMAIN Uploaded(f)
           /\ \A at \in DOMAIN Uploaded(f) : Uploaded(f)[at] \in BitmapBytes(f)
  <1> DEFINE m   == mapStride(f)
             all == Bpp(f.format) * (f.width * f.height)
  <1>1. /\ f.width \in Nat /\ f.height \in Nat /\ f.width > 0 /\ f.height > 0
        /\ f.width = 2 * (f.width \div 2) /\ f.width \div 2 \in Nat
        /\ Bpp(f.format) \in {3, 4} /\ BitmapSize(f) \in Nat /\ all <= BitmapSize(f)
    BY FrameFacts, BitmapHoldsPixels
  <1>2. m \in Nat /\ m > 0 /\ m = f.width * Bpp(f.format) /\ all = m * f.height /\ all \in Nat
    BY <1>1 DEF mapStride
  <1>3. /\ f.width * f.height * Bpp(f.format) = all
        /\ m % 4 \in 0 .. 3
        /\ (m % 4) * f.height \in Nat
        /\ input_size(f) = all + (m % 4) * f.height
    BY <1>1, <1>2 DEF input_size
  <1>4. CASE f.format = "rgb32" \/ ~needsDestriding(f)
    <2>1. m % 4 = 0
      BY <1>1, <1>2, <1>4 DEF needsDestriding, Bpp
    <2>2. input_size(f) = all
      BY <1>1, <1>3, <2>1
    <2>3. Uploaded(f) = [at \in 0 .. all - 1 |-> at]
      BY <1>4, <2>2 DEF Uploaded
    <2>4. all \in Nat /\ all <= BitmapSize(f) /\ BitmapSize(f) \in Nat
      BY <1>1, <1>2
    <2> HIDE DEF all
    <2>5. DOMAIN Uploaded(f) = 0 .. all - 1 /\ \A at \in 0 .. all - 1 : Uploaded(f)[at] = at
      BY <2>3
    <2>6. \A at \in DOMAIN Uploaded(f) : Uploaded(f)[at] \in BitmapBytes(f)
      BY <2>4, <2>5 DEF BitmapBytes
    <2>7. DOMAIN Uploaded(f) \subseteq 0 .. input_size(f) - 1
      BY <2>2, <2>5
    <2> QED BY <2>5, <2>6, <2>7 DEF all
  <1>5. CASE ~ (f.format = "rgb32" \/ ~needsDestriding(f))
    <2>1. f.format = "rgb24" /\ m % 4 # 0 /\ Bpp(f.format) = 3
      BY <1>5 DEF IsRgb, needsDestriding, Bpp
    <2>2. m % 4 = 2
      <3>1. PICK w \in Nat : f.width = 2 * w
        BY <1>1
      <3>2. m = 6 * w
        BY <1>2, <2>1, <3>1
      <3> HIDE DEF m
      <3> QED BY <2>1, <3>2
    <2>3. bmpStride(f) = m + 2
      BY <2>2 DEF bmpStride
    <2>4. BitmapStride(f) = m + 2
      BY <1>2, <2>2 DEF BitmapStride, RoundedUp
    <2>5. BitmapSize(f) = (m + 2) * f.height
      BY <2>4 DEF BitmapSize
    <2>6. Uploaded(f) = [at \in 0 .. all - 1 |-> (at \div m) * (m + 2) + (at % m)]
      BY <1>2, <1>5, <2>3 DEF Uploaded
    <2>7. ASSUME NEW at \in 0 .. all - 1
          PROVE  (at \div m) * (m + 2) + (at % m) \in BitmapBytes(f)
      <3> HIDE DEF m, all
      <3>1. at \div m \in Nat /\ at % m \in 0 .. m - 1 /\ m * (at \div m) <= at
        BY <1>2
      <3>2. at \div m <= f.height - 1
        <4>1. SUFFICES ASSUME at \div m >= f.height PROVE FALSE
          BY <1>1, <3>1
        <4>2. m * f.height <= m * (at \div m)
          BY <1>1, <1>2, <3>1, <4>1, TimesMonotone
        <4> QED BY <1>1, <1>2, <3>1, <4>2
      <3>3. (m + 2) * (at \div m) + (at % m) \in 0 .. (m + 2) * f.height - 1
        <4>1. m + 2 \in Nat /\ at \div m \in 0 .. f.height - 1 /\ at % m \in 0 .. (m + 2) - 1
          BY <1>1, <1>2, <3>1, <3>2
        <4> QED BY <1>1, <4>1, RowMajor
      <3>4. (m + 2) * (at \div m) = (at \div m) * (m + 2)
        BY <1>2, <3>1
      <3> QED BY <2>5, <3>3, <3>4 DEF BitmapBytes
    <2> HIDE DEF m, all
    <2>8. DOMAIN Uploaded(f) = 0 .. all - 1
      BY <2>6
    <2>9. 0 .. all - 1 \subseteq 0 .. input_size(f) - 1
      BY <1>2, <1>3
    <2>10. \A at \in DOMAIN Uploaded(f) : Uploaded(f)[at] \in BitmapBytes(f)
      BY <2>6, <2>7, <2>8
    <2> QED BY <2>8, <2>9, <2>10 DEF all
  <1> QED BY <1>4, <1>5

\* A pixel of the buffer is computed from bytes of the bitmap.
LEMMA KernelPixelInside ==
    ASSUME NEW f, IsFrame(f), CompressQuery(f), IsRgb(f), NEW n \in 0 .. f.width * f.height - 1
    PROVE  KernelPixel(f, n) \in Sources(f)
  <1> DEFINE p   == PixelAt(Bpp(f.format) * n, f.rgb)
             all == 0 .. Bpp(f.format) * (f.width * f.height) - 1
  <1>1. Bpp(f.format) * n = n * Bpp(f.format)
    BY BitmapHoldsPixels
  <1>2. p \in [r : all, g : all, b : all]
    BY <1>1, PixelInside
  <1>3. \A at \in all : Uploaded(f)[at] \in BitmapBytes(f)
    BY UploadedFacts
  <1> HIDE DEF p, all
  <1>4. KernelPixel(f, n) = [r |-> Uploaded(f)[p.r], g |-> Uploaded(f)[p.g], b |-> Uploaded(f)[p.b]]
    BY DEF KernelPixel, p
  <1> QED BY <1>2, <1>3, <1>4 DEF Sources

LEMMA KernelsInside ==
    ASSUME NEW f, IsFrame(f), CompressQuery(f), IsRgb(f)
    PROVE  ConvertedByOpenCL(f) \subseteq InsideWrites(f)
  <1> DEFINE pitch == AlignedWidth(f)
  <1>1. ASSUME NEW x \in X(f), NEW y \in Y(f) PROVE KernelY(f, x, y) \in InsideWrites(f)
    <2>1. pitch * (f.height - y - 1) + x \in 0 .. SurfaceSize(f) - 1
      BY Flipped, LumaInSurface
    <2>2. x + (f.height - y - 1) * pitch = pitch * (f.height - y - 1) + x
      BY FrameFacts DEF X, Y
    <2>3. x + f.width * y \in 0 .. f.width * f.height - 1
      <3>1. f.width * y + x \in 0 .. f.width * f.height - 1
        BY FrameFacts, RowMajor DEF X, Y
      <3>2. f.width * y + x = x + f.width * y
        BY FrameFacts DEF X, Y
      <3> QED BY <3>1, <3>2
    <2>4. KernelPixel(f, x + f.width * y) \in Sources(f)
      BY <2>3, KernelPixelInside
    <2> QED BY <2>1, <2>2, <2>4 DEF KernelY, InsideWrites, Samples, Luma
  <1>2. ASSUME NEW x \in HalfX(f), NEW y \in HalfY(f)
        PROVE  KernelUV(f, x, y) \subseteq InsideWrites(f)
    <2> DEFINE src == 2 * x + f.width * y * 2
               yy  == (f.height \div 2) - y - 1
               at  == pitch * f.height + yy * pitch + 2 * x
               box == {KernelPixel(f, n) : n \in {src, src + 1, src + f.width, src + f.width + 1}}
    <2>1. 2 * (f.width \div 2) = f.width /\ 2 * (f.height \div 2) = f.height
      BY FrameFacts
    <2>2. KernelUV(f, x, y) = Pair(at, <<"U", "V">>, box)
      BY <2>1 DEF KernelUV
    <2>3. yy * pitch = pitch * yy
      BY FrameFacts DEF HalfY
    <2>4. at \in 0 .. SurfaceSize(f) - 1 /\ at + 1 \in 0 .. SurfaceSize(f) - 1
      BY <2>3, Flipped, ChromaInSurface
    <2>5. ASSUME NEW i \in {0, 1}, NEW j \in {0, 1}
          PROVE  src + f.width * j + i \in 0 .. f.width * f.height - 1
      <3>1. 2 * x + i \in 0 .. f.width - 1 /\ 2 * y + j \in 0 .. f.height - 1
        BY BoxInFrame DEF X, Y
      <3>2. f.width * (2 * y + j) + (2 * x + i) \in 0 .. f.width * f.height - 1
        BY <3>1, FrameFacts, RowMajor
      <3>3. f.width * (2 * y + j) + (2 * x + i) = src + f.width * j + i
        BY FrameFacts DEF HalfX, HalfY
      <3> QED BY <3>2, <3>3
    <2>6. src \in Int /\ f.width \in Int
      BY FrameFacts DEF HalfX, HalfY
    <2>7. \A n \in {src, src + 1, src + f.width, src + f.width + 1} : n \in 0 .. f.width * f.height - 1
      <3> HIDE DEF src
      <3>1. src + f.width * 0 + 0 = src /\ src + f.width * 0 + 1 = src + 1
            /\ src + f.width * 1 + 0 = src + f.width /\ src + f.width * 1 + 1 = src + f.width + 1
        BY <2>6
      <3>2. /\ src + f.width * 0 + 0 \in 0 .. f.width * f.height - 1
            /\ src + f.width * 0 + 1 \in 0 .. f.width * f.height - 1
            /\ src + f.width * 1 + 0 \in 0 .. f.width * f.height - 1
            /\ src + f.width * 1 + 1 \in 0 .. f.width * f.height - 1
        BY <2>5
      <3> QED BY <3>1, <3>2
    <2>8. box \in SUBSET Sources(f)
      BY <2>7, KernelPixelInside
    <2> HIDE DEF at, box
    <2> QED BY <2>2, <2>4, <2>8, PairInside
  <1> QED BY <1>1, <1>2 DEF ConvertedByOpenCL

-----------------------------------------------------------------------------
\* Whatever converter a frame is sent through, its writes stay in the surface
\* and its samples come from the bitmap.
THEOREM ConvertedInside ==
    ASSUME NEW f, IsFrame(f), CompressQuery(f)
    PROVE  /\ DOMAIN Converted(f) \subseteq 0 .. SurfaceSize(f) - 1
           /\ \A at \in DOMAIN Converted(f) : Converted(f)[at] \in Samples(f)
  <1> DEFINE writes == IF IsRgb(f)
                       THEN (IF f.opencl THEN ConvertedByOpenCL(f) ELSE BGRtoNV12(f))
                       ELSE IF f.format = "nv12" THEN nv12ToNV12Aligned(f) ELSE yv12ToNV12(f)
  <1>1. writes \subseteq InsideWrites(f)
    BY KernelsInside, BgrInside, Nv12Inside, Yv12Inside
  <1>2. Converted(f) = Written(writes)
    BY DEF Converted
  <1> DEFINE offsets == 0 .. SurfaceSize(f) - 1
             samples == Samples(f)
  <1> HIDE DEF writes
  <1>3. writes \in SUBSET (offsets \X samples)
    BY <1>1 DEF InsideWrites
  <1> HIDE DEF offsets, samples
  <1>4. /\ DOMAIN Written(writes) \subseteq offsets
        /\ \A at \in DOMAIN Written(writes) : Written(writes)[at] \in samples
    BY <1>3, WrittenInside, Zenon
  <1> QED BY <1>2, <1>4 DEF offsets, samples
-----------------------------------------------------------------------------
(* The picture *)

\* The writes of Nv12Of.
PictureWrite(f, x, y) == <<AlignedWidth(f) * y + x, PictureLuma(f, x, y)>>

PicturePair(f, x, y) ==
    {<<AlignedWidth(f) * (f.height + y) + 2 * x, PictureChroma(f, "U", x, y)>>,
     <<AlignedWidth(f) * (f.height + y) + 2 * x + 1, PictureChroma(f, "V", x, y)>>}

PictureLumas(f) == {PictureWrite(f, x, y) : x \in X(f), y \in Y(f)}

PicturePairs(f) == {PicturePair(f, x, y) : x \in HalfX(f), y \in HalfY(f)}

PictureWrites(f) == PictureLumas(f) \cup UNION PicturePairs(f)

LEMMA PictureIsWritten ==
    ASSUME NEW f
    PROVE  Nv12Of(f) = Written(PictureWrites(f))
  BY DEF Nv12Of, PictureWrites, PictureLumas, PicturePairs, PictureWrite, PicturePair

-----------------------------------------------------------------------------
(* Pixels *)

\* A place in a buffer of rows is the row's number and the place in the row.
LEMMA DivisionByRow ==
    ASSUME NEW m \in Nat, NEW y \in Nat, NEW k \in 0 .. m - 1
    PROVE  (m * y + k) \div m = y /\ (m * y + k) % m = k
  <1> DEFINE at == m * y + k
             q  == at \div m
             r  == at % m
  <1>1. m > 0 /\ m * y \in Nat /\ at \in Nat
    OBVIOUS
  <1>2. q \in Int /\ r \in 0 .. m - 1 /\ at = m * q + r
    BY <1>1
  <1>3. m * y \in Int /\ m * q \in Int
    BY <1>2
  <1> HIDE DEF q, r
  <1>4. ~ (q <= y - 1)
    <2> SUFFICES ASSUME q <= y - 1 PROVE FALSE
      OBVIOUS
    <2>1. m * q <= m * (y - 1)
      BY <1>2, TimesMonotone
    <2>2. m * (y - 1) = m * y - m
      OBVIOUS
    <2> QED BY <2>1, <2>2, <1>2, <1>3
  <1>5. ~ (y + 1 <= q)
    <2> SUFFICES ASSUME y + 1 <= q PROVE FALSE
      OBVIOUS
    <2>1. m * (y + 1) <= m * q
      BY <1>2, TimesMonotone
    <2>2. m * (y + 1) = m * y + m
      OBVIOUS
    <2> QED BY <2>1, <2>2, <1>2, <1>3
  <1>6. q = y
    BY <1>2, <1>4, <1>5
  <1>7. r = k
    BY <1>2, <1>3, <1>6
  <1> QED BY <1>6, <1>7 DEF q, r

\* Row y of the bitmap, from its first byte.
LEMMA PixelOfRow ==
    ASSUME NEW f, IsFrame(f), CompressQuery(f), NEW x \in X(f), NEW y \in Y(f)
    PROVE  PicturePixel(f, x, f.height - y - 1) =
               PixelAt(y * BitmapStride(f) + x * Bpp(f.format), f.rgb)
  <1>1. f.height - 1 - (f.height - y - 1) = y
    BY FrameFacts DEF Y
  <1> QED BY <1>1 DEF PicturePixel

LEMMA BitmapStrideIsInt ==
    ASSUME NEW f, IsFrame(f), CompressQuery(f)
    PROVE  BitmapStride(f) \in Int
  BY FrameFacts DEF BitmapStride, RoundedUp, Bpp

\* Without padding the CPU takes the pixel that is there.
LEMMA CpuPixelIsThere ==
    ASSUME NEW f, IsFrame(f), CompressQuery(f), IsRgb(f), BitmapStride(f) = mapStride(f),
           NEW x \in X(f), NEW y \in Y(f)
    PROVE  CpuPixel(f, x, y) = PicturePixel(f, x, f.height - y - 1)
  <1>1. f.width \in Nat /\ x \in Nat /\ y \in Nat /\ Bpp(f.format) \in {3, 4}
    BY FrameFacts, BitmapHoldsPixels DEF X, Y
  <1>2. (y * f.width + x) * Bpp(f.format) = y * (f.width * Bpp(f.format)) + x * Bpp(f.format)
    BY <1>1
  <1> QED BY <1>2, PixelOfRow DEF CpuPixel, mapStride

\* What the upload has put at a byte of row y.
LEMMA UploadedRow ==
    ASSUME NEW f, IsFrame(f), CompressQuery(f), IsRgb(f),
           NEW y \in Y(f), NEW k \in 0 .. mapStride(f) - 1
    PROVE  Uploaded(f)[mapStride(f) * y + k] = y * BitmapStride(f) + k
  <1> DEFINE m  == mapStride(f)
             at == m * y + k
  <1>1. /\ f.width \in Nat /\ f.height \in Nat /\ Bpp(f.format) \in {3, 4} /\ y \in 0 .. f.height - 1
        /\ m = f.width * Bpp(f.format) /\ m \in Nat /\ y \in Nat
    BY FrameFacts, BitmapHoldsPixels DEF Y, mapStride
  <1>2. at \in 0 .. m * f.height - 1
    BY <1>1, RowMajor
  <1>3. m * f.height = Bpp(f.format) * (f.width * f.height)
    BY <1>1
  <1>4. at \in DOMAIN Uploaded(f)
    BY <1>2, <1>3, UploadedFacts
  <1>5. CASE f.format = "rgb32" \/ ~needsDestriding(f)
    <2>1. m % 4 = 0
      BY <1>1, <1>5 DEF needsDestriding, Bpp
    <2>2. BitmapStride(f) = m
      BY <1>1, <2>1 DEF BitmapStride, RoundedUp
    <2>3. Uploaded(f)[at] = at
      BY <1>4, <1>5 DEF Uploaded
    <2>4. m * y = y * m
      BY <1>1
    <2> QED BY <2>2, <2>3, <2>4
  <1>6. CASE ~ (f.format = "rgb32" \/ ~needsDestriding(f))
    <2>1. f.format = "rgb24" /\ m % 4 # 0 /\ Bpp(f.format) = 3
      BY <1>6 DEF IsRgb, needsDestriding, Bpp
    <2>2. m % 4 = 2
      <3>1. PICK w \in Nat : f.width = 2 * w
        BY FrameFacts
      <3>2. m = 6 * w
        BY <1>1, <2>1, <3>1
      <3> HIDE DEF m
      <3> QED BY <2>1, <3>2
    <2>3. bmpStride(f) = m + 2 /\ BitmapStride(f) = m + 2
      BY <1>1, <2>2 DEF bmpStride, BitmapStride, RoundedUp
    <2>4. Uploaded(f)[at] = (at \div m) * (m + 2) + (at % m)
      BY <1>4, <1>6, <2>3 DEF Uploaded
    <2>5. at \div m = y /\ at % m = k
      <3>1. k \in 0 .. m - 1
        OBVIOUS
      <3>2. m \in Nat /\ y \in Nat
        BY <1>1
      <3> HIDE DEF m
      <3> QED BY <3>1, <3>2, DivisionByRow, Zenon
    <2> HIDE DEF at
    <2> QED BY <2>3, <2>4, <2>5 DEF at
  <1> QED BY <1>5, <1>6

\* The kernels take the pixel that is there, by way of the upload.
LEMMA KernelPixelIsThere ==
    ASSUME NEW f, IsFrame(f), CompressQuery(f), IsRgb(f), NEW x \in X(f), NEW y \in Y(f)
    PROVE  KernelPixel(f, x + f.width * y) = PicturePixel(f, x, f.height - y - 1)
  <1> DEFINE bpp == Bpp(f.format)
             n   == x + f.width * y
             k   == x * bpp
             src == y * BitmapStride(f) + k
  <1>1. /\ bpp \in {3, 4} /\ f.width \in Nat /\ x \in 0 .. f.width - 1 /\ y \in Nat
    BY FrameFacts, BitmapHoldsPixels DEF X, Y
  <1>2. bpp * n = mapStride(f) * y + k
    BY <1>1 DEF mapStride
  <1>3. ASSUME NEW c \in 0 .. bpp - 1 PROVE Uploaded(f)[bpp * n + c] = src + c
    <2>1. k + c \in 0 .. mapStride(f) - 1
      BY <1>1 DEF mapStride
    <2>2. Uploaded(f)[mapStride(f) * y + (k + c)] = y * BitmapStride(f) + (k + c)
      BY <2>1, UploadedRow
    <2>3. mapStride(f) * y \in Int /\ k \in Int /\ c \in Int /\ y * BitmapStride(f) \in Int
      BY <1>1, BitmapStrideIsInt DEF mapStride
    <2> HIDE DEF k, n
    <2>4. mapStride(f) * y + (k + c) = bpp * n + c /\ y * BitmapStride(f) + (k + c) = src + c
      BY <1>2, <2>3
    <2> QED BY <2>2, <2>4
  <1>4. /\ Uploaded(f)[bpp * n + 0] = src + 0 /\ Uploaded(f)[bpp * n + 1] = src + 1
        /\ Uploaded(f)[bpp * n + 2] = src + 2
    BY <1>1, <1>3
  <1>5. KernelPixel(f, n) = PixelAt(src, f.rgb)
    <2> HIDE DEF n, src
    <2> QED BY <1>4 DEF KernelPixel, PixelAt
  <1> HIDE DEF n
  <1> QED BY <1>5, PixelOfRow DEF n

-----------------------------------------------------------------------------
(* The rows of RGB come from the bottom up *)

\* The pixels of a pair, by the rows of the picture and by those of the bitmap.
Box(f, x, y) == {PicturePixel(f, 2 * x + i, 2 * y + j) : i \in {0, 1}, j \in {0, 1}}

BitmapBox(f, x, y) ==
    {PicturePixel(f, 2 * x + i, f.height - (2 * y + j) - 1) : i \in {0, 1}, j \in {0, 1}}

\* The same writes, by the rows of the bitmap.
BitmapLumas(f) == {PictureWrite(f, x, f.height - y - 1) : x \in X(f), y \in Y(f)}

BitmapPairs(f) ==
    {PicturePair(f, x, (f.height \div 2) - y - 1) : x \in HalfX(f), y \in HalfY(f)}

LEMMA FlippedLuma ==
    ASSUME NEW f, IsFrame(f), CompressQuery(f)
    PROVE  BitmapLumas(f) = PictureLumas(f)
  <1>1. \A y \in Y(f) : f.height - y - 1 \in Y(f) /\ f.height - (f.height - y - 1) - 1 = y
    BY FrameFacts DEF Y
  <1>2. ASSUME NEW x \in X(f), NEW y \in Y(f)
        PROVE  PictureWrite(f, x, y) \in BitmapLumas(f)
    <2>1. PictureWrite(f, x, y) = PictureWrite(f, x, f.height - (f.height - y - 1) - 1)
      BY <1>1
    <2> QED BY <1>1, <2>1 DEF BitmapLumas
  <1>3. ASSUME NEW x \in X(f), NEW y \in Y(f)
        PROVE  PictureWrite(f, x, f.height - y - 1) \in PictureLumas(f)
    BY <1>1 DEF PictureLumas
  <1>4. BitmapLumas(f) \subseteq PictureLumas(f)
    BY <1>3 DEF BitmapLumas
  <1>5. PictureLumas(f) \subseteq BitmapLumas(f)
    BY <1>2 DEF PictureLumas
  <1> QED BY <1>4, <1>5

LEMMA FlippedPairs ==
    ASSUME NEW f, IsFrame(f), CompressQuery(f)
    PROVE  BitmapPairs(f) = PicturePairs(f)
  <1> DEFINE h == f.height \div 2
  <1>1. \A y \in HalfY(f) : h - y - 1 \in HalfY(f) /\ h - (h - y - 1) - 1 = y
    BY FrameFacts DEF HalfY
  <1>2. ASSUME NEW x \in HalfX(f), NEW y \in HalfY(f)
        PROVE  PicturePair(f, x, y) \in BitmapPairs(f)
    <2>1. PicturePair(f, x, y) = PicturePair(f, x, h - (h - y - 1) - 1)
      BY <1>1
    <2> QED BY <1>1, <2>1 DEF BitmapPairs
  <1>3. ASSUME NEW x \in HalfX(f), NEW y \in HalfY(f)
        PROVE  PicturePair(f, x, h - y - 1) \in PicturePairs(f)
    BY <1>1 DEF PicturePairs
  <1>4. BitmapPairs(f) \subseteq PicturePairs(f)
    BY <1>3 DEF BitmapPairs
  <1>5. PicturePairs(f) \subseteq BitmapPairs(f)
    BY <1>2 DEF PicturePairs
  <1> QED BY <1>4, <1>5

\* The two rows of a box change places.
LEMMA FlippedBox ==
    ASSUME NEW f, IsFrame(f), CompressQuery(f), NEW x \in HalfX(f), NEW y \in HalfY(f)
    PROVE  BitmapBox(f, x, y) = Box(f, x, (f.height \div 2) - y - 1)
  <1> DEFINE h == f.height \div 2
             P(i, row) == PicturePixel(f, 2 * x + i, row)
  <1>1. /\ f.height - (2 * y + 0) - 1 = 2 * (h - y - 1) + 1
        /\ f.height - (2 * y + 1) - 1 = 2 * (h - y - 1) + 0
    BY FrameFacts DEF HalfY
  <1>2. ASSUME NEW i \in {0, 1}, NEW j \in {0, 1}
        PROVE  P(i, f.height - (2 * y + j) - 1) = P(i, 2 * (h - y - 1) + (1 - j))
    <2>1. CASE j = 0
      BY <1>1, <2>1
    <2>2. CASE j = 1
      BY <1>1, <2>2
    <2> QED BY <2>1, <2>2
  <1> HIDE DEF P, h
  <1>3. {P(i, f.height - (2 * y + j) - 1) : i \in {0, 1}, j \in {0, 1}}
            = {P(i, 2 * (h - y - 1) + j) : i \in {0, 1}, j \in {0, 1}}
    <2>1. {P(i, f.height - (2 * y + j) - 1) : i \in {0, 1}, j \in {0, 1}}
              = {P(i, 2 * (h - y - 1) + (1 - j)) : i \in {0, 1}, j \in {0, 1}}
      BY <1>2
    <2>2. 1 - 0 = 1 /\ 1 - 1 = 0
      OBVIOUS
    <2> QED BY <2>1, <2>2
  <1> QED BY <1>3 DEF P, h, Box, BitmapBox

-----------------------------------------------------------------------------
(* The converters *)

\* What a converter of RGB writes, when it takes the pixels that are there.
LEMMA FlippedPicture ==
    ASSUME NEW f, IsFrame(f), CompressQuery(f), IsRgb(f), NEW x \in HalfX(f), NEW y \in HalfY(f)
    PROVE  PicturePair(f, x, (f.height \div 2) - y - 1) =
               Pair(AlignedWidth(f) * f.height + AlignedWidth(f) * ((f.height \div 2) - y - 1) + 2 * x,
                    <<"U", "V">>, BitmapBox(f, x, y))
  <1> DEFINE yy == (f.height \div 2) - y - 1
  <1>1. BitmapBox(f, x, y) = Box(f, x, yy)
    BY FlippedBox
  <1>2. PictureChroma(f, "U", x, yy) = Chroma("U", Box(f, x, yy))
        /\ PictureChroma(f, "V", x, yy) = Chroma("V", Box(f, x, yy))
    <2> HIDE DEF yy
    <2> QED BY DEF PictureChroma, Box
  <1>3. AlignedWidth(f) * (f.height + yy) + 2 * x
            = AlignedWidth(f) * f.height + AlignedWidth(f) * yy + 2 * x
    <2>1. yy \in Int /\ AlignedWidth(f) \in Int /\ f.height \in Int /\ x \in Int
      BY FrameFacts DEF HalfX, HalfY
    <2> HIDE DEF yy
    <2> QED BY <2>1
  <1>4. PicturePair(f, x, yy) =
            Pair(AlignedWidth(f) * f.height + AlignedWidth(f) * yy + 2 * x, <<"U", "V">>,
                 Box(f, x, yy))
    <2> HIDE DEF yy
    <2> QED BY <1>2, <1>3 DEF PicturePair, Pair
  <1> QED BY <1>1, <1>4

LEMMA BgrIsPicture ==
    ASSUME NEW f, IsFrame(f), CompressQuery(f), IsRgb(f), BitmapStride(f) = mapStride(f)
    PROVE  BGRtoNV12(f) = PictureWrites(f)
  <1> DEFINE pitch == AlignedWidth(f)
             uv    == pitch * f.height
             luma(x, y) == <<pitch * (f.height - y - 1) + x, Luma(CpuPixel(f, x, y))>>
             box(x, y)  == {CpuPixel(f, 2 * x + i, 2 * y + j) : i \in {0, 1}, j \in {0, 1}}
             pair(x, y) == Pair(uv + pitch * ((f.height \div 2) - y - 1) + 2 * x, <<"U", "V">>,
                                box(x, y))
             lumas == {luma(x, y) : x \in X(f), y \in Y(f)}
             pairs == {pair(x, y) : x \in HalfX(f), y \in HalfY(f)}
  <1>1. ASSUME NEW x \in X(f), NEW y \in Y(f)
        PROVE  luma(x, y) = PictureWrite(f, x, f.height - y - 1)
    BY CpuPixelIsThere DEF PictureWrite, PictureLuma
  <1>2. ASSUME NEW x \in HalfX(f), NEW y \in HalfY(f)
        PROVE  pair(x, y) = PicturePair(f, x, (f.height \div 2) - y - 1)
    <2>1. \A i \in {0, 1}, j \in {0, 1} :
              CpuPixel(f, 2 * x + i, 2 * y + j) =
                  PicturePixel(f, 2 * x + i, f.height - (2 * y + j) - 1)
      BY BoxInFrame, CpuPixelIsThere
    <2>2. box(x, y) = BitmapBox(f, x, y)
      BY <2>1 DEF BitmapBox
    <2> HIDE DEF box
    <2> QED BY <2>2, FlippedPicture
  <1>3. BGRtoNV12(f) = lumas \cup UNION pairs
    BY DEF BGRtoNV12
  <1> HIDE DEF luma, pair
  <1>4. lumas = BitmapLumas(f)
    BY <1>1 DEF BitmapLumas
  <1>5. pairs = BitmapPairs(f)
    BY <1>2 DEF BitmapPairs
  <1> HIDE DEF lumas, pairs
  <1> QED BY <1>3, <1>4, <1>5, FlippedLuma, FlippedPairs DEF PictureWrites

LEMMA KernelsArePicture ==
    ASSUME NEW f, IsFrame(f), CompressQuery(f), IsRgb(f)
    PROVE  ConvertedByOpenCL(f) = PictureWrites(f)
  <1> DEFINE lumas == {KernelY(f, x, y) : x \in X(f), y \in Y(f)}
             pairs == {KernelUV(f, x, y) : x \in HalfX(f), y \in HalfY(f)}
  <1>1. ASSUME NEW x \in X(f), NEW y \in Y(f)
        PROVE  KernelY(f, x, y) = PictureWrite(f, x, f.height - y - 1)
    <2>1. x + (f.height - y - 1) * AlignedWidth(f) = AlignedWidth(f) * (f.height - y - 1) + x
      BY FrameFacts DEF X, Y
    <2> QED BY <2>1, KernelPixelIsThere DEF KernelY, PictureWrite, PictureLuma
  <1>2. ASSUME NEW x \in HalfX(f), NEW y \in HalfY(f)
        PROVE  KernelUV(f, x, y) = PicturePair(f, x, (f.height \div 2) - y - 1)
    <2> DEFINE w    == f.width
               src  == 2 * x + w * y * 2
               yy   == (f.height \div 2) - y - 1
               at   == AlignedWidth(f) * f.height + yy * AlignedWidth(f) + 2 * x
               P(n) == KernelPixel(f, n)
    <2>1. 2 * (f.width \div 2) = w /\ 2 * (f.height \div 2) = f.height
      BY FrameFacts
    <2>2. KernelUV(f, x, y) =
              Pair(at, <<"U", "V">>, {P(n) : n \in {src, src + 1, src + w, src + w + 1}})
      BY <2>1 DEF KernelUV
    <2>3. /\ src = (2 * x + 0) + w * (2 * y + 0)
          /\ src + 1 = (2 * x + 1) + w * (2 * y + 0)
          /\ src + w = (2 * x + 0) + w * (2 * y + 1)
          /\ src + w + 1 = (2 * x + 1) + w * (2 * y + 1)
      BY FrameFacts DEF HalfX, HalfY
    <2>4. {P(n) : n \in {src, src + 1, src + w, src + w + 1}}
              = {P((2 * x + i) + w * (2 * y + j)) : i \in {0, 1}, j \in {0, 1}}
      <3> HIDE DEF P, src
      <3> QED BY <2>3
    <2>5. \A i \in {0, 1}, j \in {0, 1} :
              P((2 * x + i) + w * (2 * y + j)) =
                  PicturePixel(f, 2 * x + i, f.height - (2 * y + j) - 1)
      BY BoxInFrame, KernelPixelIsThere
    <2>6. {P((2 * x + i) + w * (2 * y + j)) : i \in {0, 1}, j \in {0, 1}} = BitmapBox(f, x, y)
      <3> HIDE DEF P
      <3> QED BY <2>5 DEF BitmapBox
    <2>7. yy * AlignedWidth(f) = AlignedWidth(f) * yy
      BY FrameFacts DEF HalfY
    <2>8. KernelUV(f, x, y) = Pair(at, <<"U", "V">>, BitmapBox(f, x, y))
      <3> HIDE DEF P, src, at
      <3> QED BY <2>2, <2>4, <2>6
    <2> QED BY <2>7, <2>8, FlippedPicture
  <1>3. ConvertedByOpenCL(f) = lumas \cup UNION pairs
    BY DEF ConvertedByOpenCL
  <1>4. lumas = BitmapLumas(f)
    BY <1>1 DEF BitmapLumas
  <1>5. pairs = BitmapPairs(f)
    BY <1>2 DEF BitmapPairs
  <1> HIDE DEF lumas, pairs
  <1> QED BY <1>3, <1>4, <1>5, FlippedLuma, FlippedPairs DEF PictureWrites

\* The luma of YUV is copied.
LEMMA CopiedIsPicture ==
    ASSUME NEW f, IsFrame(f), CompressQuery(f), ~IsRgb(f)
    PROVE  CopiedLuma(f) = PictureLumas(f)
  <1>1. \A x \in X(f), y \in Y(f) :
            PictureWrite(f, x, y) = <<AlignedWidth(f) * y + x, Luma(f.width * y + x)>>
    <2> SUFFICES ASSUME NEW x \in X(f), NEW y \in Y(f)
                 PROVE  PictureLuma(f, x, y) = Luma(f.width * y + x)
      BY DEF PictureWrite
    <2>1. y * f.width = f.width * y
      BY FrameFacts DEF Y
    <2> QED BY <2>1 DEF PictureLuma
  <1> QED BY <1>1 DEF CopiedLuma, PictureLumas

LEMMA Yv12IsPicture ==
    ASSUME NEW f, IsFrame(f), CompressQuery(f), f.format = "yv12"
    PROVE  yv12ToNV12(f) = PictureWrites(f)
  <1> DEFINE w2     == f.width \div 2
             n      == w2 * (f.height \div 2)
             first  == f.width * f.height
             uv     == AlignedWidth(f) * f.height
             pair(i, h) ==
                 {<<uv + AlignedWidth(f) * h + 2 * i, Chroma("U", {first + n + w2 * h + i})>>,
                  <<uv + AlignedWidth(f) * h + 2 * i + 1, Chroma("V", {first + w2 * h + i})>>}
             pairs  == {pair(i, h) : i \in HalfX(f), h \in HalfY(f)}
  <1>1. ASSUME NEW x \in HalfX(f), NEW y \in HalfY(f) PROVE pair(x, y) = PicturePair(f, x, y)
    <2>1. first + n + w2 * y + x = first + n + y * w2 + x
          /\ first + w2 * y + x = first + 0 + y * w2 + x
      BY FrameFacts DEF HalfX, HalfY
    <2>2. AlignedWidth(f) * (f.height + y) + 2 * x = uv + AlignedWidth(f) * y + 2 * x
      BY FrameFacts DEF HalfX, HalfY
    <2>3. PictureChroma(f, "U", x, y) = Chroma("U", {first + n + y * w2 + x})
          /\ PictureChroma(f, "V", x, y) = Chroma("V", {first + 0 + y * w2 + x})
      BY DEF PictureChroma, IsRgb
    <2> QED BY <2>1, <2>2, <2>3 DEF PicturePair
  <1>2. yv12ToNV12(f) = CopiedLuma(f) \cup UNION pairs
    BY DEF yv12ToNV12
  <1> HIDE DEF pair
  <1>3. pairs = PicturePairs(f)
    BY <1>1 DEF PicturePairs
  <1> HIDE DEF pairs
  <1> QED BY <1>2, <1>3, CopiedIsPicture DEF PictureWrites, IsRgb

\* A byte of a row of chroma is the first or the second of a pair.
LEMMA Nv12IsPicture ==
    ASSUME NEW f, IsFrame(f), CompressQuery(f), f.format = "nv12"
    PROVE  nv12ToNV12Aligned(f) = PictureWrites(f)
  <1> DEFINE pitch == AlignedWidth(f)
             byte(x, h) ==
                 <<pitch * (f.height + h) + x,
                   Chroma(IF x % 2 = 0 THEN "U" ELSE "V", {f.width * (f.height + h) + x})>>
             bytes == {byte(x, h) : x \in X(f), h \in HalfY(f)}
  <1>1. ASSUME NEW x \in HalfX(f), NEW y \in HalfY(f)
        PROVE  PicturePair(f, x, y) = {byte(2 * x, y), byte(2 * x + 1, y)}
    <2>1. /\ f.width * (f.height + y) + 2 * x = f.width * f.height + y * f.width + 2 * x + 0
          /\ f.width * (f.height + y) + (2 * x + 1) = f.width * f.height + y * f.width + 2 * x + 1
      BY FrameFacts DEF HalfX, HalfY
    <2>2. pitch * (f.height + y) + (2 * x + 1) = pitch * (f.height + y) + 2 * x + 1
      BY FrameFacts DEF HalfX, HalfY
    <2>3. (2 * x) % 2 = 0 /\ (2 * x + 1) % 2 # 0
      BY FrameFacts DEF HalfX
    <2>4. PictureChroma(f, "U", x, y) = Chroma("U", {f.width * f.height + y * f.width + 2 * x + 0})
          /\ PictureChroma(f, "V", x, y) = Chroma("V", {f.width * f.height + y * f.width + 2 * x + 1})
      BY DEF PictureChroma, IsRgb
    <2> QED BY <2>1, <2>2, <2>3, <2>4 DEF PicturePair
  <1>2. nv12ToNV12Aligned(f) = CopiedLuma(f) \cup bytes
    BY DEF nv12ToNV12Aligned
  <1>3. \A x \in HalfX(f) : 2 * x \in X(f) /\ 2 * x + 1 \in X(f)
    BY FrameFacts DEF X, HalfX
  <1>4. \A x \in X(f) : \E i \in HalfX(f) : x = 2 * i \/ x = 2 * i + 1
    <2> SUFFICES ASSUME NEW x \in X(f) PROVE \E i \in HalfX(f) : x = 2 * i \/ x = 2 * i + 1
      OBVIOUS
    <2>1. x \div 2 \in HalfX(f) /\ (x = 2 * (x \div 2) \/ x = 2 * (x \div 2) + 1)
      BY FrameFacts DEF X, HalfX
    <2> QED BY <2>1
  <1> HIDE DEF byte
  <1>5. bytes \subseteq UNION PicturePairs(f)
    <2> SUFFICES ASSUME NEW x \in X(f), NEW h \in HalfY(f)
                 PROVE  byte(x, h) \in UNION PicturePairs(f)
      OBVIOUS
    <2>1. PICK i \in HalfX(f) : x = 2 * i \/ x = 2 * i + 1
      BY <1>4
    <2>2. byte(x, h) \in PicturePair(f, i, h)
      BY <1>1, <2>1
    <2> QED BY <2>2 DEF PicturePairs
  <1>6. UNION PicturePairs(f) \subseteq bytes
    <2> SUFFICES ASSUME NEW x \in HalfX(f), NEW y \in HalfY(f)
                 PROVE  PicturePair(f, x, y) \subseteq bytes
      BY DEF PicturePairs
    <2>1. byte(2 * x, y) \in bytes /\ byte(2 * x + 1, y) \in bytes
      BY <1>3
    <2> QED BY <1>1, <2>1
  <1> HIDE DEF bytes
  <1> QED BY <1>2, <1>5, <1>6, CopiedIsPicture DEF PictureWrites, IsRgb

-----------------------------------------------------------------------------
(* Rows with padding *)

\* What a set of writes puts at offset 0, if only one of them goes there.
LEMMA WrittenAtOrigin ==
    ASSUME NEW S, NEW v, <<0, v>> \in S, \A w \in S : w[1] = 0 => w[2] = v
    PROVE  Written(S)[0] = v
  <1> DEFINE first == CHOOSE w \in S : w[1] = 0
  <1>1. <<0, v>>[1] = 0
    OBVIOUS
  <1>2. first \in S /\ first[1] = 0
    BY <1>1
  <1>3. 0 \in {w[1] : w \in S}
    BY <1>1
  <1>4. Written(S)[0] = first[2]
    BY <1>3 DEF Written
  <1> QED BY <1>2, <1>4

\* The first byte of the surface is the first of its luma.
LEMMA OriginIsLuma ==
    ASSUME NEW f, IsFrame(f), CompressQuery(f)
    PROVE  /\ \A x \in X(f), y \in Y(f) : AlignedWidth(f) * y + x = 0 => x = 0 /\ y = 0
           /\ \A x \in HalfX(f), y \in HalfY(f) :
                  LET at == AlignedWidth(f) * f.height + AlignedWidth(f) * y + 2 * x
                  IN  at # 0 /\ at + 1 # 0
           /\ 0 \in X(f) /\ 0 \in Y(f) /\ f.height - 1 \in Y(f) /\ f.height - 1 >= 1
  <1> DEFINE pitch == AlignedWidth(f)
  <1>1. pitch \in Nat /\ pitch >= 1
    BY FrameFacts
  <1>2. ASSUME NEW n \in Nat, n >= 1 PROVE pitch * n >= 1
    <2>1. pitch * 1 <= pitch * n
      BY <1>1, <1>2, TimesMonotone
    <2> QED BY <1>1, <2>1
  <1>3. ASSUME NEW x \in X(f), NEW y \in Y(f), pitch * y + x = 0 PROVE x = 0 /\ y = 0
    <2>1. x \in Nat /\ y \in Nat
      BY FrameFacts DEF X, Y
    <2>2. pitch * y \in Nat
      BY <1>1, <2>1
    <2>3. y = 0
      BY <1>2, <1>3, <2>1, <2>2
    <2> QED BY <1>3, <2>1, <2>2, <2>3
  <1>4. ASSUME NEW x \in HalfX(f), NEW y \in HalfY(f)
        PROVE  pitch * f.height + pitch * y + 2 * x >= 1
    <2>1. x \in Nat /\ y \in Nat /\ f.height \in Nat /\ f.height >= 1
      BY FrameFacts DEF HalfX, HalfY
    <2>2. pitch * y \in Nat
      BY <1>1, <2>1
    <2>3. pitch * f.height >= 1 /\ pitch * f.height \in Nat
      BY <1>1, <1>2, <2>1
    <2> QED BY <2>1, <2>2, <2>3
  <1>5. 0 \in X(f) /\ 0 \in Y(f) /\ f.height - 1 \in Y(f) /\ f.height - 1 >= 1
    BY FrameFacts DEF X, Y
  <1>6. \A x \in HalfX(f), y \in HalfY(f) :
            /\ pitch * f.height + pitch * y + 2 * x \in Int
            /\ pitch * f.height + pitch * y + 2 * x # 0
            /\ pitch * f.height + pitch * y + 2 * x + 1 # 0
    <2> SUFFICES ASSUME NEW x \in HalfX(f), NEW y \in HalfY(f)
                 PROVE  /\ pitch * f.height + pitch * y + 2 * x \in Int
                        /\ pitch * f.height + pitch * y + 2 * x # 0
                        /\ pitch * f.height + pitch * y + 2 * x + 1 # 0
      OBVIOUS
    <2>1. pitch * f.height + pitch * y + 2 * x \in Int
      BY <1>1, FrameFacts DEF HalfX, HalfY
    <2> QED BY <2>1, <1>4
  <1> QED BY <1>3, <1>5, <1>6

\* With padding the CPU begins its last row where the bitmap has none.
LEMMA PaddingSkews ==
    ASSUME NEW f, IsFrame(f), CompressQuery(f), IsRgb(f), BitmapStride(f) > mapStride(f)
    PROVE  Written(BGRtoNV12(f)) # Nv12Of(f)
  <1> DEFINE pitch == AlignedWidth(f)
             last  == f.height - 1
  <1>1. /\ f.height \in Nat /\ f.height = 2 * (f.height \div 2) /\ f.height \div 2 \in Nat
        /\ last \in Nat /\ last >= 1 /\ pitch \in Nat
    BY FrameFacts, OriginIsLuma
  <1>2. Written(BGRtoNV12(f))[0] = Luma(CpuPixel(f, 0, last))
    <2> DEFINE luma(x, y) == <<pitch * (f.height - y - 1) + x, Luma(CpuPixel(f, x, y))>>
               box(x, y)  == {CpuPixel(f, 2 * x + i, 2 * y + j) : i \in {0, 1}, j \in {0, 1}}
               at(x, y)   == pitch * f.height + pitch * ((f.height \div 2) - y - 1) + 2 * x
               pair(x, y) == Pair(at(x, y), <<"U", "V">>, box(x, y))
    <2>1. BGRtoNV12(f) = {luma(x, y) : x \in X(f), y \in Y(f)}
                         \cup UNION {pair(x, y) : x \in HalfX(f), y \in HalfY(f)}
      BY DEF BGRtoNV12
    <2>2. luma(0, last) = <<0, Luma(CpuPixel(f, 0, last))>>
      BY <1>1
    <2>3. ASSUME NEW x \in X(f), NEW y \in Y(f), luma(x, y)[1] = 0
          PROVE  luma(x, y)[2] = Luma(CpuPixel(f, 0, last))
      <3>1. x = 0 /\ f.height - y - 1 = 0
        <4>1. pitch * (f.height - y - 1) + x = 0
          BY <2>3
        <4>2. f.height - y - 1 \in Y(f)
          BY Flipped
        <4> QED BY <4>1, <4>2, OriginIsLuma
      <3>2. y = last
        BY <3>1, <1>1 DEF Y
      <3> QED BY <3>1, <3>2
    <2>4. ASSUME NEW x \in HalfX(f), NEW y \in HalfY(f), NEW w \in pair(x, y) PROVE w[1] # 0
      <3>1. at(x, y) # 0 /\ at(x, y) + 1 # 0
        BY Flipped, OriginIsLuma
      <3> HIDE DEF at, box
      <3> QED BY <3>1 DEF Pair
    <2> HIDE DEF luma, pair
    <2>5. <<0, Luma(CpuPixel(f, 0, last))>> \in BGRtoNV12(f)
      BY <2>1, <2>2, OriginIsLuma
    <2>6. \A w \in BGRtoNV12(f) : w[1] = 0 => w[2] = Luma(CpuPixel(f, 0, last))
      BY <2>1, <2>3, <2>4
    <2> QED BY <2>5, <2>6, WrittenAtOrigin
  <1>3. Nv12Of(f)[0] = Luma(PicturePixel(f, 0, 0))
    <2>1. PictureWrite(f, 0, 0) = <<0, Luma(PicturePixel(f, 0, 0))>>
      BY <1>1 DEF PictureWrite, PictureLuma
    <2>2. ASSUME NEW x \in X(f), NEW y \in Y(f), PictureWrite(f, x, y)[1] = 0
          PROVE  PictureWrite(f, x, y)[2] = Luma(PicturePixel(f, 0, 0))
      <3>1. x = 0 /\ y = 0
        BY <2>2, OriginIsLuma DEF PictureWrite
      <3> QED BY <3>1 DEF PictureWrite, PictureLuma
    <2>3. ASSUME NEW x \in HalfX(f), NEW y \in HalfY(f), NEW w \in PicturePair(f, x, y)
          PROVE  w[1] # 0
      <3>1. pitch * (f.height + y) + 2 * x = pitch * f.height + pitch * y + 2 * x
        BY <1>1 DEF HalfX, HalfY
      <3>2. pitch * (f.height + y) + 2 * x # 0 /\ pitch * (f.height + y) + 2 * x + 1 # 0
        BY <3>1, OriginIsLuma
      <3> QED BY <3>2 DEF PicturePair
    <2>4. <<0, Luma(PicturePixel(f, 0, 0))>> \in PictureWrites(f)
      BY <2>1, OriginIsLuma DEF PictureWrites, PictureLumas
    <2>5. \A w \in PictureWrites(f) : w[1] = 0 => w[2] = Luma(PicturePixel(f, 0, 0))
      BY <2>2, <2>3 DEF PictureWrites, PictureLumas, PicturePairs
    <2> QED BY <2>4, <2>5, WrittenAtOrigin, PictureIsWritten
  <1>4. CpuPixel(f, 0, last) # PicturePixel(f, 0, 0)
    <2>1. f.width \in Nat /\ Bpp(f.format) \in {3, 4} /\ BitmapStride(f) \in Int
      BY FrameFacts, BitmapHoldsPixels, BitmapStrideIsInt
    <2>2. CpuPixel(f, 0, last).g = last * mapStride(f) + 1
      <3>1. (last * f.width + 0) * Bpp(f.format) = last * (f.width * Bpp(f.format))
        BY <1>1, <2>1
      <3> QED BY <3>1 DEF CpuPixel, PixelAt, mapStride
    <2>3. PicturePixel(f, 0, 0).g = last * BitmapStride(f) + 1
      <3>1. (f.height - 1 - 0) * BitmapStride(f) + 0 * Bpp(f.format) = last * BitmapStride(f)
        BY <1>1, <2>1
      <3> QED BY <3>1 DEF PicturePixel, PixelAt
    <2>4. mapStride(f) \in Int
      BY <2>1 DEF mapStride
    <2>5. last * (mapStride(f) + 1) <= last * BitmapStride(f)
      BY <1>1, <2>1, <2>4, TimesMonotone
    <2>6. last * (mapStride(f) + 1) = last * mapStride(f) + last
      <3>1. PICK a \in Int : a = last
        BY <1>1
      <3>2. PICK b \in Int : b = mapStride(f)
        BY <2>4
      <3>3. a * (b + 1) = a * b + a
        OBVIOUS
      <3> QED BY <3>1, <3>2, <3>3
    <2>7. last * mapStride(f) \in Int /\ last * BitmapStride(f) \in Int
      BY <1>1, <2>1, <2>4
    <2> QED BY <1>1, <2>2, <2>3, <2>5, <2>6, <2>7
  <1>5. Luma(CpuPixel(f, 0, last)) # Luma(PicturePixel(f, 0, 0))
    BY <1>4 DEF Luma
  <1> QED BY <1>2, <1>3, <1>5

-----------------------------------------------------------------------------
\* For every size and alignment the surface that a converter makes is the
\* picture, unless BGRtoNV12 (OpenEncodeVFW.cpp:572-692) is given rows that the
\* bitmap pads; and then it is not.
THEOREM ConvertedIsPicture ==
    ASSUME NEW f, IsFrame(f), CompressQuery(f)
    PROVE  Converted(f) = Nv12Of(f)
               <=> ~ (f.format = "rgb24" /\ ~f.opencl /\ (3 * f.width) % 4 # 0)
  <1>1. f.format \in {"rgb24", "rgb32", "yv12", "nv12"} /\ f.width \in Nat
    BY DEF IsFrame, Formats
  <1>2. CASE f.format = "nv12"
    BY <1>2, Nv12IsPicture, PictureIsWritten DEF Converted, IsRgb
  <1>3. CASE f.format = "yv12"
    BY <1>3, Yv12IsPicture, PictureIsWritten DEF Converted, IsRgb
  <1>4. CASE IsRgb(f) /\ f.opencl
    BY <1>4, KernelsArePicture, PictureIsWritten DEF Converted
  <1>5. CASE IsRgb(f) /\ ~f.opencl /\ BitmapStride(f) = mapStride(f)
    <2>1. ~ (f.format = "rgb24" /\ (3 * f.width) % 4 # 0)
      BY <1>1, <1>5 DEF BitmapStride, mapStride, RoundedUp, Bpp
    <2> QED BY <1>5, <2>1, BgrIsPicture, PictureIsWritten DEF Converted
  <1>6. CASE IsRgb(f) /\ ~f.opencl /\ BitmapStride(f) # mapStride(f)
    <2>1. mapStride(f) \in Nat
      BY <1>1 DEF mapStride, Bpp
    <2>2. BitmapStride(f) = RoundedUp(mapStride(f), 4)
      BY DEF BitmapStride, mapStride
    <2>3. BitmapStride(f) > mapStride(f)
      <3>1. PICK m \in Nat : m = mapStride(f)
        BY <2>1
      <3>2. 4 \in Nat /\ 4 > 0
        OBVIOUS
      <3>3. RoundedUp(m, 4) \in Nat /\ RoundedUp(m, 4) >= m
        BY <3>2, RoundedUpFacts
      <3> QED BY <1>6, <2>2, <3>1, <3>3
    <2>4. f.format = "rgb24" /\ (3 * f.width) % 4 # 0
      BY <1>1, <1>6 DEF BitmapStride, mapStride, RoundedUp, Bpp, IsRgb
    <2> QED BY <1>6, <2>3, <2>4, PaddingSkews DEF Converted
  <1> QED BY <1>1, <1>2, <1>3, <1>4, <1>5, <1>6 DEF IsRgb
=============================================================================
