--------------------------- MODULE FrameDataProofs ---------------------------
(***************************************************************************)
(* Proofs about the data of a frame, for any colours and any jobs of the   *)
(* host.  TLC tries the corners of the colour cube; here are the 2^24      *)
(* colours of a pixel and the 2^96 of four.  TLC scans and rewrites a few  *)
(* streams; here are streams of any units, with any parameter sets.        *)
(***************************************************************************)
EXTENDS FrameData, PictureProofs, ParameterSetProofs

-----------------------------------------------------------------------------
(* The arithmetic *)

\* The luma of a pixel, by the CPU and in decimals of a level by a kernel of
\* BT601_FULL.
LumaPart(r, g, b) == InByte(16 + Shifted(32768 + 16829 * r + 33039 * g + 6416 * b))

LumaDecimals(r, g, b) ==
    2570 * (100 * r) + 5040 * (100 * g) + 980 * (100 * b) + 16 * 1000000

\* It fits its range without saturation, and the two differ by at most one.
LEMMA LumaArithmetic ==
    ASSUME NEW r \in Byte, NEW g \in Byte, NEW b \in Byte
    PROVE  LumaPart(r, g, b) \in 16 .. 235
           /\ Near(LumaPart(r, g, b), Rounded(LumaDecimals(r, g, b)))
  BY DEF Byte, LumaPart, LumaDecimals, Shifted, InByte, Rounded, Saturated, Near

\* n >> 16 is n / 65536, rounded down.
LEMMA ShiftedBounds ==
    ASSUME NEW n \in Int
    PROVE  Shifted(n) \in Int /\ 65536 * Shifted(n) <= n /\ n < 65536 * Shifted(n) + 65536
  BY DEF Shifted

\* One pixel's part of U or V, by the CPU and in decimals of a level.
UPart(r, g, b) == 128 + Shifted(32768 - 9713 * r - 19069 * g + 28784 * b)

UDecimals(r, g, b) == 128000000 - 148000 * r - 291000 * g + 439000 * b

\* The second difference, as the processor and as the kernels have it.
VPart(r, g, b) == 128 + Shifted(32768 + 28784 * r - 24102 * g - 4680 * b)

VDecimals(r, g, b) == 128000000 + 439000 * r - 368000 * g - 71000 * b

\* The part lies in the range of chroma, and within two thirds of a level of
\* its value in decimals.
Close(part, decimals) ==
    /\ part \in 16 .. 240
    /\ decimals \in Int
    /\ 1000000 * part <= decimals + 650000
    /\ decimals <= 1000000 * part + 650000

\* They are near for every colour: the first difference.
LEMMA UArithmetic ==
    ASSUME NEW r \in Byte, NEW g \in Byte, NEW b \in Byte
    PROVE  Close(UPart(r, g, b), UDecimals(r, g, b))
  <1> DEFINE n == 32768 - 9713 * r - 19069 * g + 28784 * b
  <1>1. r \in Int /\ 0 <= r /\ r <= 255 /\ g \in Int /\ 0 <= g /\ g <= 255
        /\ b \in Int /\ 0 <= b /\ b <= 255
    BY DEF Byte
  <1>2. n \in Int
    BY <1>1
  <1>3. PICK s \in Int : s = Shifted(n) /\ 65536 * s <= n /\ n < 65536 * s + 65536
    BY <1>2, ShiftedBounds
  <1>4. 128 + s \in 16 .. 240
    BY <1>1, <1>3
  <1>5. 1000000 * (128 + s) <= 128000000 - 148000 * r - 291000 * g + 439000 * b + 650000
    BY <1>1, <1>3
  <1>6. 128000000 - 148000 * r - 291000 * g + 439000 * b <= 1000000 * (128 + s) + 650000
    BY <1>1, <1>3
  <1>7. UPart(r, g, b) = 128 + s /\ UDecimals(r, g, b) = 128000000 - 148000 * r - 291000 * g + 439000 * b
    BY <1>3 DEF UPart, UDecimals
  <1>8. UDecimals(r, g, b) \in Int
    BY <1>1, <1>7
  <1> QED BY <1>4, <1>5, <1>6, <1>7, <1>8 DEF Close

\* The second.
LEMMA VArithmetic ==
    ASSUME NEW r \in Byte, NEW g \in Byte, NEW b \in Byte
    PROVE  Close(VPart(r, g, b), VDecimals(r, g, b))
  <1> DEFINE n == 32768 + 28784 * r - 24102 * g - 4680 * b
  <1>1. r \in Int /\ 0 <= r /\ r <= 255 /\ g \in Int /\ 0 <= g /\ g <= 255
        /\ b \in Int /\ 0 <= b /\ b <= 255
    BY DEF Byte
  <1>2. n \in Int
    BY <1>1
  <1>3. PICK s \in Int : s = Shifted(n) /\ 65536 * s <= n /\ n < 65536 * s + 65536
    BY <1>2, ShiftedBounds
  <1>4. 128 + s \in 16 .. 240
    BY <1>1, <1>3
  <1>5. 1000000 * (128 + s) <= 128000000 + 439000 * r - 368000 * g - 71000 * b + 650000
    BY <1>1, <1>3
  <1>6. 128000000 + 439000 * r - 368000 * g - 71000 * b <= 1000000 * (128 + s) + 650000
    BY <1>1, <1>3
  <1>7. VPart(r, g, b) = 128 + s /\ VDecimals(r, g, b) = 128000000 + 439000 * r - 368000 * g - 71000 * b
    BY <1>3 DEF VPart, VDecimals
  <1>8. VDecimals(r, g, b) \in Int
    BY <1>1, <1>7
  <1> QED BY <1>4, <1>5, <1>6, <1>7, <1>8 DEF Close

\* Four such parts have a rounded mean in the same range, within one of the
\* rounded mean of the decimals.
LEMMA MeanArithmetic ==
    ASSUME NEW a, NEW b, NEW c, NEW d, NEW da, NEW db, NEW dc, NEW dd,
           Close(a, da), Close(b, db), Close(c, dc), Close(d, dd)
    PROVE  CpuMean(a, b, c, d) \in 16 .. 240
           /\ Near(CpuMean(a, b, c, d), Rounded((da + db + dc + dd) \div 4))
  <1>0. /\ a \in 16 .. 240 /\ b \in 16 .. 240 /\ c \in 16 .. 240 /\ d \in 16 .. 240
        /\ da \in Int /\ db \in Int /\ dc \in Int /\ dd \in Int
        /\ 1000000 * a <= da + 650000 /\ da <= 1000000 * a + 650000
        /\ 1000000 * b <= db + 650000 /\ db <= 1000000 * b + 650000
        /\ 1000000 * c <= dc + 650000 /\ dc <= 1000000 * c + 650000
        /\ 1000000 * d <= dd + 650000 /\ dd <= 1000000 * d + 650000
    BY DEF Close
  <1>1. (2 + a + b + c + d) \div 4 \in 16 .. 240
    BY <1>0
  <1>2. CpuMean(a, b, c, d) = (2 + a + b + c + d) \div 4
    BY <1>1 DEF CpuMean, InByte
  <1>3. PICK s \in Int : 4 * s <= da + db + dc + dd /\ da + db + dc + dd < 4 * s + 4
                         /\ s = (da + db + dc + dd) \div 4
    BY <1>0
  <1>4. PICK m \in Int : 4 * m <= 2 + a + b + c + d /\ 2 + a + b + c + d < 4 * m + 4
                         /\ m = (2 + a + b + c + d) \div 4
    BY <1>0
  <1>5. PICK k \in Int : 1000000 * k <= s + 500000 /\ s + 500000 < 1000000 * k + 1000000
                         /\ k = (s + 500000) \div 1000000
    BY <1>0
  <1>6. m - k \in {-1, 0, 1} /\ m \in 16 .. 240
    BY <1>0, <1>1, <1>3, <1>4, <1>5
  <1> QED BY <1>2, <1>3, <1>4, <1>5, <1>6 DEF Rounded, Saturated, Near
-----------------------------------------------------------------------------
(* Colours *)

\* The matrix of BT601_FULL, whose channels are not scaled.
FullY == Factors(2570, 5040, 980, 16)

\* The factors of the kernels for the differences, and a mean of four pixels.
FullU == Factors(-1480, -2910, 4390, 128)

FullV == Factors(4390, -3680, -710, 128)

FullDot(f, c) == Dot(f, c, FALSE)

FullMean(f, p) ==
    Rounded((FullDot(f, p[1]) + FullDot(f, p[2]) + FullDot(f, p[3]) + FullDot(f, p[4])) \div 4)

\* What the kernels make of factors.
LEMMA FullDotOfFactors ==
    ASSUME NEW c, NEW f, NEW r \in Int, NEW g \in Int, NEW b \in Int, NEW plus \in Int,
           f = Factors(r, g, b, plus)
    PROVE  FullDot(f, c) = r * (100 * c.r) + g * (100 * c.g) + b * (100 * c.b) + plus * 1000000
  BY DEF FullDot, Dot, Factors, Channel

\* In millionths.
LEMMA DecimalsOfFactors ==
    ASSUME NEW r \in Byte, NEW g \in Byte, NEW b \in Byte
    PROVE  /\ UDecimals(r, g, b) =
                  (-1480) * (100 * r) + (-2910) * (100 * g) + 4390 * (100 * b) + 128 * 1000000
           /\ VDecimals(r, g, b) =
                  4390 * (100 * r) + (-3680) * (100 * g) + (-710) * (100 * b) + 128 * 1000000
  BY DEF UDecimals, VDecimals, Byte

\* The matrix of the full range is made of these factors.
LEMMA FullMatrix ==
    /\ Coefficients("BT601_FULL").y = FullY
    /\ Coefficients("BT601_FULL").u = FullU
    /\ Coefficients("BT601_FULL").v = FullV
    /\ Coefficients("BT601_FULL").limited = FALSE
  <1>1. Coefficients("BT601_FULL") = Matrix(FullY, FullU, FullV, FALSE)
    BY DEF Coefficients, FullY, FullU, FullV
  <1> QED BY <1>1 DEF Matrix

\* The processor and the kernels agree on the luma of every colour.
LEMMA LumasAgree ==
    ASSUME NEW c \in Colours
    PROVE  CpuLuma(c) \in 16 .. 235 /\ Near(CpuLuma(c), KernelLuma("BT601_FULL", c))
  <1>1. c.r \in Byte /\ c.g \in Byte /\ c.b \in Byte
    BY DEF Colours
  <1>2. KernelLuma("BT601_FULL", c) = Rounded(FullDot(FullY, c))
    BY FullMatrix, Zenon DEF KernelLuma, FullDot
  <1>3. FullDot(FullY, c) = LumaDecimals(c.r, c.g, c.b)
    BY <1>1 DEF FullDot, Dot, FullY, Factors, Channel, Byte, LumaDecimals
  <1>4. CpuLuma(c) = LumaPart(c.r, c.g, c.b)
    BY DEF CpuLuma, LumaPart
  <1>5. LumaPart(c.r, c.g, c.b) \in 16 .. 235
        /\ Near(LumaPart(c.r, c.g, c.b), Rounded(LumaDecimals(c.r, c.g, c.b)))
    BY <1>1, LumaArithmetic, ZenonT(40)
  <1> QED BY <1>2, <1>3, <1>4, <1>5, Zenon

\* They agree on the differences of every four.
LEMMA ChromaAgrees ==
    ASSUME NEW p \in [1 .. 4 -> Colours]
    PROVE  LET cpu    == CpuChroma(p)
               kernel == KernelChroma("BT601_FULL", p)
           IN  \A i \in {1, 2} : cpu[i] \in 16 .. 240 /\ Near(cpu[i], kernel[i])
  <1>1. KernelChroma("BT601_FULL", p) = <<FullMean(FullU, p), FullMean(FullV, p)>>
    BY FullMatrix, Zenon DEF KernelChroma, KernelMean, FullMean, FullDot
  <1>2. ASSUME NEW c \in Colours
        PROVE  Close(CpuU(c), FullDot(FullU, c))
    <2>1. c.r \in Byte /\ c.g \in Byte /\ c.b \in Byte
      BY DEF Colours
    <2>2. FullDot(FullU, c) = UDecimals(c.r, c.g, c.b)
      <3>1. FullDot(FullU, c) = (-1480) * (100 * c.r) + (-2910) * (100 * c.g)
                                + 4390 * (100 * c.b) + 128 * 1000000
        BY FullDotOfFactors DEF FullU
      <3> QED BY <2>1, <3>1, DecimalsOfFactors
    <2>3. CpuU(c) = UPart(c.r, c.g, c.b)
      BY DEF CpuU, UPart
    <2> QED BY <2>1, <2>2, <2>3, UArithmetic, Zenon
  <1>3. ASSUME NEW c \in Colours
        PROVE  Close(CpuV(c), FullDot(FullV, c))
    <2>1. c.r \in Byte /\ c.g \in Byte /\ c.b \in Byte
      BY DEF Colours
    <2>2. FullDot(FullV, c) = VDecimals(c.r, c.g, c.b)
      <3>1. FullDot(FullV, c) = 4390 * (100 * c.r) + (-3680) * (100 * c.g)
                                + (-710) * (100 * c.b) + 128 * 1000000
        BY FullDotOfFactors DEF FullV
      <3> QED BY <2>1, <3>1, DecimalsOfFactors
    <2>3. CpuV(c) = VPart(c.r, c.g, c.b)
      BY DEF CpuV, VPart
    <2> QED BY <2>1, <2>2, <2>3, VArithmetic, Zenon
  <1>4. p[1] \in Colours /\ p[2] \in Colours /\ p[3] \in Colours /\ p[4] \in Colours
    OBVIOUS
  <1>5. LET cpu == CpuMean(CpuU(p[1]), CpuU(p[2]), CpuU(p[3]), CpuU(p[4]))
        IN  cpu \in 16 .. 240 /\ Near(cpu, FullMean(FullU, p))
    BY <1>2, <1>4, MeanArithmetic, ZenonT(40) DEF FullMean
  <1>6. LET cpu == CpuMean(CpuV(p[1]), CpuV(p[2]), CpuV(p[3]), CpuV(p[4]))
        IN  cpu \in 16 .. 240 /\ Near(cpu, FullMean(FullV, p))
    BY <1>3, <1>4, MeanArithmetic, ZenonT(40) DEF FullMean
  <1> QED BY <1>1, <1>5, <1>6 DEF CpuChroma

-----------------------------------------------------------------------------
(* The frame *)

\* What is known of a frame before the encoder reads the surface: CompressQuery
\* has let it through, and then a converter has written all of the surface.
DataInv ==
    /\ job \in Jobs
    /\ pc \in {"convert", "encode"} => CompressQuery(job.frame)
    /\ pc = "encode" => surface = Converted(job.frame)

\* It always holds.
LEMMA AlwaysDataInv == Spec => []DataInv
  <1>1. Init => DataInv
    BY DEF Init, DataInv
  <1>2. DataInv /\ [Next]_vars => DataInv'
    <2> SUFFICES ASSUME DataInv, [Next]_vars PROVE DataInv'
      OBVIOUS
    <2>1. CASE Query
      BY <2>1 DEF DataInv, Query
    <2>2. CASE Convert
      BY <2>2 DEF DataInv, Convert
    <2>3. CASE CopyOutput \/ ScanEnds \/ RewriteEnds
      BY <2>3 DEF DataInv, CopyOutput, ScanEnds, RewriteEnds
    <2>4. CASE Scan
      <3>1. job' = job /\ pc' \notin {"convert", "encode"}
        BY <2>4 DEF Scan
      <3> QED BY <3>1 DEF DataInv
    <2>5. CASE Rewrite
      <3>1. job' = job /\ pc' \in {"rewrite", "dead"}
        BY <2>5 DEF Rewrite, RewriteSps
      <3> QED BY <3>1 DEF DataInv
    <2>6. CASE UNCHANGED vars
      BY <2>6 DEF DataInv, vars
    <2> QED BY <2>1, <2>2, <2>3, <2>4, <2>5, <2>6 DEF Next
  <1> QED BY <1>1, <1>2, PTL DEF Spec

\* What the CPU makes of blue.
LEMMA BlueOfCpu == CpuLuma(Blue) = 41 /\ CpuChroma(Blues)[1] = 240
  <1>1. Blue.r = 0 /\ Blue.g = 0 /\ Blue.b = 255
    BY DEF Blue
  <1>2. CpuLuma(Blue) = 41
    BY <1>1 DEF CpuLuma, InByte, Shifted
  <1>3. CpuU(Blue) = 240
    BY <1>1 DEF CpuU, Shifted
  <1>4. CpuMean(240, 240, 240, 240) = 240
    BY DEF CpuMean, InByte
  <1>5. \A i \in 1 .. 4 : Blues[i] = Blue
    BY DEF Blues
  <1>6. CpuChroma(Blues)[1] = CpuMean(CpuU(Blue), CpuU(Blue), CpuU(Blue), CpuU(Blue))
    BY <1>5 DEF CpuChroma
  <1> QED BY <1>2, <1>3, <1>4, <1>6

LimitedDot(f, c) == Dot(f, c, TRUE)

Unscaled(y, u, v) == Matrix(y, u, v, FALSE)

Scaled(y, u, v) == Matrix(y, u, v, TRUE)

\* The luma by the kernels of a matrix whose channels are not scaled.
LEMMA FullLumaOf ==
    ASSUME NEW name, NEW y, NEW u, NEW v, NEW c, Coefficients(name) = Unscaled(y, u, v)
    PROVE  KernelLuma(name, c) = Rounded(FullDot(y, c))
  <1>1. Matrix(y, u, v, FALSE).y = y /\ Matrix(y, u, v, FALSE).limited = FALSE
    BY DEF Matrix
  <1> QED BY <1>1, Zenon DEF KernelLuma, FullDot, Unscaled

\* And of one whose channels are.
LEMMA LimitedLumaOf ==
    ASSUME NEW name, NEW y, NEW u, NEW v, NEW c, Coefficients(name) = Scaled(y, u, v)
    PROVE  KernelLuma(name, c) = Rounded(LimitedDot(y, c))
  <1>1. Matrix(y, u, v, TRUE).y = y /\ Matrix(y, u, v, TRUE).limited = TRUE
    BY DEF Matrix
  <1> QED BY <1>1, Zenon DEF KernelLuma, LimitedDot, Scaled

\* The same with scaled channels.
LEMMA LimitedDotOfFactors ==
    ASSUME NEW c, NEW f, NEW r \in Int, NEW g \in Int, NEW b \in Int, NEW plus \in Int,
           f = Factors(r, g, b, plus)
    PROVE  LimitedDot(f, c) =
               r * (1600 + (c.r * 21900) \div 255) + g * (1600 + (c.g * 21900) \div 255)
               + b * (1600 + (c.b * 21900) \div 255) + plus * 1000000
  BY DEF LimitedDot, Dot, Factors, Channel

\* What blue comes to.
LEMMA BlueDots ==
    ASSUME NEW r \in Int, NEW g \in Int, NEW b \in Int, NEW plus \in Int
    PROVE  /\ FullDot(Factors(r, g, b, plus), Blue) = 25500 * b + 1000000 * plus
           /\ LimitedDot(Factors(r, g, b, plus), Blue) =
                  1600 * r + 1600 * g + 23500 * b + 1000000 * plus
  <1>1. Blue.r = 0 /\ Blue.g = 0 /\ Blue.b = 255
    BY DEF Blue
  <1>2. FullDot(Factors(r, g, b, plus), Blue) =
            r * (100 * Blue.r) + g * (100 * Blue.g) + b * (100 * Blue.b) + plus * 1000000
    BY FullDotOfFactors
  <1>3. LimitedDot(Factors(r, g, b, plus), Blue) =
            r * (1600 + (Blue.r * 21900) \div 255) + g * (1600 + (Blue.g * 21900) \div 255)
            + b * (1600 + (Blue.b * 21900) \div 255) + plus * 1000000
    BY LimitedDotOfFactors
  <1>4. (0 * 21900) \div 255 = 0 /\ (255 * 21900) \div 255 = 21900
    BY SMT
  <1>5. FullDot(Factors(r, g, b, plus), Blue) = r * 0 + g * 0 + b * 25500 + plus * 1000000
    BY <1>1, <1>2, SMT
  <1>6. LimitedDot(Factors(r, g, b, plus), Blue) =
            r * 1600 + g * 1600 + b * 23500 + plus * 1000000
    BY <1>1, <1>3, <1>4, SMT
  <1> QED BY <1>5, <1>6, SMT

\* Whatever rounds to less than 40 is not the luma of the CPU.
LEMMA BlueTooDark ==
    ASSUME NEW name, NEW n \in Int, n < 39500000, KernelLuma(name, Blue) = Rounded(n)
    PROVE  ~ Near(CpuLuma(Blue), KernelLuma(name, Blue))
  <1>1. Rounded(n) < 40 /\ Rounded(n) \in Int
    BY SMT DEF Rounded, Saturated
  <1> QED BY <1>1, BlueOfCpu, SMT DEF Near

\* So with the kernels of a matrix of either kind.
LEMMA FullBlueTooDark ==
    ASSUME NEW name, NEW y, NEW u, NEW v, Coefficients(name) = Unscaled(y, u, v),
           FullDot(y, Blue) \in Int, FullDot(y, Blue) < 39500000
    PROVE  ~ Near(CpuLuma(Blue), KernelLuma(name, Blue))
  BY FullLumaOf, BlueTooDark, SMT

LEMMA LimitedBlueTooDark ==
    ASSUME NEW name, NEW y, NEW u, NEW v, Coefficients(name) = Scaled(y, u, v),
           LimitedDot(y, Blue) \in Int, LimitedDot(y, Blue) < 39500000
    PROVE  ~ Near(CpuLuma(Blue), KernelLuma(name, Blue))
  BY LimitedLumaOf, BlueTooDark, SMT

\* Of the matrices whose luma differs.
LEMMA LumaOfBlueDiffers ==
    ASSUME NEW name \in {"BT601_FULL_YCbCr", "BT709_FULL", "BT709_LIMITED", "BT709_ALT1_LIMITED"}
    PROVE  ~ Near(CpuLuma(Blue), KernelLuma(name, Blue))
  <1>1. CASE name = "BT601_FULL_YCbCr"
    <2> DEFINE y == Factors(2990, 5870, 1140, 0)
               u == Factors(-1690, -3310, 5000, 128)
               v == Factors(5000, -4190, -810, 128)
    <2>1. Coefficients(name) = Unscaled(y, u, v)
      BY <1>1 DEF Coefficients, Unscaled
    <2>2. FullDot(y, Blue) = 29070000
      BY BlueDots, SMT
    <2> HIDE DEF y, u, v
    <2> QED BY <2>1, <2>2, FullBlueTooDark, SMT
  <1>2. CASE name = "BT709_FULL"
    <2> DEFINE y == Factors(1826, 6142, 620, 16)
               u == Factors(-1006, -3386, 4392, 128)
               v == Factors(4392, -3989, -403, 128)
    <2>1. Coefficients(name) = Unscaled(y, u, v)
      BY <1>2 DEF Coefficients, Unscaled
    <2>2. FullDot(y, Blue) = 31810000
      BY BlueDots, SMT
    <2> HIDE DEF y, u, v
    <2> QED BY <2>1, <2>2, FullBlueTooDark, SMT
  <1>3. CASE name = "BT709_LIMITED"
    <2> DEFINE y == Factors(2126, 7152, 722, 0)
               u == Factors(-999, -3361, 4360, 128)
               v == Factors(6150, -5586, -564, 128)
    <2>1. Coefficients(name) = Scaled(y, u, v)
      BY <1>3 DEF Coefficients, Scaled
    <2>2. LimitedDot(y, Blue) = 31811800
      BY BlueDots, SMT
    <2> HIDE DEF y, u, v
    <2> QED BY <2>1, <2>2, LimitedBlueTooDark, SMT
  <1>4. CASE name = "BT709_ALT1_LIMITED"
    <2> DEFINE y == Factors(2126, 7152, 722, 0)
               u == Factors(-1146, -3854, 5000, 128)
               v == Factors(5000, -4542, -468, 128)
    <2>1. Coefficients(name) = Scaled(y, u, v)
      BY <1>4 DEF Coefficients, Scaled
    <2>2. LimitedDot(y, Blue) = 31811800
      BY BlueDots, SMT
    <2> HIDE DEF y, u, v
    <2> QED BY <2>1, <2>2, LimitedBlueTooDark, SMT
  <1> QED BY <1>1, <1>2, <1>3, <1>4

\* The mean of four times the same.
LimitedMean(f, p) ==
    Rounded((LimitedDot(f, p[1]) + LimitedDot(f, p[2])
             + LimitedDot(f, p[3]) + LimitedDot(f, p[4])) \div 4)

\* BT601_LIMITED makes the luma of blue come out right, and the chroma wrong.
LEMMA BlueOfBt601Limited ==
    ~ Near(CpuChroma(Blues)[1], KernelChroma("BT601_LIMITED", Blues)[1])
  <1> DEFINE name == "BT601_LIMITED"
             u == Factors(-1471, -2889, 4360, 128)
             y == Factors(2990, 5870, 1140, 0)
             v == Factors(6150, -5150, -1000, 128)
  <1>1. Coefficients(name) = Matrix(y, u, v, TRUE)
    BY DEF Coefficients
  <1>2. LimitedDot(u, Blue) = 223484000
    BY BlueDots, SMT
  <1>3. Blues[1] = Blue /\ Blues[2] = Blue /\ Blues[3] = Blue /\ Blues[4] = Blue
    BY DEF Blues
  <1> HIDE DEF u, y, v
  <1>4. LimitedMean(u, Blues) = 223
    BY <1>2, <1>3, SMT DEF LimitedMean, Rounded, Saturated
  <1>5. Matrix(y, u, v, TRUE).u = u /\ Matrix(y, u, v, TRUE).v = v
        /\ Matrix(y, u, v, TRUE).limited = TRUE
    BY DEF Matrix
  <1>6. KernelChroma(name, Blues) = <<LimitedMean(u, Blues), LimitedMean(v, Blues)>>
    BY <1>1, <1>5, Zenon DEF KernelChroma, KernelMean, LimitedMean, LimitedDot
  <1>7. KernelChroma(name, Blues)[1] = 223
    BY <1>4, <1>6
  <1> QED BY <1>7, BlueOfCpu DEF Near

\* Only the kernels of BT601_FULL make the same of blue as the CPU.
LEMMA BlueTellsThemApart ==
    ASSUME NEW matrix \in Nat, matrix # BT601_FULL
    PROVE  ~ Agrees(BuiltWith(matrix), Blues)
  <1>1. Blues[1] = Blue
    BY DEF Blues
  <1>2. ASSUME NEW name, ~ Near(CpuLuma(Blue), KernelLuma(name, Blue))
        PROVE  ~ Agrees(name, Blues)
    BY <1>1, <1>2 DEF Agrees
  <1>3. CASE matrix \in 2 .. 5
    <2>1. BuiltWith(matrix) \in {"BT601_FULL_YCbCr", "BT709_FULL", "BT709_LIMITED",
                                 "BT709_ALT1_LIMITED"}
      BY <1>3 DEF BuiltWith
    <2> QED BY <1>2, <2>1, LumaOfBlueDiffers
  <1>4. CASE matrix \notin 2 .. 5
    <2>1. BuiltWith(matrix) = "BT601_LIMITED"
      BY <1>4 DEF BuiltWith, BT601_FULL
    <2> QED BY <2>1, BlueOfBt601Limited DEF Agrees
  <1> QED BY <1>3, <1>4

\* For every picture the integers of the CPU need no saturation
\* (OpenEncodeVFW.cpp:644, 670), and agree with the kernels of BT601_FULL
\* within one; with the kernels of no other matrix they agree on every picture.
\* UseOpenCL leaves what is seen as it is for that one setting, and no other.
THEOREM PathsAlwaysAgree == Spec => []PathsAgree
  <1>1. job \in Jobs => PathsAgree
    <2> SUFFICES ASSUME job \in Jobs PROVE PathsAgree
      OBVIOUS
    <2>1. job.colours \in [1 .. 4 -> Colours] /\ job.matrix \in Nat
      BY JobsAssumption DEF IsJob
    <2>2. \A i \in 1 .. 4 : job.colours[i] \in Colours
      BY <2>1
    <2>3. ASSUME NEW p \in [1 .. 4 -> Colours] PROVE Agrees("BT601_FULL", p)
      <3>1. \A i \in 1 .. 4 : p[i] \in Colours
        OBVIOUS
      <3> QED BY <3>1, LumasAgree, ChromaAgrees DEF Agrees
    <2>4. Blues \in [1 .. 4 -> Colours]
      BY DEF Blues, Blue, Colours, Byte
    <2>5. Agrees(BuiltWith(job.matrix), Blues) <=> job.matrix = BT601_FULL
      <3>1. CASE job.matrix = BT601_FULL
        <4>1. BuiltWith(job.matrix) = "BT601_FULL"
          BY <3>1 DEF BuiltWith, BT601_FULL
        <4> QED BY <2>3, <2>4, <3>1, <4>1
      <3>2. CASE job.matrix # BT601_FULL
        BY <2>1, <3>2, BlueTellsThemApart
      <3> QED BY <3>1, <3>2
    <2>6. \A i \in 1 .. 4 : CpuLuma(job.colours[i]) \in 16 .. 235
      BY <2>2, LumasAgree
    <2>7. \A i \in {1, 2} : CpuChroma(job.colours)[i] \in 16 .. 240
      BY <2>1, ChromaAgrees
    <2> QED BY <2>1, <2>3, <2>5, <2>6, <2>7 DEF PathsAgree
  <1>2. DataInv => job \in Jobs
    BY DEF DataInv
  <1> QED BY <1>1, <1>2, AlwaysDataInv, PTL

\* For frames of every size and any alignment: the converters stay in the
\* surface of encodeOpen (compress.cpp:487-493), in the host's bitmap and in
\* the buffer of the kernels (clconvert.cpp:540-552, 620-640).
THEOREM BuffersAreNeverLeft == Spec => []InsideBuffers
  <1>1. DataInv => InsideBuffers
    <2> SUFFICES ASSUME DataInv, pc = "encode" PROVE InsideBuffers
      BY DEF InsideBuffers
    <2> DEFINE f == job.frame
               colours(of) == IF IsRgb(f) THEN UNION {{p.r, p.g, p.b} : p \in of} ELSE of
    <2>1. IsFrame(f) /\ CompressQuery(f) /\ surface = Converted(f)
      BY JobsAssumption DEF DataInv, IsJob
    <2>2. /\ DOMAIN surface \subseteq 0 .. SurfaceSize(f) - 1
          /\ \A at \in DOMAIN surface : surface[at] \in Samples(f)
      BY <2>1, ConvertedInside
    <2>3. ASSUME NEW sample \in Samples(f) PROVE colours(sample.of) \subseteq BitmapBytes(f)
      BY DEF Samples, Sources
    <2>4. f.opencl /\ IsRgb(f) =>
              /\ DOMAIN Uploaded(f) \subseteq 0 .. input_size(f) - 1
              /\ \A at \in DOMAIN Uploaded(f) : Uploaded(f)[at] < BitmapSize(f)
      <3>1. SUFFICES ASSUME IsRgb(f)
                     PROVE  /\ DOMAIN Uploaded(f) \subseteq 0 .. input_size(f) - 1
                            /\ \A at \in DOMAIN Uploaded(f) : Uploaded(f)[at] < BitmapSize(f)
        OBVIOUS
      <3>2. DOMAIN Uploaded(f) \subseteq 0 .. input_size(f) - 1
        BY <2>1, <3>1, UploadedFacts
      <3>3. \A at \in DOMAIN Uploaded(f) : Uploaded(f)[at] \in BitmapBytes(f)
        BY <2>1, <3>1, UploadedFacts
      <3>4. BitmapSize(f) \in Nat
        BY <2>1, <3>1, BitmapHoldsPixels
      <3> QED BY <3>2, <3>3, <3>4 DEF BitmapBytes
    <2>5. \A at \in DOMAIN surface : colours(surface[at].of) \subseteq BitmapBytes(f)
      BY <2>2, <2>3
    <2> QED BY <2>2, <2>4, <2>5 DEF InsideBuffers, BitmapBytes
  <1> QED BY <1>1, AlwaysDataInv, PTL

\* For frames of every size, format and path, and any alignment: what the
\* encoder is given is the picture, but for padded rows of 24 bit on the CPU
\* (OpenEncodeVFW.cpp:572-692, clconvert.cpp:593-680).
THEOREM SurfaceIsAlwaysPicture == Spec => []SurfaceIsPicture
  <1>1. DataInv => SurfaceIsPicture
    <2> SUFFICES ASSUME DataInv, pc = "encode"
                 PROVE  surface = Nv12Of(job.frame) <=> ~Skewed(job.frame)
      BY DEF SurfaceIsPicture
    <2>1. IsFrame(job.frame) /\ CompressQuery(job.frame) /\ surface = Converted(job.frame)
      BY JobsAssumption DEF DataInv, IsJob
    <2> QED BY <2>1, ConvertedIsPicture DEF Skewed
  <1> QED BY <1>1, AlwaysDataInv, PTL

-----------------------------------------------------------------------------
(* Start codes *)

\* A start code, byte by byte.
CodeAt(s, x) == x \in 1 .. Len(s) - 2 /\ s[x] = 0 /\ s[x + 1] = 0 /\ s[x + 2] = 1

\* A start code is three bytes.
LEMMA CodesByByte ==
    ASSUME NEW s \in Seq(Bytes), NEW x \in 1 .. Len(s) - 2
    PROVE  SubSeq(s, x, x + 2) = StartCode <=> CodeAt(s, x)
  <1>1. PICK c : c = SubSeq(s, x, x + 2)
    OBVIOUS
  <1>2. /\ c \in Seq(Bytes) /\ Len(c) = 3
        /\ c[1] = s[x] /\ c[2] = s[x + 1] /\ c[3] = s[x + 2]
    <2>1. x \in Int /\ x + 2 = x + 3 - 1 /\ 3 \in Nat
      OBVIOUS
    <2>2. \A i \in x .. x + 2 : s[i] \in Bytes
      <3>1. TAKE i \in x .. x + 2
      <3>2. i \in 1 .. Len(s)
        OBVIOUS
      <3> QED BY <3>2, ElementOfSeq
    <2>3. IsPart(c, Bytes, s, x, 3)
      BY <1>1, <2>1, <2>2, PartOf, Zenon
    <2>4. /\ c \in Seq(Bytes) /\ Len(c) = 3
          /\ c[1] = s[x + 1 - 1] /\ c[2] = s[x + 2 - 1] /\ c[3] = s[x + 3 - 1]
      BY <2>3 DEF IsPart
    <2>5. x + 1 - 1 = x /\ x + 2 - 1 = x + 1 /\ x + 3 - 1 = x + 2
      OBVIOUS
    <2> QED BY <2>4, <2>5
  <1>3. c = <<0, 0, 1>> <=> c[1] = 0 /\ c[2] = 0 /\ c[3] = 1
    <2>1. ASSUME c[1] = 0, c[2] = 0, c[3] = 1 PROVE c = <<0, 0, 1>>
      BY <1>2, <2>1
    <2> QED BY <2>1
  <1> QED BY <1>1, <1>2, <1>3 DEF CodeAt, StartCode

\* Every place of a sequence lies in one of its parts.
LEMMA Located ==
    ASSUME NEW s, NEW at, NEW n \in Nat, NEW parts, Laid(s, at, n, parts), NEW x \in 1 .. Len(s)
    PROVE  \E i \in 1 .. n : at[i - 1] < x /\ x <= at[i]
  <1>1. at \in [0 .. n -> Nat] /\ at[0] = 0 /\ Len(s) = at[n]
    BY DEF Laid
  <1>2. PICK T : T = {i \in 0 .. n : x <= at[i]}
    OBVIOUS
  <1>3. n \in T /\ T \subseteq Nat
    BY <1>1, <1>2
  <1>4. PICK i \in T : \A k \in T : i <= k
    BY <1>3, LeastOf
  <1>5. i \in 1 .. n
    BY <1>1, <1>2, <1>4
  <1>6. i - 1 \in 0 .. n /\ i - 1 \notin T
    BY <1>2, <1>4, <1>5
  <1> QED BY <1>1, <1>2, <1>4, <1>5, <1>6

\* A piece of a stream: zeros, a start code, the bytes of a unit, and zeros; there is
\* no start code among the bytes.
IsPiece(b, z, nal, t) ==
    /\ b \in Seq(Bytes) /\ z \in {0, 1} /\ t \in {0, 1}
    /\ nal \in Seq(Bytes) /\ Len(nal) \in Nat \ {0} /\ nal[Len(nal)] # 0
    /\ \A x \in 1 .. Len(nal) - 2 : ~CodeAt(nal, x)
    /\ Len(b) = z + 3 + Len(nal) + t
    /\ b[1] = 0 /\ b[2] = 0 /\ b[z + 1] = 0 /\ b[z + 2] = 0 /\ b[z + 3] = 1
    /\ \A k \in 1 .. Len(nal) : b[z + 3 + k] = nal[k]
    /\ \A k \in z + 4 + Len(nal) .. Len(b) : b[k] = 0

\* What begins in a piece as a start code does is its start code, or the zero at its
\* end.
LEMMA CodesOfPiece ==
    ASSUME NEW b, NEW z, NEW nal, NEW t, IsPiece(b, z, nal, t),
           NEW k \in 1 .. Len(b), b[k] = 0,
           k + 1 <= Len(b) => b[k + 1] = 0, k + 2 <= Len(b) => b[k + 2] = 1
    PROVE  k = z + 1 \/ k = Len(b)
  <1>1. PICK l \in Nat \ {0} : l = Len(nal) /\ nal[l] # 0 /\ Len(b) = z + 3 + l + t
    BY DEF IsPiece
  <1>2. z \in {0, 1} /\ t \in {0, 1} /\ b[1] = 0 /\ b[2] = 0
        /\ b[z + 1] = 0 /\ b[z + 2] = 0 /\ b[z + 3] = 1
    BY DEF IsPiece
  <1>3. \A j \in 1 .. l : b[z + 3 + j] = nal[j]
    BY <1>1 DEF IsPiece
  <1>4. PICK n \in Nat : n = Len(b) /\ n = z + 3 + l + t /\ n >= z + 4 /\ k \in 1 .. n
    BY <1>1, <1>2
  <1>5. CASE k <= z + 3
    <2>1. CASE z = 0
      <3>1. k \in {1, 2, 3} /\ b[3] = 1
        BY <1>2, <1>4, <1>5, <2>1
      <3>2. k # 3
        BY <3>1
      <3>3. k # 2
        BY <3>1, <1>4, <2>1
      <3> QED BY <2>1, <3>1, <3>2, <3>3
    <2>2. CASE z = 1
      <3>1. k \in {1, 2, 3, 4} /\ b[3] = 0 /\ b[4] = 1
        BY <1>2, <1>4, <1>5, <2>2
      <3>2. k # 4
        BY <3>1
      <3>3. k # 3
        BY <3>1, <1>4, <2>2
      <3>4. k # 1
        BY <3>1, <1>4, <2>2
      <3> QED BY <2>2, <3>1, <3>2, <3>3, <3>4
    <2> QED BY <1>2, <2>1, <2>2
  <1>6. CASE k > z + 3
    <2>1. PICK j \in Nat \ {0} : k = z + 3 + j
      <3>1. k - z - 3 \in Nat \ {0} /\ k = z + 3 + (k - z - 3)
        BY <1>2, <1>4, <1>6
      <3> QED BY <3>1
    <2>2. CASE j > l
      BY <1>2, <1>4, <2>1, <2>2
    <2>3. CASE j = l
      <3>1. b[z + 3 + j] = nal[l]
        BY <1>3, <2>3
      <3> QED BY <1>1, <2>1, <3>1
    <2>4. CASE j = l - 1
      <3>1. l \in 1 .. l /\ z + 3 + l = k + 1 /\ k + 1 <= n
        BY <1>2, <1>4, <2>1, <2>4
      <3>2. b[k + 1] = nal[l]
        BY <1>3, <3>1
      <3> QED BY <1>1, <1>4, <3>1, <3>2
    <2>5. CASE j < l - 1
      <3>1. /\ j \in 1 .. l - 2 /\ j \in 1 .. l /\ j + 1 \in 1 .. l /\ j + 2 \in 1 .. l
            /\ z + 3 + (j + 1) = k + 1 /\ z + 3 + (j + 2) = k + 2 /\ k + 1 <= n /\ k + 2 <= n
        BY <1>2, <1>4, <2>1, <2>5
      <3>2. b[k] = nal[j] /\ b[k + 1] = nal[j + 1] /\ b[k + 2] = nal[j + 2]
        BY <1>3, <2>1, <3>1, SMTT(40)
      <3>3. CodeAt(nal, j)
        BY <1>1, <1>4, <3>1, <3>2 DEF CodeAt
      <3>4. ~CodeAt(nal, j)
        BY <1>1, <3>1 DEF IsPiece
      <3> QED BY <3>3, <3>4
    <2> QED BY <2>2, <2>3, <2>4, <2>5
  <1> QED BY <1>4, <1>5, <1>6, <1>2

\* The pieces that a stream is laid out of.
Pieces(n, parts, Z, N, T) == n \in Nat /\ \A i \in 1 .. n : IsPiece(parts[i], Z[i], N[i], T[i])

\* Where a piece lies in its stream.
LEMMA PieceIn ==
    ASSUME NEW s \in Seq(Bytes), NEW at, NEW n, NEW parts, NEW Z, NEW N, NEW T,
           Pieces(n, parts, Z, N, T), Laid(s, at, n, parts), NEW i \in 1 .. n
    PROVE  /\ at[i - 1] \in Nat /\ at[i] \in Nat /\ at[i] <= Len(s)
           /\ Len(parts[i]) \in Nat /\ 4 <= Len(parts[i])
           /\ at[i] = at[i - 1] + Len(parts[i])
           /\ \A k \in 1 .. Len(parts[i]) : s[at[i - 1] + k] = parts[i][k]
  <1>1. n \in Nat /\ at \in [0 .. n -> Nat] /\ Len(s) = at[n]
    BY DEF Pieces, Laid
  <1>2. ASSUME NEW k \in 1 .. n
        PROVE  at[k - 1] \in Nat /\ at[k] \in Nat /\ Len(parts[k]) \in Nat /\ 4 <= Len(parts[k])
               /\ at[k] = at[k - 1] + Len(parts[k])
    <2>1. IsPiece(parts[k], Z[k], N[k], T[k])
      BY DEF Pieces
    <2>2. PICK l \in Nat \ {0}, z \in {0, 1}, t \in {0, 1} : Len(parts[k]) = z + 3 + l + t
      BY <2>1 DEF IsPiece
    <2>3. k - 1 \in 0 .. n /\ k \in 0 .. n
      BY <1>1
    <2>4. at[k - 1] \in Nat /\ at[k] \in Nat
      BY <1>1, <2>3
    <2>5. Len(parts[k]) \in Nat /\ 4 <= Len(parts[k])
      BY <2>2
    <2> QED BY <2>4, <2>5 DEF Laid
  <1>3. \A k \in 1 .. n : at[k - 1] <= at[k]
    <2>1. TAKE k \in 1 .. n
    <2> QED BY <1>2
  <1>4. at[i] <= at[n]
    <2>1. n \in 0 .. n /\ i \in 0 .. n
      BY <1>1
    <2> QED BY <1>1, <1>3, <2>1, Grows
  <1> QED BY <1>1, <1>2, <1>4 DEF Laid

\* The only start codes of the stream are those of its pieces.
LEMMA CodesOfPieces ==
    ASSUME NEW s \in Seq(Bytes), NEW at, NEW n, NEW parts, NEW Z, NEW N, NEW T,
           Pieces(n, parts, Z, N, T), Laid(s, at, n, parts), NEW x, CodeAt(s, x)
    PROVE  \E i \in 1 .. n : x = at[i - 1] + Z[i] + 1
  <1>1. n \in Nat /\ Len(s) \in Nat /\ Len(s) = at[n]
    BY DEF Pieces, Laid
  <1>2. x \in 1 .. Len(s) /\ x + 2 <= Len(s) /\ s[x] = 0 /\ s[x + 1] = 0 /\ s[x + 2] = 1
    BY <1>1 DEF CodeAt
  <1>3. PICK i \in 1 .. n : at[i - 1] < x /\ x <= at[i]
    BY <1>1, <1>2, Located
  <1>4. PICK b, z, a : b = parts[i] /\ z = Z[i] /\ a = at[i - 1]
    OBVIOUS
  <1>5. IsPiece(b, z, N[i], T[i]) /\ z \in {0, 1}
    <2>1. IsPiece(b, z, N[i], T[i])
      BY <1>4 DEF Pieces
    <2> QED BY <2>1 DEF IsPiece
  <1>6a. /\ at[i - 1] \in Nat /\ Len(parts[i]) \in Nat
         /\ at[i] = at[i - 1] + Len(parts[i])
         /\ \A k \in 1 .. Len(parts[i]) : s[at[i - 1] + k] = parts[i][k]
    BY PieceIn
  <1>6. PICK l \in Nat : /\ l = Len(b) /\ a \in Nat /\ at[i] = a + l
                         /\ \A k \in 1 .. l : s[a + k] = b[k]
    BY <1>4, <1>6a
  <1>7. PICK k \in 1 .. l : x = a + k
    <2>1. a < x /\ x <= a + l /\ a \in Nat /\ x \in Nat
      <3>1. x \in Nat
        BY <1>2
      <3> QED BY <1>3, <1>4, <1>6, <3>1, Zenon
    <2>2. x - a \in 1 .. l /\ x = a + (x - a)
      BY <2>1
    <2> QED BY <2>2
  <1>8. b[k] = 0
    BY <1>2, <1>6, <1>7
  <1>9. ASSUME k + 1 <= l PROVE b[k + 1] = 0
    <2>1. k + 1 \in 1 .. l /\ a + (k + 1) = x + 1
      BY <1>6, <1>7, <1>9
    <2> QED BY <1>2, <1>6, <2>1
  <1>10. ASSUME k + 2 <= l PROVE b[k + 2] = 1
    <2>1. k + 2 \in 1 .. l /\ a + (k + 2) = x + 2
      BY <1>6, <1>7, <1>10
    <2> QED BY <1>2, <1>6, <2>1
  <1>11. k = z + 1 \/ k = l
    <2>1. l = Len(b) /\ IsPiece(b, z, N[i], T[i])
      BY <1>5, <1>6
    <2>2. (k + 1 <= l => b[k + 1] = 0) /\ (k + 2 <= l => b[k + 2] = 1)
      BY <1>9, <1>10
    <2> QED BY <1>8, <2>1, <2>2, CodesOfPiece, ZenonT(40)
  <1>12. ASSUME k = l PROVE FALSE
    <2>1. x = at[i]
      BY <1>6, <1>7, <1>12
    <2>2. i # n
      BY <1>1, <1>2, <2>1
    <2>3. i + 1 \in 1 .. n /\ i + 1 - 1 = i
      BY <1>1, <2>2
    <2>4. PICK c : c = parts[i + 1]
      OBVIOUS
    <2>5. c[2] = 0
      BY <2>3, <2>4 DEF Pieces, IsPiece
    <2>6. Len(c) \in Nat /\ 4 <= Len(c) /\ \A m \in 1 .. Len(c) : s[at[i + 1 - 1] + m] = c[m]
      BY <2>3, <2>4, PieceIn
    <2>7. 2 \in 1 .. Len(c)
      BY <2>6
    <2>8. s[at[i + 1 - 1] + 2] = 0
      BY <2>5, <2>6, <2>7
    <2>9. at[i + 1 - 1] = x
      BY <2>1, <2>3
    <2> QED BY <1>2, <2>8, <2>9
  <1>13. x = a + z + 1
    <2>1. k = z + 1
      BY <1>11, <1>12
    <2> QED BY <1>5, <1>6, <1>7, <2>1
  <1> QED BY <1>4, <1>13

\* A unit in a stream: its start code at a, its bytes behind it, and behind these
\* zeros up to the next start code, at b.
UnitFrom(s, a, b, nal) ==
    /\ CodeAt(s, a)
    /\ nal \in Seq(Bytes) /\ Len(nal) \in Nat \ {0} /\ nal[Len(nal)] # 0
    /\ a + 3 + Len(nal) <= b
    /\ \A k \in 1 .. Len(nal) : s[a + 2 + k] = nal[k]
    /\ \A x \in a + 3 + Len(nal) .. b - 1 : s[x] = 0

\* A stream holds these units, and no other.
Holds(s, S, n, N) ==
    /\ s \in Seq(Bytes) /\ n \in Nat
    /\ S \in [1 .. n + 1 -> Nat \ {0}]
    /\ S[n + 1] = Len(s) + 1
    /\ \A i \in 1 .. n : UnitFrom(s, S[i], S[i + 1], N[i])
    /\ \A x : CodeAt(s, x) => \E i \in 1 .. n : x = S[i]

\* What grows at every step grows from each to every later one.
LEMMA Rises ==
    ASSUME NEW n \in Nat, NEW S \in [1 .. n + 1 -> Nat], \A m \in 1 .. n : S[m] < S[m + 1],
           NEW i \in 1 .. n + 1, NEW k \in 1 .. i, k # i
    PROVE  S[k] < S[i]
  <1>2. PICK f : f = [m \in 0 .. n |-> S[m + 1]]
    OBVIOUS
  <1>3. ASSUME NEW m \in 0 .. n PROVE f[m] = S[m + 1] /\ f[m] \in Nat
    <2>1. m + 1 \in 1 .. n + 1
      OBVIOUS
    <2> QED BY <1>2, <2>1
  <1>4. f \in [0 .. n -> Nat]
    BY <1>2, <1>3
  <1>5. ASSUME NEW m \in 1 .. n PROVE f[m - 1] <= f[m]
    <2>1. m - 1 \in 0 .. n /\ m \in 0 .. n /\ m - 1 + 1 = m
      OBVIOUS
    <2>2. f[m - 1] = S[m] /\ f[m] = S[m + 1] /\ f[m - 1] \in Nat /\ f[m] \in Nat
      BY <1>3, <2>1
    <2>3. S[m] < S[m + 1]
      OBVIOUS
    <2> QED BY <2>2, <2>3
  <1>6. i - 1 \in 0 .. n /\ k \in 0 .. i - 1 /\ k \in 0 .. n /\ k \in 1 .. n /\ k \in 1 .. n + 1
    OBVIOUS
  <1>7. f[k] <= f[i - 1]
    BY <1>4, <1>5, <1>6, Grows
  <1>8. f[k] = S[k + 1] /\ f[i - 1] = S[i] /\ f[k] \in Nat /\ f[i - 1] \in Nat
    <2>1. i - 1 + 1 = i
      OBVIOUS
    <2> QED BY <1>3, <1>6, <2>1
  <1>9. S[k] < S[k + 1] /\ S[k] \in Nat
    BY <1>6
  <1> QED BY <1>7, <1>8, <1>9

\* Numbers that grow are as many as their places.
LEMMA CountRising ==
    ASSUME NEW i \in Nat, NEW f,
           \A k \in 1 .. i : \A m \in 1 .. i : f[k] = f[m] => k = m
    PROVE  Cardinality({f[k] : k \in 1 .. i}) = i
  <1>1. PICK T : T = {f[k] : k \in 1 .. i}
    OBVIOUS
  <1>2. PICK g : g = [k \in 1 .. i |-> f[k]]
    OBVIOUS
  <1>3. g \in [1 .. i -> T] /\ \A k \in 1 .. i : g[k] = f[k]
    BY <1>1, <1>2
  <1>4. \A a, b \in 1 .. i : g[a] = g[b] => a = b
    BY <1>3
  <1>5. \A t \in T : \E k \in 1 .. i : g[k] = t
    BY <1>1, <1>3
  <1>6. g \in Bijection(1 .. i, T)
    BY <1>3, <1>4, <1>5 DEF Bijection, Injection, Surjection, IsInjective
  <1>7. ExistsBijection(1 .. i, T)
    BY <1>6 DEF ExistsBijection
  <1>8. Cardinality(T) = i
    BY <1>7, FS_CountingElements
  <1> QED BY <1>1, <1>8

\* The start codes of a stream, in their order.
LEMMA StartsOf ==
    ASSUME NEW s, NEW S, NEW n, NEW N, Holds(s, S, n, N)
    PROVE  /\ Cardinality(CodesIn(s)) = n
           /\ \A k \in 1 .. n : NthOf(CodesIn(s), k) = S[k]
  <1>1. s \in Seq(Bytes) /\ n \in Nat /\ S \in [1 .. n + 1 -> Nat \ {0}] /\ Len(s) \in Nat
    BY DEF Holds
  <1>2. ASSUME NEW m \in 1 .. n PROVE S[m] < S[m + 1]
    <2>1. UnitFrom(s, S[m], S[m + 1], N[m])
      BY DEF Holds
    <2>2. PICK l \in Nat : l = Len(N[m])
      BY <2>1 DEF UnitFrom
    <2>3. S[m] + 3 + l <= S[m + 1]
      BY <2>1, <2>2 DEF UnitFrom
    <2>4. m \in 1 .. n + 1 /\ m + 1 \in 1 .. n + 1
      BY <1>1
    <2>5. S[m] \in Nat /\ S[m + 1] \in Nat
      BY <1>1, <2>4
    <2> QED BY <2>2, <2>3, <2>5, SMTT(40)
  <1>3. ASSUME NEW i \in 1 .. n, NEW k \in 1 .. n, k < i PROVE S[k] < S[i]
    <2>1. i \in 1 .. n + 1 /\ k \in 1 .. i /\ k # i
      BY <1>1, <1>3
    <2>2. S \in [1 .. n + 1 -> Nat]
      BY <1>1
    <2> QED BY <1>1, <1>2, <2>1, <2>2, Rises
  <1>4. ASSUME NEW i \in 1 .. n PROVE S[i] \in Nat
    BY <1>1
  <1>5. ASSUME NEW i \in 1 .. n, NEW k \in 1 .. n PROVE (S[k] <= S[i] <=> k <= i) /\ (S[k] = S[i] => k = i)
    <2>1. S[i] \in Nat /\ S[k] \in Nat
      BY <1>4
    <2>2. k < i => S[k] < S[i]
      BY <1>3
    <2>3. i < k => S[i] < S[k]
      BY <1>3
    <2>4. k = i => S[k] = S[i]
      OBVIOUS
    <2> QED BY <2>1, <2>2, <2>3, <2>4
  <1>6. PICK C : C = CodesIn(s)
    OBVIOUS
  <1>7. C = {S[k] : k \in 1 .. n}
    <2>1. ASSUME NEW x PROVE x \in C <=> CodeAt(s, x)
      <3>1. CASE x \in 1 .. Len(s) - 2
        BY <1>1, <1>6, <3>1, CodesByByte DEF CodesIn
      <3>2. CASE x \notin 1 .. Len(s) - 2
        BY <1>6, <3>2 DEF CodesIn, CodeAt
      <3> QED BY <3>1, <3>2
    <2>2. \A x : CodeAt(s, x) => \E i \in 1 .. n : x = S[i]
      BY DEF Holds
    <2>3. \A i \in 1 .. n : CodeAt(s, S[i])
      BY DEF Holds, UnitFrom
    <2> QED BY <2>1, <2>2, <2>3
  <1>8. Cardinality(C) = n
    <2>1. \A k \in 1 .. n : \A m \in 1 .. n : S[k] = S[m] => k = m
      BY <1>5
    <2>2. n \in Nat
      BY <1>1
    <2>3. Cardinality({S[k] : k \in 1 .. n}) = n
      BY <2>1, <2>2, CountRising
    <2> QED BY <1>7, <2>3
  <1>9. ASSUME NEW i \in 1 .. n PROVE Cardinality({j \in C : j <= S[i]}) = i
    <2>1. {j \in C : j <= S[i]} = {S[k] : k \in 1 .. i}
      <3>1. \A k \in 1 .. i : k \in 1 .. n /\ k <= i
        BY <1>1
      <3>2. \A k \in 1 .. n : k <= i => k \in 1 .. i
        BY <1>1
      <3> QED BY <1>5, <1>7, <3>1, <3>2
    <2>2. \A k \in 1 .. i : \A m \in 1 .. i : S[k] = S[m] => k = m
      <3>1. \A k \in 1 .. i : k \in 1 .. n
        BY <1>1
      <3> QED BY <1>5, <3>1
    <2>3. i \in Nat
      BY <1>1
    <2> QED BY <2>1, <2>2, <2>3, CountRising
  <1>10. ASSUME NEW k \in 1 .. n PROVE NthOf(C, k) = S[k]
    <2>1. S[k] \in C /\ Cardinality({j \in C : j <= S[k]}) = k
      BY <1>7, <1>9
    <2>2. \A y \in C : Cardinality({j \in C : j <= y}) = k => y = S[k]
      BY <1>7, <1>9
    <2>3. PICK y : y = NthOf(C, k)
      OBVIOUS
    <2>4. y \in C /\ Cardinality({j \in C : j <= y}) = k
      BY <2>1, <2>3, Zenon DEF NthOf
    <2> QED BY <2>2, <2>3, <2>4
  <1> QED BY <1>6, <1>8, <1>10

\* The zeros behind a unit are left away.
LEMMA ZerosLeft ==
    ASSUME NEW u \in Seq(Bytes), NEW l \in Nat \ {0}, l <= Len(u), u[l] # 0,
           \A x \in l + 1 .. Len(u) : u[x] = 0
    PROVE  WithoutZeros(u) = SubSeq(u, 1, l)
  <1>1. PICK m \in Nat : m = Len(u)
    OBVIOUS
  <1>2. l \in 0 .. Len(u)
    BY <1>1
  <1>3. ASSUME NEW n \in 0 .. Len(u), n = 0 \/ u[n] # 0, \A x \in n + 1 .. Len(u) : u[x] = 0
        PROVE  n = l
    <2>1. CASE n < l
      <3>1. l \in n + 1 .. Len(u)
        BY <1>1, <2>1
      <3> QED BY <1>3, <3>1
    <2>2. CASE n > l
      <3>1. n \in l + 1 .. Len(u) /\ n # 0
        BY <1>1, <2>2
      <3> QED BY <1>3, <3>1
    <2> QED BY <1>1, <2>1, <2>2
  <1>4. PICK c : c = CHOOSE n \in 0 .. Len(u) :
                        /\ n = 0 \/ u[n] # 0
                        /\ \A i \in n + 1 .. Len(u) : u[i] = 0
    OBVIOUS
  <1>5. c \in 0 .. Len(u) /\ (c = 0 \/ u[c] # 0) /\ \A x \in c + 1 .. Len(u) : u[x] = 0
    BY <1>2, <1>4, Zenon
  <1>6. c = l
    BY <1>3, <1>5
  <1> QED BY <1>4, <1>6, Zenon DEF WithoutZeros

\* What is cut out of a stream from a start code to the next, without the zeros, is
\* the unit.
LEMMA UnitCut ==
    ASSUME NEW s \in Seq(Bytes), NEW nal, NEW a \in Nat \ {0}, NEW b \in Nat,
           b <= Len(s) + 1, UnitFrom(s, a, b, nal)
    PROVE  WithoutZeros(SubSeq(s, a + 3, b - 1)) = nal
  <1>1. nal \in Seq(Bytes) /\ \E l \in Nat \ {0} : l = Len(nal) /\ nal[l] # 0
    BY DEF UnitFrom
  <1>0. PICK l \in Nat \ {0} : l = Len(nal) /\ nal[l] # 0
    BY <1>1
  <1>2. a + 3 + l <= b /\ \A k \in 1 .. l : s[a + 2 + k] = nal[k]
    BY <1>0 DEF UnitFrom
  <1>3. \A x \in a + 3 + l .. b - 1 : s[x] = 0
    BY <1>0 DEF UnitFrom
  <1>4. PICK m \in Nat : m = b - a - 3 /\ l <= m
    BY <1>2
  <1>5. PICK u : u = SubSeq(s, a + 3, b - 1)
    OBVIOUS
  <1>6. \A k \in a + 3 .. b - 1 : s[k] \in Bytes
    <2>1. TAKE k \in a + 3 .. b - 1
    <2>2. Len(s) \in Nat
      OBVIOUS
    <2>3. k \in 1 .. Len(s)
      BY <2>2
    <2> QED BY <2>3, ElementOfSeq
  <1>7. IsPart(u, Bytes, s, a + 3, m)
    <2>1. b - 1 = a + 3 + m - 1 /\ a + 3 \in Int
      BY <1>4
    <2>2. PICK c, d : c = a + 3 /\ d = b - 1
      OBVIOUS
    <2>3. c \in Int /\ d = c + m - 1 /\ u = SubSeq(s, c, d) /\ \A k \in c .. d : s[k] \in Bytes
      BY <1>5, <1>6, <2>1, <2>2
    <2>4. IsPart(u, Bytes, s, c, m)
      BY <2>3, PartOf, Zenon
    <2> QED BY <2>2, <2>4
  <1>8. u \in Seq(Bytes) /\ Len(u) = m /\ \A k \in 1 .. m : u[k] = s[a + 3 + k - 1]
    BY <1>7 DEF IsPart
  <1>9. ASSUME NEW k \in 1 .. l PROVE u[k] = nal[k]
    <2>1. k \in 1 .. m /\ a + 3 + k - 1 = a + 2 + k
      BY <1>4
    <2> QED BY <1>2, <1>8, <2>1
  <1>10. ASSUME NEW k \in l + 1 .. m PROVE u[k] = 0
    <2>1. k \in 1 .. m /\ a + 3 + k - 1 \in a + 3 + l .. b - 1
      BY <1>4
    <2> QED BY <1>3, <1>8, <2>1
  <1>11. WithoutZeros(u) = SubSeq(u, 1, l)
    <2>1. u[l] # 0
      BY <1>0, <1>9
    <2> QED BY <1>4, <1>8, <1>10, <2>1, ZerosLeft
  <1>12. PICK w : w = SubSeq(u, 1, l)
    OBVIOUS
  <1>13. IsPart(w, Bytes, u, 1, l)
    <2>1. 1 \in Int /\ l \in Nat /\ l = 1 + l - 1
      OBVIOUS
    <2>2. \A k \in 1 .. l : u[k] \in Bytes
      <3>1. TAKE k \in 1 .. l
      <3>2. k \in 1 .. Len(u)
        BY <1>4, <1>8
      <3> QED BY <1>8, <3>2, ElementOfSeq
    <2> QED BY <1>12, <2>1, <2>2, PartOf, Zenon
  <1>14. w \in Seq(Bytes) /\ Len(w) = l /\ \A k \in 1 .. l : w[k] = nal[k]
    <2>1. w \in Seq(Bytes) /\ Len(w) = l /\ \A k \in 1 .. l : w[k] = u[1 + k - 1]
      BY <1>13 DEF IsPart
    <2>2. \A k \in 1 .. l : 1 + k - 1 = k
      OBVIOUS
    <2> QED BY <1>9, <2>1, <2>2
  <1>15. w = nal
    BY <1>0, <1>1, <1>14, SeqEqual
  <1> QED BY <1>1, <1>5, <1>11, <1>12, <1>15

\* A player finds the units that a stream holds.
LEMMA UnitsFound ==
    ASSUME NEW s, NEW S, NEW n, NEW N, Holds(s, S, n, N)
    PROVE  /\ DOMAIN UnitsIn(s) = 1 .. n /\ Len(UnitsIn(s)) = n
           /\ \A i \in 1 .. n : UnitsIn(s)[i] = N[i]
  <1>1. s \in Seq(Bytes) /\ n \in Nat /\ S \in [1 .. n + 1 -> Nat \ {0}] /\ Len(s) \in Nat
        /\ S[n + 1] = Len(s) + 1
    BY DEF Holds
  <1>2. PICK T : T = StartsIn(s)
    OBVIOUS
  <1>3. T = [k \in 1 .. n |-> NthOf(CodesIn(s), k)]
    BY <1>2, StartsOf, Zenon DEF StartsIn
  <1>4. DOMAIN T = 1 .. n /\ Len(T) = n /\ \A k \in 1 .. n : T[k] = S[k]
    <2>1. DOMAIN T = 1 .. n /\ \A k \in 1 .. n : T[k] = S[k]
      BY <1>3, StartsOf
    <2>2. T \in [1 .. n -> Nat]
      <3>1. \A k \in 1 .. n : S[k] \in Nat
        BY <1>1
      <3> QED BY <1>3, <2>1, <3>1
    <2>3. T \in Seq(Nat)
      BY <1>1, <2>2
    <2>4. Len(T) \in Nat /\ DOMAIN T = 1 .. Len(T)
      BY <2>3, LenProperties
    <2>5. Len(T) = n
      BY <1>1, <2>1, <2>4, SameLength
    <2> QED BY <2>1, <2>5
  <1> DEFINE next(i) == IF i = Len(T) THEN Len(s) + 1 ELSE T[i + 1]
  <1>5. ASSUME NEW i \in 1 .. n PROVE next(i) = S[i + 1]
    <2>1. i # n => i + 1 \in 1 .. n
      BY <1>1
    <2> QED BY <1>1, <1>4, <2>1
  <1> HIDE DEF next
  <1>6. PICK found : found = UnitsIn(s)
    OBVIOUS
  <1>7. found = [i \in DOMAIN T |-> WithoutZeros(SubSeq(s, T[i] + 3, next(i) - 1))]
    BY <1>2, <1>6, Zenon DEF UnitsIn, next
  <1>8. ASSUME NEW i \in 1 .. n PROVE found[i] = N[i]
    <2>1. UnitFrom(s, S[i], S[i + 1], N[i])
      BY DEF Holds
    <2>2. i \in 1 .. n + 1 /\ i + 1 \in 1 .. n + 1
      BY <1>1
    <2>3. PICK a \in Nat \ {0}, b \in Nat : a = S[i] /\ b = S[i + 1]
      BY <1>1, <2>2
    <2>7. UnitFrom(s, a, b, N[i])
      BY <2>1, <2>3
    <2>4. b <= Len(s) + 1
      <3>1. CASE i = n
        BY <1>1, <2>3, <3>1
      <3>2. CASE i # n
        <4>1. i + 1 \in 1 .. n
          BY <1>1, <3>2
        <4>2. CodeAt(s, b)
          BY <2>3, <4>1 DEF Holds, UnitFrom
        <4> QED BY <1>1, <4>2 DEF CodeAt
      <3> QED BY <3>1, <3>2
    <2>5. WithoutZeros(SubSeq(s, a + 3, b - 1)) = N[i]
      <3>1. s \in Seq(Bytes) /\ b \in Nat
        BY <1>1
      <3>2. a \in Nat \ {0}
        OBVIOUS
      <3>3. PICK nal : nal = N[i] /\ UnitFrom(s, a, b, nal)
        BY <2>7
      <3>4. WithoutZeros(SubSeq(s, a + 3, b - 1)) = nal
        BY <2>4, <3>1, <3>2, <3>3, UnitCut, ZenonT(40)
      <3> QED BY <3>3, <3>4, Zenon
    <2>6. found[i] = WithoutZeros(SubSeq(s, a + 3, b - 1))
      BY <1>4, <1>5, <1>7, <2>3, SMTT(40)
    <2> QED BY <2>5, <2>6
  <1>9. DOMAIN found = 1 .. n /\ Len(found) = n
    <2>1. found \in [1 .. n -> Seq(Bytes)]
      <3>1. \A i \in 1 .. n : N[i] \in Seq(Bytes)
        BY DEF Holds, UnitFrom
      <3>2. DOMAIN found = 1 .. n /\ found = [i \in 1 .. n |-> found[i]]
        BY <1>4, <1>7
      <3> QED BY <1>8, <3>1, <3>2
    <2>2. PICK Z : Z = Seq(Bytes)
      OBVIOUS
    <2>3. found \in [1 .. n -> Z]
      BY <2>1, <2>2
    <2>4. found \in Seq(Z)
      BY <1>1, <2>3
    <2>5. Len(found) \in Nat /\ DOMAIN found = 1 .. Len(found) /\ DOMAIN found = 1 .. n
      BY <2>3, <2>4, LenProperties
    <2> QED BY <1>1, <2>5, SameLength
  <1> QED BY <1>6, <1>8, <1>9

\* The start code of a piece lies in the stream.
LEMMA CodeFits ==
    ASSUME NEW a \in Nat, NEW e \in Nat, NEW q \in Nat, NEW l \in Nat \ {0}, NEW h \in Nat,
           NEW z \in Nat, NEW t \in Nat, e <= h, e = a + q, q = z + 3 + l + t
    PROVE  a + z + 1 \in 1 .. h - 2
  OBVIOUS

\* Where the start codes of the pieces are, and the end.
AreStarts(S, s, n, at, Z) ==
    S = [i \in 1 .. n + 1 |-> IF i = n + 1 THEN Len(s) + 1 ELSE at[i - 1] + Z[i] + 1]

\* A stream that is laid out of pieces holds their units.
LEMMA PiecesHold ==
    ASSUME NEW s \in Seq(Bytes), NEW at, NEW n, NEW parts, NEW Z, NEW N, NEW T,
           Pieces(n, parts, Z, N, T), Laid(s, at, n, parts),
           NEW S, AreStarts(S, s, n, at, Z)
    PROVE  Holds(s, S, n, N)
  <1>1. n \in Nat /\ Len(s) \in Nat /\ Len(s) = at[n] /\ at[0] = 0
    BY DEF Pieces, Laid
  <1>3. S[n + 1] = Len(s) + 1 /\ n + 1 \in 1 .. n + 1
    BY <1>1 DEF AreStarts
  <1>4. ASSUME NEW i \in 1 .. n PROVE S[i] = at[i - 1] + Z[i] + 1 /\ Z[i] \in {0, 1} /\ at[i - 1] \in Nat
    <2>1. i \in 1 .. n + 1 /\ i # n + 1
      BY <1>1
    <2>2. S[i] = at[i - 1] + Z[i] + 1
      BY <2>1 DEF AreStarts
    <2>3. Z[i] \in {0, 1}
      BY DEF Pieces, IsPiece
    <2> QED BY <2>2, <2>3, PieceIn
  <1>5. S \in [1 .. n + 1 -> Nat \ {0}]
    <2>1. \A i \in 1 .. n + 1 : S[i] \in Nat \ {0}
      <3>1. TAKE i \in 1 .. n + 1
      <3>2. CASE i = n + 1
        BY <1>1, <1>3, <3>2
      <3>3. CASE i # n + 1
        <4>1. i \in 1 .. n
          BY <1>1, <3>3
        <4> QED BY <1>4, <4>1
      <3> QED BY <3>2, <3>3
    <2> QED BY <2>1 DEF AreStarts
  <1>6. ASSUME NEW i \in 1 .. n PROVE UnitFrom(s, S[i], S[i + 1], N[i])
    <2>1. PICK p, z, nal, t : p = parts[i] /\ z = Z[i] /\ nal = N[i] /\ t = T[i]
      OBVIOUS
    <2>2. IsPiece(p, z, nal, t)
      BY <2>1 DEF Pieces
    <2>3. PICK l \in Nat \ {0} : l = Len(nal) /\ nal[l] # 0
      BY <2>2 DEF IsPiece
    <2>4. z \in {0, 1} /\ t \in {0, 1} /\ nal \in Seq(Bytes)
      BY <2>2 DEF IsPiece
    <2>5. PICK a \in Nat, e \in Nat : a = at[i - 1] /\ e = at[i] /\ e <= Len(s)
      BY PieceIn
    <2>6. PICK q \in Nat : q = Len(p) /\ q = z + 3 + l + t /\ e = a + q
      <3>1. Len(p) = z + 3 + l + t
        BY <2>2, <2>3 DEF IsPiece
      <3>2. at[i] = at[i - 1] + Len(parts[i])
        BY PieceIn
      <3>3. Len(p) \in Nat
        BY <2>4, <3>1
      <3>4. at[i] = e /\ at[i - 1] = a /\ parts[i] = p
        BY <2>1, <2>5
      <3>5. e = a + Len(p)
        BY <3>2, <3>4, Zenon
      <3> QED BY <3>1, <3>3, <3>5
    <2>7. \A k \in 1 .. q : s[a + k] = p[k]
      <3>1. \A k \in 1 .. Len(parts[i]) : s[at[i - 1] + k] = parts[i][k]
        BY PieceIn, SMTT(40)
      <3> QED BY <2>1, <2>5, <2>6, <3>1
    <2>8. S[i] = a + z + 1
      BY <1>4, <2>1, <2>5
    <2>9. CodeAt(s, a + z + 1)
      <3>1. p[z + 1] = 0 /\ p[z + 2] = 0 /\ p[z + 3] = 1
        BY <2>2 DEF IsPiece
      <3>2. z + 1 \in 1 .. q /\ z + 2 \in 1 .. q /\ z + 3 \in 1 .. q
        BY <2>4, <2>6
      <3>3. s[a + (z + 1)] = 0 /\ s[a + (z + 2)] = 0 /\ s[a + (z + 3)] = 1
        BY <2>7, <3>1, <3>2
      <3>4. a + (z + 1) = a + z + 1 /\ a + (z + 2) = a + z + 1 + 1 /\ a + (z + 3) = a + z + 1 + 2
        BY <2>4
      <3>5. a + z + 1 \in 1 .. Len(s) - 2
        <4>1. PICK h \in Nat : h = Len(s)
          BY <1>1
        <4>2. z \in Nat /\ t \in Nat
          BY <2>4
        <4>3. e <= h /\ e = a + q /\ q = z + 3 + l + t
          BY <2>5, <2>6, <4>1
        <4>4. a + z + 1 \in 1 .. h - 2
          BY <4>2, <4>3, CodeFits, Zenon
        <4> QED BY <4>1, <4>4
      <3> QED BY <3>3, <3>4, <3>5 DEF CodeAt
    <2>10. PICK b \in Nat : /\ b = S[i + 1] /\ e + 1 <= b
                            /\ \A x \in e + 1 .. b - 1 : s[x] = 0
      <3>1. CASE i = n
        <4>1. S[i + 1] = e + 1
          BY <1>1, <1>3, <2>5, <3>1
        <4>2. e + 1 .. e + 1 - 1 = {}
          BY <2>5
        <4> QED BY <4>1, <4>2
      <3>2. CASE i # n
        <4>1. i + 1 \in 1 .. n /\ i + 1 - 1 = i
          BY <1>1, <3>2
        <4>2. PICK y : y = Z[i + 1]
          OBVIOUS
        <4>3. y \in {0, 1} /\ S[i + 1] = at[i + 1 - 1] + y + 1
          BY <1>4, <4>1, <4>2
        <4>4. S[i + 1] = e + y + 1
          BY <2>5, <4>1, <4>3
        <4>5. ASSUME y = 1 PROVE s[e + 1] = 0
          <5>1. parts[i + 1][1] = 0
            BY <4>1 DEF Pieces, IsPiece
          <5>2. Len(parts[i + 1]) \in Nat /\ 4 <= Len(parts[i + 1])
                /\ \A k \in 1 .. Len(parts[i + 1]) : s[at[i + 1 - 1] + k] = parts[i + 1][k]
            BY <4>1, PieceIn
          <5>3. 1 \in 1 .. Len(parts[i + 1])
            BY <5>2
          <5>4. s[at[i + 1 - 1] + 1] = 0
            BY <5>1, <5>2, <5>3
          <5> QED BY <2>5, <4>1, <5>4
        <4>6. \A x \in e + 1 .. e + y + 1 - 1 : s[x] = 0
          <5>1. TAKE x \in e + 1 .. e + y + 1 - 1
          <5>2. y = 1 /\ x = e + 1
            BY <2>5, <4>3, SMTT(40)
          <5> QED BY <4>5, <5>2
        <4>7. PICK d \in Nat : d = e + y + 1 /\ e + 1 <= d
          BY <2>5, <4>3
        <4>8. \A x \in e + 1 .. d - 1 : s[x] = 0
          BY <4>3, <4>6, <4>7
        <4>9. d = S[i + 1]
          BY <4>4, <4>7
        <4> HIDE DEF Holds
        <4> QED BY <4>7, <4>8, <4>9
      <3> QED BY <3>1, <3>2
    <2>11. \A k \in 1 .. l : s[(a + z + 1) + 2 + k] = nal[k]
      <3>1. TAKE k \in 1 .. l
      <3>2. p[z + 3 + k] = nal[k]
        BY <2>2, <2>3 DEF IsPiece
      <3>3. z + 3 + k \in 1 .. q /\ a + (z + 3 + k) = (a + z + 1) + 2 + k
        BY <2>4, <2>6
      <3>4. s[a + (z + 3 + k)] = nal[k]
        BY <2>7, <3>2, <3>3
      <3> QED BY <3>3, <3>4
    <2>12. \A x \in (a + z + 1) + 3 + l .. b - 1 : s[x] = 0
      <3>1. TAKE x \in (a + z + 1) + 3 + l .. b - 1
      <3>2. CASE x > e
        <4>1. x \in e + 1 .. b - 1
          BY <2>4, <2>10, <3>2
        <4> QED BY <2>10, <4>1
      <3>3. CASE x <= e
        <4>1. x \in Int /\ a + z + 1 + 3 + l <= x
          BY <2>4
        <4>2. PICK k \in Int : k = x - a
          BY <4>1
        <4>3. k \in z + 4 + l .. q /\ k \in 1 .. q /\ a + k = x
          BY <2>4, <2>6, <3>3, <4>1, <4>2
        <4>4. p[k] = 0
          BY <2>2, <2>3, <2>6, <4>3 DEF IsPiece
        <4> QED BY <2>7, <4>3, <4>4
      <3>4. x \in Int
        BY <2>4
      <3> QED BY <2>5, <3>2, <3>3, <3>4
    <2>13. (a + z + 1) + 3 + l <= b
      BY <2>4, <2>6, <2>10
    <2>14. UnitFrom(s, a + z + 1, b, nal)
      BY <2>3, <2>4, <2>9, <2>11, <2>12, <2>13 DEF UnitFrom
    <2> QED BY <2>1, <2>8, <2>10, <2>14
  <1>7. ASSUME NEW x, CodeAt(s, x) PROVE \E i \in 1 .. n : x = S[i]
    <2>1. PICK i \in 1 .. n : x = at[i - 1] + Z[i] + 1
      BY <1>7, CodesOfPieces
    <2> QED BY <1>4, <2>1
  <1> QED BY <1>1, <1>3, <1>5, <1>6, <1>7 DEF Holds

\* A unit without its start code.
NalOf(unit) == <<unit.header>> \o unit.body

\* The bytes of a unit of the encoder are a piece of a stream.
LEMMA PieceOfUnit ==
    ASSUME NEW u \in NalUnits, IsEscaped(u), NEW b, b = BytesOfUnit(u)
    PROVE  IsPiece(b, u.zeros, NalOf(u), 0)
  <1>0. PICK z \in {0, 1}, h \in Bytes, body \in Seq(Bytes) :
            u.zeros = z /\ u.header = h /\ u.body = body
    BY DEF NalUnits
  <1>1. z \in Nat /\ z + 1 \in Nat /\ Len(body) \in Nat
    OBVIOUS
  <1>2. PICK lead : lead = [i \in 1 .. z |-> 0]
    OBVIOUS
  <1>3. lead \in Seq(Bytes) /\ Len(lead) = z /\ \A k \in 1 .. z : lead[k] = 0
    <2>1. lead \in [1 .. z -> Bytes] /\ \A k \in 1 .. z : lead[k] = 0
      BY <1>2 DEF Bytes
    <2>2. z \in Nat
      BY <1>1
    <2>3. lead \in Seq(Bytes)
      BY <2>1, <2>2
    <2>4. DOMAIN lead = 1 .. Len(lead) /\ Len(lead) \in Nat
      BY <2>3, LenProperties
    <2>5. 1 .. Len(lead) = 1 .. z
      BY <2>1, <2>4, Zenon
    <2>6. Len(lead) = z
      BY <2>2, <2>4, <2>5, SameLength, Zenon
    <2> QED BY <2>1, <2>3, <2>6
  <1>4. PICK nal : nal = <<h>> \o body
    OBVIOUS
  <1>5. nal \in Seq(Bytes) /\ Len(nal) = 1 + Len(body)
    BY <1>1, <1>4
  <1>6. PICK code : code = lead \o <<0, 0, 1>>
    OBVIOUS
  <1>7. /\ code \in Seq(Bytes) /\ Len(code) = z + 3
        /\ \A k \in 1 .. z : code[k] = 0
        /\ code[z + 1] = 0 /\ code[z + 2] = 0 /\ code[z + 3] = 1
    <2>1. PICK three : three = <<0, 0, 1>>
      OBVIOUS
    <2>2. three \in Seq(Bytes) /\ Len(three) = 3 /\ three[1] = 0 /\ three[2] = 0 /\ three[3] = 1
      BY <2>1 DEF Bytes
    <2>3. code = lead \o three
      BY <1>6, <2>1
    <2>4. /\ code \in Seq(Bytes) /\ Len(code) = Len(lead) + Len(three)
          /\ \A k \in 1 .. Len(lead) : code[k] = lead[k]
          /\ \A k \in 1 .. Len(three) : code[Len(lead) + k] = three[k]
      <3>1. lead \in Seq(Bytes) /\ three \in Seq(Bytes)
        BY <1>3, <2>2
      <3> QED BY <2>3, <3>1, ConcatFacts
    <2>5. code[z + 1] = 0 /\ code[z + 2] = 0 /\ code[z + 3] = 1
      BY <1>3, <2>2, <2>4
    <2> QED BY <1>3, <2>2, <2>4, <2>5
  <1>8. b = code \o nal
    <2>1. b = ((lead \o <<0, 0, 1>>) \o <<h>>) \o body
      BY <1>0, <1>2, Zenon DEF BytesOfUnit, StartCode
    <2>2. <<h>> \in Seq(Bytes)
      BY <1>1
    <2>3. (code \o <<h>>) \o body = code \o (<<h>> \o body)
      BY <1>1, <1>7, <2>2, ConcatAssociative
    <2> QED BY <1>4, <1>6, <2>1, <2>3, Zenon
  <1>9. /\ b \in Seq(Bytes) /\ Len(b) = z + 3 + Len(nal)
        /\ \A k \in 1 .. z + 3 : b[k] = code[k]
        /\ \A k \in 1 .. Len(nal) : b[z + 3 + k] = nal[k]
    <2>1. /\ b \in Seq(Bytes) /\ Len(b) = Len(code) + Len(nal)
          /\ \A k \in 1 .. Len(code) : b[k] = code[k]
          /\ \A k \in 1 .. Len(nal) : b[Len(code) + k] = nal[k]
      BY <1>5, <1>7, <1>8, ConcatFacts, SMTT(40)
    <2> QED BY <1>7, <2>1
  <1>10. nal = NalOf(u)
    BY <1>0, <1>4, Zenon DEF NalOf
  <1>11. nal[Len(nal)] # 0
    BY <1>0, <1>4 DEF IsEscaped
  <1>12. b[z + 1] = 0 /\ b[z + 2] = 0 /\ b[z + 3] = 1
    <2>1. z + 1 \in 1 .. z + 3 /\ z + 2 \in 1 .. z + 3 /\ z + 3 \in 1 .. z + 3
      BY <1>1
    <2> QED BY <1>7, <1>9, <2>1
  <1>13. b[1] = 0 /\ b[2] = 0
    <2>1. CASE z = 0
      <3>1. z + 1 = 1 /\ z + 2 = 2
        BY <2>1
      <3> QED BY <1>12, <3>1
    <2>2. CASE z = 1
      <3>1. z + 1 = 2 /\ 1 \in 1 .. z /\ 1 \in 1 .. z + 3
        BY <2>2
      <3> QED BY <1>7, <1>9, <1>12, <3>1
    <2> QED BY <2>1, <2>2
  <1>14. ASSUME NEW x \in 1 .. Len(nal) - 2 PROVE ~CodeAt(nal, x)
    <2>1. SubSeq(nal, x, x + 2) # StartCode
      BY <1>0, <1>4 DEF IsEscaped
    <2> QED BY <1>5, <2>1, CodesByByte
  <1>15. Len(nal) \in Nat \ {0} /\ Len(b) = z + 3 + Len(nal) + 0
    BY <1>1, <1>5, <1>9
  <1>16. \A k \in z + 4 + Len(nal) .. Len(b) : b[k] = 0
    <2>1. z + 4 + Len(nal) .. Len(b) = {}
      BY <1>1, <1>5, <1>15
    <2> QED BY <2>1
  <1>17. IsPiece(b, z, nal, 0)
    BY <1>5, <1>9, <1>11, <1>12, <1>13, <1>14, <1>15, <1>16 DEF IsPiece
  <1> QED BY <1>0, <1>10, <1>17

\* Where the start codes of a stream are: S[i] is that of the i-th unit, and the
\* last is the end.
Outline(s, S, n, units) ==
    /\ s \in Seq(Bytes) /\ n \in Nat
    /\ S \in [1 .. n + 1 -> Nat \ {0}]
    /\ S[n + 1] = Len(s) + 1
    /\ n > 0 => units[1].zeros \in Nat /\ S[1] = units[1].zeros + 1
    /\ \A i \in 1 .. n :
          CodeAt(s, S[i]) /\ s[S[i] + 3] = units[i].header /\ S[i] + 4 <= S[i + 1]
    /\ \A i \in 1 .. n :
          /\ UnitFrom(s, S[i], S[i + 1], NalOf(units[i]))
          /\ S[i + 1] <= S[i] + 4 + Len(NalOf(units[i]))
    /\ \A x : CodeAt(s, x) => \E i \in 1 .. n : x = S[i]

\* A stream of pieces without zeros at their ends.
IsOf(s, at, n, parts, Z, N, T) ==
    /\ s \in Seq(Bytes)
    /\ Pieces(n, parts, Z, N, T) /\ Laid(s, at, n, parts)
    /\ \A i \in 1 .. n : T[i] = 0

\* The pieces of a stream of the encoder.
LEMMA PiecesOfStream ==
    ASSUME NEW units \in Seq(NalUnits), \A i \in DOMAIN units : IsEscaped(units[i]),
           NEW n \in Nat, n = Len(units), NEW s, s = StreamOf(units),
           NEW Z, Z = [i \in 1 .. n |-> units[i].zeros],
           NEW N, N = [i \in 1 .. n |-> NalOf(units[i])]
    PROVE  \E at, parts, T : IsOf(s, at, n, parts, Z, N, T)
  <1>1. DOMAIN units = 1 .. n
    BY LenProperties
  <1>2. PICK parts : parts = [i \in DOMAIN units |-> BytesOfUnit(units[i])]
    OBVIOUS
  <1>3. PICK T : T = [i \in 1 .. n |-> 0]
    OBVIOUS
  <1>4. ASSUME NEW i \in 1 .. n PROVE IsPiece(parts[i], Z[i], N[i], T[i])
    <2>1. units[i] \in NalUnits /\ IsEscaped(units[i]) /\ parts[i] = BytesOfUnit(units[i])
      BY <1>1, <1>2
    <2>2. IsPiece(parts[i], units[i].zeros, NalOf(units[i]), 0)
      BY <2>1, PieceOfUnit
    <2> QED BY <1>3, <2>2
  <1>5. parts \in [1 .. n -> Seq(Bytes)]
    <2>1. \A i \in 1 .. n : parts[i] \in Seq(Bytes)
      BY <1>4 DEF IsPiece
    <2> QED BY <1>1, <1>2, <2>1
  <1>6. Len(parts) = n
    <2>0. PICK B : B = Seq(Bytes)
      OBVIOUS
    <2>a. parts \in [1 .. n -> B]
      BY <1>5, <2>0
    <2>1. parts \in Seq(B)
      BY <2>a
    <2>2. DOMAIN parts = 1 .. Len(parts) /\ Len(parts) \in Nat
      BY <2>1, LenProperties, Zenon
    <2>3. DOMAIN parts = 1 .. n
      BY <1>5, Zenon
    <2> QED BY <2>2, <2>3, SameLength, Zenon
  <1>7. s = FlattenSeq(parts)
    BY <1>2, Zenon DEF StreamOf, Concat
  <1>8. s \in Seq(Bytes) /\ \E at : Laid(s, at, n, parts)
    BY <1>5, <1>6, <1>7, Flattened, Zenon
  <1>9. Pieces(n, parts, Z, N, T) /\ \A i \in 1 .. n : T[i] = 0
    BY <1>3, <1>4 DEF Pieces
  <1> QED BY <1>8, <1>9 DEF IsOf

\* Units of any encoder have a stream with an outline.
LEMMA StreamHasOutline ==
    ASSUME NEW units \in Seq(NalUnits), \A i \in DOMAIN units : IsEscaped(units[i])
    PROVE  \E S : Outline(StreamOf(units), S, Len(units), units)
  <1>1. PICK n \in Nat : n = Len(units) /\ DOMAIN units = 1 .. n
    BY LenProperties
  <1>2. PICK s, Z, N : /\ s = StreamOf(units) /\ Z = [i \in 1 .. n |-> units[i].zeros]
                       /\ N = [i \in 1 .. n |-> NalOf(units[i])]
    OBVIOUS
  <1>3. PICK at, parts, T : IsOf(s, at, n, parts, Z, N, T)
    BY <1>1, <1>2, PiecesOfStream, Zenon
  <1>4. /\ s \in Seq(Bytes) /\ Pieces(n, parts, Z, N, T) /\ Laid(s, at, n, parts)
        /\ \A i \in 1 .. n : T[i] = 0
    BY <1>3 DEF IsOf
  <1>5. PICK S : AreStarts(S, s, n, at, Z)
    BY DEF AreStarts
  <1>6. Holds(s, S, n, N)
    BY <1>4, <1>5, PiecesHold
  <1>7. /\ S \in [1 .. n + 1 -> Nat \ {0}] /\ S[n + 1] = Len(s) + 1
        /\ \A i \in 1 .. n : UnitFrom(s, S[i], S[i + 1], N[i])
        /\ \A x : CodeAt(s, x) => \E i \in 1 .. n : x = S[i]
    BY <1>6 DEF Holds
  <1>8. ASSUME NEW i \in 1 .. n
        PROVE  /\ Z[i] = units[i].zeros /\ N[i] = NalOf(units[i])
               /\ Z[i] \in {0, 1} /\ S[i] = at[i - 1] + Z[i] + 1
               /\ N[i] \in Seq(Bytes) /\ Len(N[i]) \in Nat \ {0} /\ N[i][1] = units[i].header
               /\ at[i - 1] \in Nat /\ at[i] = at[i - 1] + (Z[i] + 3 + Len(N[i]))
    <2>1. Z[i] = units[i].zeros /\ N[i] = NalOf(units[i])
      BY <1>2
    <2>2. i \in 1 .. n + 1 /\ i # n + 1
      BY <1>1
    <2>3. S[i] = at[i - 1] + Z[i] + 1
      BY <1>5, <2>2 DEF AreStarts
    <2>4. IsPiece(parts[i], Z[i], N[i], T[i]) /\ T[i] = 0
      BY <1>4 DEF Pieces
    <2>5. /\ Z[i] \in {0, 1} /\ N[i] \in Seq(Bytes) /\ Len(N[i]) \in Nat \ {0}
          /\ Len(parts[i]) = Z[i] + 3 + Len(N[i]) + T[i]
      BY <2>4 DEF IsPiece
    <2>6. at[i - 1] \in Nat /\ at[i] = at[i - 1] + Len(parts[i])
      BY <1>4, PieceIn
    <2>7. Len(parts[i]) = Z[i] + 3 + Len(N[i])
      BY <2>4, <2>5
    <2>8. N[i][1] = units[i].header
      <3>1. units[i] \in NalUnits
        BY <1>1
      <3>2. PICK h \in Bytes, w \in Seq(Bytes) : h = units[i].header /\ w = units[i].body
        BY <3>1 DEF NalUnits
      <3>3. N[i] = <<h>> \o w
        BY <2>1, <3>2, Zenon DEF NalOf
      <3> QED BY <3>2, <3>3
    <2> QED BY <2>1, <2>3, <2>5, <2>6, <2>7, <2>8
  <1>9. ASSUME NEW i \in 1 .. n
        PROVE  /\ CodeAt(s, S[i]) /\ s[S[i] + 3] = units[i].header /\ S[i] + 4 <= S[i + 1]
               /\ S[i + 1] <= S[i] + 4 + Len(N[i])
    <2>1. UnitFrom(s, S[i], S[i + 1], N[i])
      BY <1>7
    <2>a. PICK a, z, l, c : a = at[i - 1] /\ z = Z[i] /\ l = Len(N[i]) /\ c = at[i]
      OBVIOUS
    <2>2. /\ a = at[i - 1] /\ z = Z[i] /\ l = Len(N[i]) /\ c = at[i]
          /\ S[i] = a + z + 1 /\ c = a + (z + 3 + l)
      BY <1>8, <2>a, Zenon
    <2>0. a \in Nat /\ z \in Nat /\ l \in Nat \ {0} /\ c \in Nat /\ c = a + (z + 3 + l)
      <3>1. a \in Nat
        BY <1>8, <2>a, Zenon
      <3>2. z \in {0, 1}
        BY <1>8, <2>a, Zenon
      <3>3. l \in Nat \ {0}
        BY <1>8, <2>a, Zenon
      <3>4. c = a + (z + 3 + l)
        BY <2>2, Zenon
      <3> QED BY <3>1, <3>2, <3>3, <3>4
    <2>3. CodeAt(s, S[i]) /\ S[i] + 3 + l <= S[i + 1] /\ s[S[i] + 2 + 1] = N[i][1]
      <3>1. 1 \in 1 .. l
        BY <2>0
      <3>2. PICK u, v, nal : u = S[i] /\ v = S[i + 1] /\ nal = N[i]
        OBVIOUS
      <3>3. UnitFrom(s, u, v, nal) /\ Len(nal) = l
        BY <2>1, <2>2, <3>2, Zenon
      <3>4. CodeAt(s, u) /\ u + 3 + l <= v /\ s[u + 2 + 1] = nal[1]
        BY <3>1, <3>3 DEF UnitFrom
      <3> QED BY <3>2, <3>4, Zenon
    <2>4. S[i] + 2 + 1 = S[i] + 3
      BY <2>0, <2>2, SMTT(40)
    <2>5. PICK y \in {0, 1} : S[i + 1] = c + y + 1
      <3>1. CASE i = n
        <4>1. S[i + 1] = Len(s) + 1 /\ Len(s) = c
          BY <1>4, <1>7, <2>2, <3>1 DEF Laid
        <4>2. S[i + 1] = c + 0 + 1
          BY <2>0, <4>1
        <4> QED BY <4>2
      <3>2. CASE i # n
        <4>1. i + 1 \in 1 .. n /\ i + 1 - 1 = i
          BY <1>1, <3>2
        <4>2. Z[i + 1] \in {0, 1} /\ S[i + 1] = at[i + 1 - 1] + Z[i + 1] + 1
          BY <1>8, <4>1
        <4> QED BY <2>2, <4>1, <4>2
      <3> QED BY <3>1, <3>2
    <2>6. S[i + 1] <= S[i] + 4 + l /\ S[i] + 4 <= S[i + 1]
      <3>1. a + z + 1 + 4 + l >= c + y + 1 /\ a + z + 1 + 4 <= c + y + 1
        BY <2>0
      <3> QED BY <2>2, <2>5, <3>1
    <2> QED BY <1>8, <2>2, <2>3, <2>4, <2>6
  <1>10. ASSUME n > 0 PROVE units[1].zeros \in Nat /\ S[1] = units[1].zeros + 1
    <2>1. 1 \in 1 .. n /\ 1 - 1 = 0
      BY <1>1, <1>10
    <2>2. PICK z \in {0, 1} : z = Z[1] /\ units[1].zeros = z /\ S[1] = at[1 - 1] + z + 1
      BY <1>8, <2>1
    <2>3. at[0] = 0
      BY <1>4 DEF Laid
    <2> QED BY <2>1, <2>2, <2>3
  <1>11. \A i \in 1 .. n :
            UnitFrom(s, S[i], S[i + 1], NalOf(units[i])) /\ S[i + 1] <= S[i] + 4 + Len(NalOf(units[i]))
    BY <1>7, <1>8, <1>9
  <1>12. Outline(s, S, n, units)
    BY <1>1, <1>4, <1>7, <1>9, <1>10, <1>11 DEF Outline
  <1> QED BY <1>1, <1>2, <1>12

\* The start codes come in the order of the units.
LEMMA CodesGrow ==
    ASSUME NEW s, NEW S, NEW n, NEW units, Outline(s, S, n, units),
           NEW i \in 1 .. n + 1, NEW k \in 1 .. i
    PROVE  S[k] <= S[i]
  <1>1. n \in Nat /\ S \in [1 .. n + 1 -> Nat \ {0}] /\ \A m \in 1 .. n : S[m] + 4 <= S[m + 1]
    BY DEF Outline
  <1>2. PICK f : f = [m \in 0 .. n |-> S[m + 1]]
    OBVIOUS
  <1>3. ASSUME NEW m \in 0 .. n PROVE f[m] = S[m + 1] /\ f[m] \in Nat
    <2>1. m + 1 \in 1 .. n + 1
      BY <1>1
    <2> QED BY <1>1, <1>2, <2>1
  <1>4. f \in [0 .. n -> Nat]
    BY <1>2, <1>3
  <1>5. ASSUME NEW m \in 1 .. n PROVE f[m - 1] <= f[m]
    <2>1. m - 1 \in 0 .. n /\ m \in 0 .. n /\ m - 1 + 1 = m
      BY <1>1
    <2>2. f[m - 1] = S[m] /\ f[m] = S[m + 1] /\ f[m - 1] \in Nat /\ f[m] \in Nat
      BY <1>3, <2>1
    <2>3. S[m] + 4 <= S[m + 1]
      BY <1>1
    <2> QED BY <2>2, <2>3
  <1>6. i - 1 \in 0 .. n /\ k - 1 \in 0 .. i - 1 /\ k - 1 \in 0 .. n
    BY <1>1
  <1>7. f[k - 1] <= f[i - 1]
    BY <1>1, <1>4, <1>5, <1>6, Grows
  <1>8. k - 1 + 1 = k /\ i - 1 + 1 = i
    BY <1>1
  <1> QED BY <1>3, <1>6, <1>7, <1>8

\* std::search finds the start code of the next unit, or the end.
LEMMA SearchFindsNext ==
    ASSUME NEW s, NEW S, NEW n, NEW units, Outline(s, S, n, units),
           NEW i \in 1 .. n + 1, NEW from \in Nat \ {0},
           from <= S[i], i = 1 \/ S[i - 1] < from
    PROVE  Search(s, from) = S[i]
  <1>1. /\ n \in Nat /\ s \in Seq(Bytes) /\ S \in [1 .. n + 1 -> Nat \ {0}]
        /\ S[n + 1] = Len(s) + 1 /\ Len(s) \in Nat
    BY DEF Outline
  <1>2. PICK found : found = {x \in from .. Len(s) - 2 : SubSeq(s, x, x + 2) = StartCode}
    OBVIOUS
  <1>3. ASSUME NEW x PROVE x \in found <=> CodeAt(s, x) /\ from <= x
    <2>1. CASE x \in from .. Len(s) - 2
      <3>1. x \in 1 .. Len(s) - 2
        BY <1>1, <2>1
      <3> QED BY <1>1, <1>2, <2>1, <3>1, CodesByByte
    <2>2. CASE x \notin from .. Len(s) - 2
      <3>1. CodeAt(s, x) => x \in 1 .. Len(s) - 2
        BY DEF CodeAt
      <3> QED BY <1>1, <1>2, <2>2, <3>1
    <2> QED BY <2>1, <2>2
  <1>4. ASSUME NEW x \in found PROVE S[i] <= x /\ \E k \in i .. n : x = S[k]
    <2>1. CodeAt(s, x) /\ from <= x
      BY <1>3
    <2>2. PICK k \in 1 .. n : x = S[k]
      BY <2>1 DEF Outline
    <2>3. k >= i
      <3>1. SUFFICES ASSUME k < i PROVE FALSE
        BY <1>1
      <3>2. i # 1 /\ i - 1 \in 1 .. n + 1 /\ k \in 1 .. i - 1
        BY <1>1, <3>1
      <3>3. S[k] <= S[i - 1]
        BY <3>2, CodesGrow
      <3>4. S[i - 1] < from /\ S[i - 1] \in Nat /\ S[k] \in Nat
        BY <1>1, <3>2
      <3> QED BY <2>1, <2>2, <3>3, <3>4
    <2>4. k \in 1 .. n + 1 /\ i \in 1 .. k
      BY <1>1, <2>3
    <2>5. S[i] <= S[k]
      BY <2>4, CodesGrow
    <2> QED BY <1>1, <2>2, <2>3, <2>5
  <1>5. CASE i = n + 1
    <2>1. found = {}
      BY <1>1, <1>4, <1>5
    <2>2. Search(s, from) = Len(s) + 1
      BY <1>2, <2>1, Zenon DEF Search
    <2> QED BY <1>1, <1>5, <2>2
  <1>6. CASE i # n + 1
    <2>1. i \in 1 .. n
      BY <1>1, <1>6
    <2>2. CodeAt(s, S[i])
      BY <2>1 DEF Outline
    <2>3. S[i] \in found /\ \A k \in found : S[i] <= k
      BY <1>3, <1>4, <2>2
    <2>4. ASSUME NEW y \in found, \A k \in found : y <= k PROVE y = S[i]
      <3>1. y \in Nat /\ S[i] \in Nat
        BY <1>1, <1>2, <2>3, <2>4
      <3> QED BY <2>3, <2>4, <3>1
    <2>5. (CHOOSE x \in found : \A k \in found : x <= k) = S[i]
      BY <2>3, <2>4
    <2>6. Search(s, from) = (CHOOSE x \in found : \A k \in found : x <= k)
      BY <1>2, <2>3, Zenon DEF Search
    <2> QED BY <2>5, <2>6
  <1> QED BY <1>5, <1>6

\* The search from the first byte on finds the first start code.
LEMMA FirstCode ==
    ASSUME NEW s, NEW S, NEW n, NEW units, Outline(s, S, n, units)
    PROVE  Search(s, 1) = S[1]
  <1>1. n \in Nat /\ S \in [1 .. n + 1 -> Nat \ {0}]
    BY DEF Outline
  <1>2. 1 \in 1 .. n + 1 /\ 1 <= S[1] /\ 1 \in Nat \ {0}
    BY <1>1
  <1> QED BY <1>2, SearchFindsNext

\* Behind a start code it finds the next one, or the end.
LEMMA NextCode ==
    ASSUME NEW s, NEW S, NEW n, NEW units, Outline(s, S, n, units), NEW i \in 1 .. n
    PROVE  Search(s, S[i] + 1) = S[i + 1]
  <1>1. n \in Nat /\ S \in [1 .. n + 1 -> Nat \ {0}] /\ S[i] + 4 <= S[i + 1]
    BY DEF Outline
  <1>2. i + 1 \in 1 .. n + 1 /\ i \in 1 .. n + 1 /\ i + 1 - 1 = i
    BY <1>1
  <1>3. S[i] \in Nat /\ S[i + 1] \in Nat
    BY <1>1, <1>2
  <1>4. S[i] + 1 \in Nat \ {0} /\ S[i] + 1 <= S[i + 1] /\ S[i + 1 - 1] < S[i] + 1
    BY <1>1, <1>2, <1>3
  <1> QED BY <1>2, <1>4, SearchFindsNext

\* A start code is not the end.
LEMMA CodeOrEnd ==
    ASSUME NEW s, NEW S, NEW n, NEW units, Outline(s, S, n, units), NEW i \in 1 .. n + 1
    PROVE  /\ S[i] <= Len(s) <=> i \in 1 .. n
           /\ S[i] \in Nat \ {0} /\ S[i] <= Len(s) + 1
  <1>1. n \in Nat /\ S \in [1 .. n + 1 -> Nat \ {0}] /\ S[n + 1] = Len(s) + 1 /\ s \in Seq(Bytes)
    BY DEF Outline
  <1>2. Len(s) \in Nat
    BY <1>1
  <1>3. n + 1 \in 1 .. n + 1 /\ i \in 1 .. n + 1
    BY <1>1
  <1>4. S[i] <= S[n + 1]
    BY <1>3, CodesGrow
  <1>5. CASE i = n + 1
    BY <1>1, <1>2, <1>5
  <1>6. CASE i # n + 1
    <2>1. i \in 1 .. n
      BY <1>1, <1>6
    <2>2. CodeAt(s, S[i])
      BY <2>1 DEF Outline
    <2>3. S[i] \in 1 .. Len(s) - 2
      BY <2>2 DEF CodeAt
    <2> QED BY <1>2, <2>1, <2>3
  <1> QED BY <1>5, <1>6
-----------------------------------------------------------------------------
(* The key frame *)

\* The scan is at the i-th unit of a stream with these start codes.
ScanAt(S, i) ==
    /\ Outline(out, S, Len(job.units), job.units)
    /\ i \in 1 .. Len(job.units) + 1
    /\ start = S[i]
    /\ \A k \in 1 .. i - 1 : ~StopsAt(TypeOfHeader(job.units[k].header))

\* An IDR slice comes, and no parameter set before it.
KeyUnits == \E i \in Positions(IsIdr) : \A k \in Positions(IsSps) : k > i

\* What the scan has found out: no unit that it has passed ends it, and what it
\* ends with settles mHasIDR.
KeyInv ==
    /\ job \in Jobs
    /\ pc = "scan" => size = Len(out) /\ hasIDR = FALSE /\ \E S, i : ScanAt(S, i)
    /\ pc \in {"rewrite", "done", "dead"} => (hasIDR <=> KeyUnits)

\* What JobsAssumption says of the units of a job.
LEMMA UnitsOfJob ==
    ASSUME NEW j \in Jobs
    PROVE  /\ j.units \in Seq(NalUnits) /\ \A i \in DOMAIN j.units : IsEscaped(j.units[i])
           /\ DOMAIN j.units = 1 .. Len(j.units) /\ Len(j.units) \in Nat
  <1>1. j.units \in Seq(NalUnits) /\ \A i \in DOMAIN j.units : IsEscaped(j.units[i])
    BY JobsAssumption DEF IsJob
  <1> QED BY <1>1, LenProperties

\* IDR slices and parameter sets, by the types of their headers.
LEMMA PositionsOf ==
    ASSUME job \in Jobs
    PROVE  /\ \A i : i \in Positions(IsIdr) <=>
                  i \in 1 .. Len(job.units) /\ TypeOfHeader(job.units[i].header) = NAL_SLICE_IDR
           /\ \A i : i \in Positions(IsSps) <=>
                  i \in 1 .. Len(job.units) /\ TypeOfHeader(job.units[i].header) = NAL_SPS
  BY UnitsOfJob DEF Positions, IsIdr, IsSps

\* The scan stops at the first unit that it can stop at, and then knows.
LEMMA ScanKnows ==
    ASSUME job \in Jobs, NEW i \in 1 .. Len(job.units),
           \A k \in 1 .. i - 1 : ~StopsAt(TypeOfHeader(job.units[k].header)),
           StopsAt(TypeOfHeader(job.units[i].header))
    PROVE  KeyUnits <=> TypeOfHeader(job.units[i].header) = NAL_SLICE_IDR
  <1>1. \A k \in Positions(IsIdr) \cup Positions(IsSps) : k >= i
    <2>1. SUFFICES ASSUME NEW k \in Positions(IsIdr) \cup Positions(IsSps), ~(k >= i)
                   PROVE  FALSE
      OBVIOUS
    <2>2. k \in 1 .. Len(job.units) /\ StopsAt(TypeOfHeader(job.units[k].header))
      BY <2>1, PositionsOf DEF StopsAt
    <2>3. k \in 1 .. i - 1
      BY <2>1, <2>2
    <2> QED BY <2>2, <2>3
  <1>2. CASE TypeOfHeader(job.units[i].header) = NAL_SLICE_IDR
    <2>1. i \in Positions(IsIdr) /\ i \notin Positions(IsSps)
      BY <1>2, PositionsOf DEF NAL_SLICE_IDR, NAL_SPS
    <2>2. \A k \in Positions(IsSps) : k \in Int /\ k >= i /\ k # i
      BY <1>1, <2>1, PositionsOf
    <2>3. \A k \in Positions(IsSps) : k > i
      BY <2>2
    <2> QED BY <1>2, <2>1, <2>3 DEF KeyUnits
  <1>3. CASE TypeOfHeader(job.units[i].header) # NAL_SLICE_IDR
    <2>1. i \in Positions(IsSps)
      BY <1>3, PositionsOf DEF StopsAt
    <2>2. \A k \in Positions(IsIdr) : k >= i /\ k \in Int
      BY <1>1, PositionsOf
    <2>3. ~KeyUnits
      BY <2>1, <2>2 DEF KeyUnits
    <2> QED BY <1>3, <2>3
  <1> QED BY <1>2, <1>3

\* A scan without a stop has passed no IDR slice.
LEMMA NothingToStop ==
    ASSUME job \in Jobs, \A k \in 1 .. Len(job.units) : ~StopsAt(TypeOfHeader(job.units[k].header))
    PROVE  ~KeyUnits
  BY PositionsOf DEF KeyUnits, StopsAt

\* A header comes three bytes after the beginning of its start code.
LEMMA HeaderAtCode ==
    ASSUME NEW s, NEW S, NEW n, NEW units, Outline(s, S, n, units), NEW i \in 1 .. n
    PROVE  s[S[i] + 3] = units[i].header
  BY DEF Outline

\* Every step keeps what the scan has found out.
LEMMA StepKeyInv ==
    ASSUME KeyInv, [Next]_vars
    PROVE  KeyInv'
  <1>1. job \in Jobs /\ job' = job /\ (KeyUnits' <=> KeyUnits)
    <2>1. job' = job
      BY DEF Next, Query, Convert, CopyOutput, Scan, ScanEnds, Rewrite, RewriteEnds, vars
    <2> QED BY <2>1 DEF KeyInv, KeyUnits, Positions
  <1>2. PICK n \in Nat : n = Len(job.units)
    BY <1>1, UnitsOfJob
  <1>3. CASE Query \/ Convert
    BY <1>1, <1>3 DEF KeyInv, Query, Convert
  <1>4. CASE CopyOutput
    <2>1. PICK S : Outline(StreamOf(job.units), S, n, job.units)
      BY <1>1, <1>2, UnitsOfJob, StreamHasOutline
    <2>2. /\ pc' = "scan" /\ hasIDR' = FALSE /\ size' = Len(out')
          /\ out' = StreamOf(job.units) /\ start' = Search(out', 1)
      BY <1>4 DEF CopyOutput
    <2>3. start' = S[1]
      BY <2>1, <2>2, FirstCode
    <2>4. 1 \in 1 .. n + 1 /\ 1 .. 1 - 1 = {}
      BY <1>2
    <2>5. ScanAt(S, 1)'
      BY <1>1, <1>2, <2>1, <2>2, <2>3, <2>4 DEF ScanAt
    <2> QED BY <1>1, <2>2, <2>5 DEF KeyInv
  <1>5. CASE Scan
    <2>1. /\ pc = "scan" /\ start <= size /\ size = Len(out) /\ hasIDR = FALSE
          /\ out' = out /\ size' = size
      BY <1>5 DEF Scan, KeyInv
    <2>2. PICK S, i : ScanAt(S, i)
      BY <2>1 DEF KeyInv
    <2>3. /\ Outline(out, S, n, job.units) /\ i \in 1 .. n + 1 /\ start = S[i]
          /\ \A k \in 1 .. i - 1 : ~StopsAt(TypeOfHeader(job.units[k].header))
      BY <1>2, <2>2 DEF ScanAt
    <2>4. i \in 1 .. n
      BY <2>1, <2>3, CodeOrEnd
    <2>5. PICK type : type = TypeOfHeader(job.units[i].header)
      OBVIOUS
    <2>6. type = TypeOfHeader(out[start + 3])
      BY <2>3, <2>4, <2>5, HeaderAtCode
    <2>7. /\ hasIDR' = (hasIDR \/ type = NAL_SLICE_IDR)
          /\ IF type = NAL_SPS /\ StopsAt(type) THEN pc' = "rewrite"
             ELSE /\ start' = Search(out, start + 1)
                  /\ pc' = IF StopsAt(type) THEN "done" ELSE "scan"
      BY <1>5, <2>6 DEF Scan
    <2>8. CASE StopsAt(type)
      <3>1. KeyUnits <=> type = NAL_SLICE_IDR
        BY <1>1, <1>2, <2>3, <2>4, <2>5, <2>8, ScanKnows
      <3>2. pc' \in {"rewrite", "done"} /\ (hasIDR' <=> KeyUnits')
        BY <1>1, <2>1, <2>7, <2>8, <3>1
      <3> QED BY <1>1, <3>2 DEF KeyInv
    <2>9. CASE ~StopsAt(type)
      <3>1. pc' = "scan" /\ hasIDR' = FALSE /\ start' = S[i + 1]
        <4>1. type # NAL_SLICE_IDR
          BY <2>9 DEF StopsAt
        <4>2. start' = Search(out, S[i] + 1) /\ pc' = "scan" /\ hasIDR' = FALSE
          BY <2>1, <2>3, <2>7, <2>9, <4>1
        <4> QED BY <2>3, <2>4, <4>2, NextCode
      <3>2. i + 1 \in 1 .. n + 1
        BY <1>2, <2>4
      <3>3. \A k \in 1 .. i + 1 - 1 : ~StopsAt(TypeOfHeader(job.units[k].header))
        <4>1. TAKE k \in 1 .. i + 1 - 1
        <4>2. k = i \/ k \in 1 .. i - 1
          BY <2>4
        <4> QED BY <2>3, <2>5, <2>9, <4>2
      <3>4. ScanAt(S, i + 1)'
        BY <1>1, <1>2, <2>1, <2>3, <3>1, <3>2, <3>3 DEF ScanAt
      <3> QED BY <1>1, <2>1, <3>1, <3>4 DEF KeyInv
    <2> QED BY <2>8, <2>9
  <1>6. CASE ScanEnds
    <2>1. /\ pc = "scan" /\ start > size /\ size = Len(out) /\ hasIDR = FALSE
          /\ pc' = "done" /\ hasIDR' = FALSE
      BY <1>6 DEF ScanEnds, KeyInv
    <2>2. PICK S, i : ScanAt(S, i)
      BY <2>1 DEF KeyInv
    <2>3. /\ Outline(out, S, n, job.units) /\ i \in 1 .. n + 1 /\ start = S[i]
          /\ \A k \in 1 .. i - 1 : ~StopsAt(TypeOfHeader(job.units[k].header))
      BY <1>2, <2>2 DEF ScanAt
    <2>4. i \notin 1 .. n
      <3>1. out \in Seq(Bytes)
        BY <2>3 DEF Outline
      <3>2. Len(out) \in Nat /\ S[i] \in Nat
        BY <2>3, <3>1, CodeOrEnd
      <3> QED BY <2>1, <2>3, <3>2, CodeOrEnd
    <2>5. i - 1 = n
      BY <2>3, <2>4
    <2>6. ~KeyUnits
      BY <1>1, <1>2, <2>3, <2>5, NothingToStop
    <2> QED BY <1>1, <2>1, <2>6 DEF KeyInv
  <1>7. CASE Rewrite
    <2>1. pc = "rewrite" /\ pc' \in {"rewrite", "dead"} /\ hasIDR' = hasIDR
      BY <1>7 DEF Rewrite, RewriteSps
    <2> QED BY <1>1, <2>1 DEF KeyInv
  <1>8. CASE RewriteEnds
    BY <1>1, <1>8 DEF KeyInv, RewriteEnds
  <1>9. CASE UNCHANGED vars
    BY <1>1, <1>9 DEF KeyInv, ScanAt, vars
  <1> QED BY <1>3, <1>4, <1>5, <1>6, <1>7, <1>8, <1>9 DEF Next

\* For any units: encodeProcess tells a key frame (compress.cpp:351) exactly if an
\* IDR slice comes with no parameter set before it.
THEOREM KeyFramesAreTold == Spec => []KeyFlag
  <1>1. Init => KeyInv
    BY DEF Init, KeyInv
  <1>2. KeyInv /\ [Next]_vars => KeyInv'
    BY StepKeyInv
  <1>3. KeyInv => KeyFlag
    BY DEF KeyInv, KeyFlag, KeyUnits
  <1> QED BY <1>1, <1>2, <1>3, PTL DEF Spec
-----------------------------------------------------------------------------
(* The bytes that are written *)

\* A sequence of n bytes.
HasBytes(s, n) == s \in Seq(Bytes) /\ Len(s) = n

\* The lengths of two sequences of bytes add up.
LEMMA JoinedBytes ==
    ASSUME NEW a, NEW b, NEW n, NEW m, HasBytes(a, n), HasBytes(b, m), NEW c, c = a \o b
    PROVE  HasBytes(c, n + m)
  <1>1. c \in Seq(Bytes) /\ Len(c) = Len(a) + Len(b)
    <2>1. a \in Seq(Bytes) /\ b \in Seq(Bytes)
      BY DEF HasBytes
    <2> QED BY <2>1, ConcatFacts
  <1> QED BY <1>1, Zenon DEF HasBytes

\* A unit as the code takes it out of the copy, from one start code to the next.
IsTaken(unit, from, to, header) ==
    unit \in Seq(Bytes) /\ Len(unit) = to - from /\ 4 <= Len(unit) /\ unit[4] = header

\* The units of the copy are cut out whole, with their header at the fourth byte.
LEMMA UnitAt ==
    ASSUME NEW s, NEW S, NEW n, NEW units, Outline(s, S, n, units), NEW i \in 1 .. n,
           NEW unit, unit = SubSeq(s, S[i], S[i + 1] - 1)
    PROVE  IsTaken(unit, S[i], S[i + 1], units[i].header)
  <1>1. /\ n \in Nat /\ s \in Seq(Bytes) /\ S \in [1 .. n + 1 -> Nat \ {0}]
        /\ S[i] + 4 <= S[i + 1]
    BY DEF Outline
  <1>2. i \in 1 .. n + 1 /\ i + 1 \in 1 .. n + 1 /\ Len(s) \in Nat
    BY <1>1
  <1>3. PICK a \in Nat \ {0}, b \in Nat \ {0} : a = S[i] /\ b = S[i + 1]
    BY <1>1, <1>2
  <1>4. b <= Len(s) + 1
    BY <1>2, <1>3, CodeOrEnd
  <1>5. a + 4 <= b
    BY <1>1, <1>3
  <1>6. PICK c \in Int : c = b - 1
    BY <1>3
  <1>7. PICK m \in Nat : m = b - a
    BY <1>3, <1>5
  <1>8. c = a + m - 1
    BY <1>3, <1>6, <1>7, SMTT(40)
  <1>9. \A k \in a .. c : s[k] \in Bytes
    <2>1. TAKE k \in a .. c
    <2>2. k \in 1 .. Len(s)
      BY <1>2, <1>3, <1>4, <1>6, SMTT(40)
    <2> QED BY <1>1, <2>2, ElementOfSeq
  <1>10. unit = SubSeq(s, a, c)
    BY <1>3, <1>6
  <1>11. IsPart(unit, Bytes, s, a, m)
    <2>1. a \in Int
      BY <1>3
    <2> QED BY <1>7, <1>8, <1>9, <1>10, <2>1, PartOf, Zenon
  <1>12. unit \in Seq(Bytes) /\ Len(unit) = m /\ \A k \in 1 .. m : unit[k] = s[a + k - 1]
    BY <1>11 DEF IsPart
  <1>13. 4 \in 1 .. m /\ a + 4 - 1 = a + 3
    BY <1>3, <1>5, <1>7
  <1>14. unit[4] = s[a + 3]
    BY <1>12, <1>13
  <1>15. s[a + 3] = units[i].header
    BY <1>3, HeaderAtCode
  <1>16. Len(unit) = S[i + 1] - S[i] /\ 4 <= Len(unit)
    BY <1>3, <1>7, <1>12, <1>13
  <1> QED BY <1>12, <1>14, <1>15, <1>16 DEF IsTaken

\* A buffer with bytes put into it, and whatever was behind them.
IsPut(new, o, d, m, bytes) ==
    new = SubSeq(o, 1, d) \o bytes \o SubSeq(o, d + m + 1, Len(o))

\* The new buffer has room for what was put into it, and is not shorter.
LEMMA PutInto ==
    ASSUME NEW o \in Seq(Bytes), NEW d \in Nat, d <= Len(o), NEW bytes \in Seq(Bytes),
           NEW m \in Nat, m = Len(bytes),
           NEW new, IsPut(new, o, d, m, bytes)
    PROVE  new \in Seq(Bytes) /\ Len(new) \in Nat /\ Len(o) <= Len(new) /\ d + m <= Len(new)
  <1>1. PICK n \in Nat : n = Len(o)
    OBVIOUS
  <1>2. d <= n
    BY <1>1
  <1>3. \A k \in Int : 1 <= k /\ k <= n => o[k] \in Bytes
    <2>1. SUFFICES ASSUME NEW k \in Int, 1 <= k, k <= n PROVE o[k] \in Bytes
      OBVIOUS
    <2>2. k \in 1 .. Len(o)
      BY <1>1, <2>1
    <2> QED BY <2>2, ElementOfSeq
  <1>4. PICK a : a = SubSeq(o, 1, d)
    OBVIOUS
  <1>5. a \in Seq(Bytes) /\ Len(a) = d
    <2>1. d = 1 + d - 1 /\ \A k \in 1 .. d : o[k] \in Bytes
      BY <1>2, <1>3, <1>1
    <2>2. IsPart(a, Bytes, o, 1, d)
      BY <1>4, <2>1, PartOf, 1 \in Int, Zenon
    <2> QED BY <2>2 DEF IsPart
  <1>6. PICK b \in Int : b = d + m + 1
    OBVIOUS
  <1>7. PICK c : c = SubSeq(o, b, n)
    OBVIOUS
  <1>8. PICK k \in Nat : c \in Seq(Bytes) /\ Len(c) = k /\ n <= d + m + k
    <2>1. CASE b <= n
      <3>1x. n - b + 1 \in Nat
        BY <1>1, <1>6, <2>1
      <3>1. PICK k \in Nat : k = n - b + 1
        BY <3>1x
      <3>2. n = b + k - 1 /\ n = d + m + k
        BY <1>1, <1>6, <3>1
      <3>3. \A x \in b .. n : o[x] \in Bytes
        BY <1>1, <1>3, <1>6
      <3>4. IsPart(c, Bytes, o, b, k)
        BY <1>6, <1>7, <3>1, <3>2, <3>3, PartOf, Zenon
      <3> QED BY <3>2, <3>4 DEF IsPart
    <2>2. CASE ~(b <= n)
      <3>1. n < b /\ n <= d + m + 0
        BY <1>6, <2>2
      <3>2. c = <<>>
        BY <1>7, <3>1, SubSeqEmpty
      <3>3. c \in Seq(Bytes) /\ Len(c) = 0
        BY <3>2
      <3> QED BY <3>1, <3>3
    <2> QED BY <2>1, <2>2
  <1>9. PICK e : e = a \o bytes
    OBVIOUS
  <1>10. HasBytes(e, d + m)
    <2>1. HasBytes(bytes, m) /\ HasBytes(a, d)
      BY <1>5 DEF HasBytes
    <2> QED BY <1>5, <1>9, <2>1, JoinedBytes, Zenon
  <1>12. new = e \o c
    BY <1>1, <1>4, <1>6, <1>7, <1>9, Zenon DEF IsPut
  <1>13. new \in Seq(Bytes) /\ Len(new) = d + m + k
    <2>1. HasBytes(c, k)
      BY <1>8 DEF HasBytes
    <2>2. HasBytes(new, d + m + k)
      BY <1>10, <1>12, <2>1, JoinedBytes, Zenon
    <2> QED BY <2>2 DEF HasBytes
  <1> QED BY <1>1, <1>8, <1>13

\* Bytes that are put into the buffer leave a buffer that is not shorter.
LEMMA PutTyped ==
    ASSUME out \in Seq(Bytes), dst \in 0 .. Len(out), NEW bytes \in Seq(Bytes), Put(bytes)
    PROVE  /\ out' \in Seq(Bytes) /\ dst' = dst + Len(bytes)
           /\ dst' \in 0 .. Len(out') /\ Len(out) <= Len(out')
  <1>1. PICK m \in Nat : m = Len(bytes)
    OBVIOUS
  <1>2. dst \in Nat /\ dst <= Len(out)
    OBVIOUS
  <1>3. PICK new : new = SubSeq(out, 1, dst) \o bytes \o SubSeq(out, dst + m + 1, Len(out))
    OBVIOUS
  <1>3x. IsPut(new, out, dst, m, bytes)
    BY <1>3 DEF IsPut
  <1>4. new \in Seq(Bytes) /\ Len(new) \in Nat /\ Len(out) <= Len(new) /\ dst + m <= Len(new)
    BY <1>1, <1>2, <1>3x, PutInto, Zenon
  <1>5. out' = new /\ dst' = dst + m
    BY <1>1, <1>3, Zenon DEF Put
  <1> QED BY <1>1, <1>2, <1>4, <1>5

\* The parameter sets before a unit.
SpsBefore(i) == {k \in 1 .. i - 1 : IsSps(job.units[k])}

\* A parameter set counts when it was passed.
LEMMA CountSps ==
    ASSUME NEW i \in Nat \ {0}
    PROVE  /\ Cardinality(SpsBefore(i)) \in Nat
           /\ Cardinality(SpsBefore(i + 1)) =
                  Cardinality(SpsBefore(i)) + (IF IsSps(job.units[i]) THEN 1 ELSE 0)
  <1>1. IsFiniteSet(SpsBefore(i))
    <2>1. IsFiniteSet(1 .. i - 1)
      BY FS_Interval
    <2> QED BY <2>1, FS_Subset DEF SpsBefore
  <1>2. Cardinality(SpsBefore(i)) \in Nat
    BY <1>1, FS_CardinalityType
  <1>3. i \notin SpsBefore(i)
    BY DEF SpsBefore
  <1>4. CASE IsSps(job.units[i])
    <2>1. SpsBefore(i + 1) = SpsBefore(i) \cup {i}
      BY <1>4 DEF SpsBefore
    <2>2. Cardinality(SpsBefore(i) \cup {i}) = Cardinality(SpsBefore(i)) + 1
      BY <1>1, <1>3, FS_AddElement
    <2> QED BY <1>2, <1>4, <2>1, <2>2
  <1>5. CASE ~IsSps(job.units[i])
    <2>1. SpsBefore(i + 1) = SpsBefore(i)
      BY <1>5 DEF SpsBefore
    <2> QED BY <1>2, <1>5, <2>1
  <1> QED BY <1>4, <1>5

\* The i-th unit of the copy is to be written: what mCompressed_size says for
\* those that were, and that it still holds those that were not.
RewriteAt(S, i) ==
    /\ Outline(tmp, S, Len(job.units), job.units)
    /\ 0 < Len(job.units) /\ i \in 1 .. Len(job.units) + 1
    /\ start = S[i]
    /\ Len(tmp) <= Len(out)
    /\ i > 1 => dst > 0
    /\ size = dst + (Len(tmp) + 1 - S[i]) - 5 * Cardinality(SpsBefore(i)) + job.units[1].zeros
    /\ size >= Len(tmp) + 1 - S[i]

\* The buffers and the counts, at every step of encodeProcess.
RunInv ==
    /\ pc \in {"query", "refused", "convert", "encode", "scan", "rewrite", "done", "dead"}
    /\ pc # "encode" => surface = <<>>
    /\ out \in Seq(Bytes) /\ tmp \in Seq(Bytes)
    /\ size \in Nat /\ dst \in 0 .. Len(out)
    /\ hasIDR \in BOOLEAN
    /\ start \in 1 .. Len(out) + 1
    /\ pc \notin {"rewrite", "done", "dead"} => dst = 0
    /\ pc = "scan" => out = StreamOf(job.units)
    /\ pc = "rewrite" => \E S, i : RewriteAt(S, i)
    /\ SizeAccounts

\* What is left to be written begins at the next start code.
LEMMA RewriteKnows ==
    ASSUME job \in Jobs, NEW S, NEW i, RewriteAt(S, i)
    PROVE  /\ Len(job.units) \in Nat /\ Len(tmp) \in Nat /\ tmp \in Seq(Bytes)
           /\ start \in Nat \ {0} /\ start <= Len(tmp) + 1
           /\ i \in Nat \ {0} /\ i <= Len(job.units) + 1
           /\ start <= Len(tmp) <=> i \in 1 .. Len(job.units)
           /\ job.units[1].zeros \in Nat
  <1>1. PICK n \in Nat : n = Len(job.units)
    BY UnitsOfJob
  <1>2. /\ Outline(tmp, S, n, job.units) /\ i \in 1 .. n + 1 /\ start = S[i] /\ 0 < n
    BY <1>1 DEF RewriteAt
  <1>3. tmp \in Seq(Bytes) /\ job.units[1].zeros \in Nat
    BY <1>2 DEF Outline
  <1>4. Len(tmp) \in Nat
    BY <1>3
  <1>5. /\ S[i] <= Len(tmp) <=> i \in 1 .. n
        /\ S[i] \in Nat \ {0} /\ S[i] <= Len(tmp) + 1
    BY <1>2, CodeOrEnd
  <1>6. i \in Nat \ {0} /\ i <= n + 1
    BY <1>1, <1>2
  <1> QED BY <1>1, <1>2, <1>3, <1>4, <1>5, <1>6

\* The account of the size after a unit: d bytes before it, w of it, e sets among them.
Accounted(t, d, w, rest, e, z) == t \in Nat /\ t >= rest /\ t = d + w + rest - 5 * e + z

\* w bytes are written for the l bytes of a unit, and g of them are not counted.
LEMMA Account ==
    ASSUME NEW d \in Nat, NEW left \in Nat, NEW rest \in Nat, NEW l \in Nat, l > 0, left = rest + l,
           NEW c \in Nat, NEW e \in Nat, NEW z \in Nat, NEW w \in Nat, w > 0,
           NEW s \in Nat, s = d + left - 5 * c + z, s >= left,
           NEW t, t = s + w - 5 * (e - c) - l, w - 5 * (e - c) >= 0
    PROVE  Accounted(t, d, w, rest, e, z)
  BY DEF Accounted

\* One unit is written, and the account still is right.
LEMMA StepRewrite ==
    ASSUME job \in Jobs, out \in Seq(Bytes), size \in Nat, dst \in 0 .. Len(out),
           NEW S, NEW i, RewriteAt(S, i), Rewrite
    PROVE  /\ job' = job /\ tmp' = tmp /\ surface' = surface /\ hasIDR' = hasIDR
           /\ out' \in Seq(Bytes) /\ size' \in Nat /\ dst' \in 0 .. Len(out')
           /\ start' \in 1 .. Len(out') + 1
           /\ pc' \in {"rewrite", "dead"}
           /\ pc' = "rewrite" => RewriteAt(S, i + 1)'
  <1>1. PICK n \in Nat : n = Len(job.units)
    BY UnitsOfJob
  <1>2. PICK length \in Nat : length = Len(tmp) /\ tmp \in Seq(Bytes)
    BY RewriteKnows
  <1>3. /\ Outline(tmp, S, n, job.units) /\ 0 < n /\ i \in 1 .. n + 1 /\ start = S[i]
        /\ length <= Len(out)
        /\ size = dst + (length + 1 - S[i]) - 5 * Cardinality(SpsBefore(i)) + job.units[1].zeros
        /\ size >= length + 1 - S[i]
    BY <1>1, <1>2 DEF RewriteAt
  <1>4. /\ job' = job /\ tmp' = tmp /\ surface' = surface /\ hasIDR' = hasIDR
        /\ pc = "rewrite" /\ start <= Len(tmp)
    BY DEF Rewrite
  <1>5. i \in 1 .. n
    BY <1>1, <1>4, RewriteKnows
  <1>6. PICK unit : unit = SubSeq(tmp, S[i], S[i + 1] - 1)
    OBVIOUS
  <1>7. /\ unit \in Seq(Bytes) /\ Len(unit) = S[i + 1] - S[i] /\ 4 <= Len(unit)
        /\ unit[4] = job.units[i].header
    <2>1. IsTaken(unit, S[i], S[i + 1], job.units[i].header)
      BY <1>3, <1>5, <1>6, UnitAt, Zenon
    <2> QED BY <2>1 DEF IsTaken
  <1>8. Search(tmp, start + 1) = S[i + 1]
    BY <1>3, <1>5, NextCode
  <1>9. /\ start' = S[i + 1]
        /\ IF IsSps(job.units[i]) THEN RewriteSps(unit, SubSeq(unit, 5, Len(unit)))
           ELSE Put(Copied(unit)) /\ UNCHANGED <<size, pc>>
    <2>1. /\ start' = S[i + 1]
          /\ IF TypeOfHeader(unit[4]) = NAL_SPS THEN RewriteSps(unit, SubSeq(unit, 5, Len(unit)))
             ELSE Put(Copied(unit)) /\ UNCHANGED <<size, pc>>
      BY <1>3, <1>6, <1>8, Zenon DEF Rewrite
    <2> QED BY <1>7, <2>1, Zenon DEF IsSps
  <1>10. PICK a \in Nat \ {0}, b \in Nat \ {0} :
             a = S[i] /\ b = S[i + 1] /\ a + 4 <= b /\ b <= length + 1
    <2>1. i \in 1 .. n + 1 /\ i + 1 \in 1 .. n + 1 /\ S[i] + 4 <= S[i + 1]
      BY <1>3, <1>5 DEF Outline
    <2>2. S[i] \in Nat \ {0} /\ S[i + 1] \in Nat \ {0} /\ S[i + 1] <= Len(tmp) + 1
      BY <1>3, <2>1, CodeOrEnd
    <2> QED BY <1>2, <2>1, <2>2
  <1>10x. /\ a \in Nat \ {0} /\ b \in Nat \ {0} /\ length \in Nat
          /\ a + 4 <= b /\ b <= length + 1
    BY <1>2, <1>10, Zenon
  <1>11. PICK z \in Nat : z = job.units[1].zeros
    BY RewriteKnows
  <1>12. i \in Nat \ {0} /\ i + 1 \in 1 .. n + 1 /\ i + 1 > 1
    BY <1>5
  <1>13. PICK c \in Nat, e \in Nat :
             /\ c = Cardinality(SpsBefore(i)) /\ e = Cardinality(SpsBefore(i + 1))
             /\ e = c + (IF IsSps(job.units[i]) THEN 1 ELSE 0)
    <2>1. Cardinality(SpsBefore(i)) \in Nat
      BY <1>12, CountSps
    <2>2. Cardinality(SpsBefore(i + 1)) =
              Cardinality(SpsBefore(i)) + (IF IsSps(job.units[i]) THEN 1 ELSE 0)
      BY <1>12, CountSps
    <2> QED BY <2>1, <2>2
  <1>14. SpsBefore(i + 1)' = SpsBefore(i + 1)
    BY <1>4 DEF SpsBefore
  <1>15. size = dst + (length + 1 - a) - 5 * c + z /\ size >= length + 1 - a
    BY <1>3, <1>10, <1>11, <1>13
  <1>15x. PICK left \in Nat, rest \in Nat, l \in Nat :
             /\ left = length + 1 - a /\ rest = length + 1 - b /\ l = b - a
             /\ l > 0 /\ left = rest + l
    <2>1. length + 1 - a \in Nat /\ length + 1 - b \in Nat /\ b - a \in Nat
      BY <1>10x
    <2> QED BY <1>10x, <2>1
  <1>15y. size = dst + left - 5 * c + z /\ size >= left
    BY <1>15, <1>15x
  <1>16. PICK d \in Nat : d = dst /\ d <= Len(out)
    OBVIOUS
  <1>17. ASSUME pc' = "rewrite", out' \in Seq(Bytes), Len(out) <= Len(out'), dst' > 0, size' \in Nat,
                size' = dst' + rest - 5 * e + z, size' >= rest
         PROVE  RewriteAt(S, i + 1)'
    <2>1. Outline(tmp', S, Len(job'.units), job'.units) /\ 0 < Len(job'.units)
          /\ i + 1 \in 1 .. Len(job'.units) + 1 /\ start' = S[i + 1]
      BY <1>1, <1>3, <1>4, <1>9, <1>12
    <2>2. Len(tmp') <= Len(out')
      <3>1. Len(out) \in Nat /\ Len(out') \in Nat
        BY <1>17
      <3>2. length = Len(tmp') /\ length \in Nat
        BY <1>2, <1>4
      <3>3. length <= Len(out) /\ Len(out) <= Len(out')
        BY <1>3, <1>17, Zenon
      <3>4. PICK o \in Nat, p \in Nat : o = Len(out) /\ p = Len(out')
        BY <3>1
      <3>5. length <= p
        BY <3>2, <3>3, <3>4
      <3> QED BY <3>2, <3>4, <3>5
    <2>3. /\ size' = dst' + (Len(tmp') + 1 - S[i + 1]) - 5 * Cardinality(SpsBefore(i + 1)') + job'.units[1].zeros
          /\ size' >= Len(tmp') + 1 - S[i + 1]
      BY <1>2, <1>4, <1>10, <1>11, <1>13, <1>14, <1>15x, <1>17
    <2> QED BY <1>17, <2>1, <2>2, <2>3 DEF RewriteAt
  <1>18. ASSUME out' \in Seq(Bytes), Len(out) <= Len(out')
         PROVE  start' \in 1 .. Len(out') + 1
    <2>1. Len(out) \in Nat /\ Len(out') \in Nat
      BY <1>18
    <2>2. start' = b /\ b <= length + 1 /\ length <= Len(out)
      <3>1. length <= Len(out)
        BY <1>3, Zenon
      <3>2. start' = b
        BY <1>9, <1>10, Zenon
      <3> QED BY <1>10x, <3>1, <3>2, Zenon
    <2> QED BY <1>10x, <1>18, <2>1, <2>2
  <1>19. CASE ~IsSps(job.units[i])
    <2>1. Put(unit) /\ size' = size /\ pc' = pc
      BY <1>9, <1>19 DEF Copied
    <2>2. /\ out' \in Seq(Bytes) /\ dst' = dst + Len(unit)
          /\ dst' \in 0 .. Len(out') /\ Len(out) <= Len(out')
      BY <1>7, <2>1, PutTyped
    <2>3. dst' = d + (b - a) /\ e = c
      BY <1>7, <1>10, <1>13, <1>16, <1>19, <2>2
    <2>4. dst' > 0 /\ size' \in Nat /\ size' >= rest /\ size' = dst' + rest - 5 * e + z
      <3>1. size' = size + l - 5 * (e - c) - l /\ l - 5 * (e - c) >= 0
        BY <1>15x, <2>1, <2>3
      <3>2. size = d + left - 5 * c + z
        BY <1>15y, <1>16
      <3>3. Accounted(size', d, l, rest, e, z)
        BY <1>11, <1>13, <1>15x, <1>15y, <1>16, <3>1, <3>2, Account, Zenon
      <3>4. dst' = d + l
        BY <1>15x, <2>3
      <3> QED BY <1>15x, <1>16, <3>3, <3>4 DEF Accounted
    <2> QED BY <1>4, <1>17, <1>18, <2>1, <2>2, <2>4
  <1>20. CASE IsSps(job.units[i])
    <2>1. PICK src \in Seq(Bytes) : src = SubSeq(unit, 5, Len(unit))
      <3>1. unit \in Seq(Bytes) /\ Len(unit) \in Nat
        BY <1>7
      <3>2. \A k \in 5 .. Len(unit) : unit[k] \in Bytes
        <4>1. TAKE k \in 5 .. Len(unit)
        <4>2. k \in 1 .. Len(unit)
          BY <3>1
        <4> QED BY <3>1, <4>2, ElementOfSeq
      <3>3. SubSeq(unit, 5, Len(unit)) \in Seq(Bytes)
        BY <3>1, <3>2, SubSeqProperties, 5 \in Int, Len(unit) \in Int
      <3> QED BY <3>3
    <2>2. RewriteSps(unit, src)
      BY <1>9, <1>20, <2>1
    <2>3. CASE NeedsScalingList(ReadSps(src))
      <3>1. pc' = "dead" /\ out' = out /\ dst' = dst /\ size' = size
        BY <2>2, <2>3 DEF RewriteSps
      <3>2. Len(out) <= Len(out')
        <4>1. Len(out) \in Nat
          OBVIOUS
        <4> QED BY <3>1, <4>1
      <3>3. start' \in 1 .. Len(out') + 1
        BY <1>18, <3>1, <3>2
      <3> QED BY <1>4, <3>1, <3>3
    <2>4. CASE ~NeedsScalingList(ReadSps(src))
      <3>1. PICK sps \in Seq(Bytes), m \in Nat :
                sps = add_vui(src, Len(tmp) + 32 - (dst + 5), job.matrix) /\ m = Len(sps)
        <4>1. PICK room \in Int : room = Len(tmp) + 32 - (dst + 5)
          <5>1. Len(tmp) \in Nat
            BY <1>2
          <5>2. Len(tmp) + 32 - (dst + 5) \in Int
            BY <1>16, <5>1
          <5> QED BY <5>2
        <4>2. PICK sps : sps = add_vui(src, room, job.matrix)
          OBVIOUS
        <4>3. sps \in Seq(Bytes) /\ Len(sps) \in Nat
          BY <4>2, AddVuiTyped, Zenon
        <4> QED BY <4>1, <4>2, <4>3
      <3>2. PICK head : head = <<0, 0, 0, 1, unit[4]>>
        OBVIOUS
      <3>3. HasBytes(head, 5)
        <4>1. unit[4] \in Bytes
          <5>1. 4 \in 1 .. Len(unit)
            BY <1>7
          <5> QED BY <1>7, <5>1, ElementOfSeq
        <4> QED BY <3>2, <4>1 DEF HasBytes, Bytes
      <3>4. PICK bytes : bytes = head \o sps
        OBVIOUS
      <3>5. HasBytes(bytes, 5 + m)
        <4>1. HasBytes(sps, m)
          BY <3>1 DEF HasBytes
        <4> QED BY <3>3, <3>4, <4>1, JoinedBytes, Zenon
      <3>6. Put(bytes) /\ size' = size + m - Len(unit) /\ pc' = pc
        BY <2>2, <2>4, <3>1, <3>2, <3>4, Zenon DEF RewriteSps, Resized
      <3>7. bytes \in Seq(Bytes) /\ Len(bytes) = 5 + m
        BY <3>5 DEF HasBytes
      <3>8. /\ out' \in Seq(Bytes) /\ dst' = dst + Len(bytes)
            /\ dst' \in 0 .. Len(out') /\ Len(out) <= Len(out')
        BY <3>6, <3>7, PutTyped
      <3>9. dst' = d + 5 + m /\ e = c + 1 /\ size' = size + m - (b - a)
        BY <1>7, <1>10, <1>13, <1>16, <1>20, <3>6, <3>7, <3>8
      <3>10. dst' > 0 /\ size' \in Nat /\ size' >= rest /\ size' = dst' + rest - 5 * e + z
        <4>1. size' = size + (5 + m) - 5 * (e - c) - l /\ (5 + m) - 5 * (e - c) >= 0
          BY <1>15x, <3>1, <3>9
        <4>2. size = d + left - 5 * c + z
          BY <1>15y, <1>16
        <4>3. Accounted(size', d, 5 + m, rest, e, z)
          <5>1. 5 + m \in Nat /\ 5 + m > 0
            BY <3>1
          <5> QED BY <1>11, <1>13, <1>15x, <1>15y, <1>16, <4>1, <4>2, <5>1, Account, Zenon
        <4>4. dst' = d + (5 + m)
          BY <1>16, <3>1, <3>9
        <4> QED BY <1>15x, <1>16, <3>1, <4>3, <4>4 DEF Accounted
      <3> QED BY <1>4, <1>17, <1>18, <3>6, <3>8, <3>10
    <2> QED BY <2>3, <2>4
  <1> QED BY <1>19, <1>20

\* Nothing is written at first.
LEMMA InitRunInv == Init => RunInv
  <1> SUFFICES ASSUME Init PROVE RunInv
    OBVIOUS
  <1>1. /\ pc = "query" /\ surface = <<>> /\ out = <<>> /\ size = 0 /\ hasIDR = FALSE
        /\ tmp = <<>> /\ start = 1 /\ dst = 0
    BY DEF Init
  <1>2. out \in Seq(Bytes) /\ tmp \in Seq(Bytes) /\ Len(out) = 0
    BY <1>1
  <1>3. dst \in 0 .. Len(out) /\ start \in 1 .. Len(out) + 1
    BY <1>1, <1>2
  <1>4. SizeAccounts
    BY <1>1 DEF SizeAccounts, Rewritten
  <1> QED BY <1>1, <1>2, <1>3, <1>4 DEF RunInv

\* RunInv is kept by every step, with what is known of the jobs and of the scan.
LEMMA StepRunInv ==
    ASSUME KeyInv, KeyInv', RunInv, [Next]_vars
    PROVE  RunInv'
  <1>1. job \in Jobs
    BY DEF KeyInv
  <1>2. PICK n \in Nat : n = Len(job.units)
    BY <1>1, UnitsOfJob
  <1>3. CASE Query \/ Convert
    BY <1>3 DEF RunInv, SizeAccounts, Rewritten, Query, Convert
  <1>4. CASE CopyOutput
    <2>1. /\ pc = "encode" /\ pc' = "scan" /\ hasIDR' = FALSE /\ surface' = <<>> /\ job' = job
          /\ size' = Len(out') /\ out' = StreamOf(job.units)
          /\ start' = Search(out', 1) /\ tmp' = tmp /\ dst' = dst
      BY <1>4 DEF CopyOutput
    <2>2. PICK S : Outline(out', S, n, job.units)
      BY <1>1, <1>2, <2>1, UnitsOfJob, StreamHasOutline
    <2>3. out' \in Seq(Bytes)
      BY <2>2 DEF Outline
    <2>4. start' = S[1]
      BY <2>1, <2>2, FirstCode
    <2>5. 1 \in 1 .. n + 1
      BY <1>2
    <2>6. S[1] \in Nat \ {0} /\ S[1] <= Len(out') + 1
      BY <2>2, <2>5, CodeOrEnd
    <2>7. Len(out') \in Nat /\ start' \in 1 .. Len(out') + 1
      BY <2>3, <2>4, <2>6
    <2>8. dst' = 0 /\ dst' \in 0 .. Len(out') /\ tmp' \in Seq(Bytes)
      BY <2>1, <2>7 DEF RunInv
    <2>9. SizeAccounts'
      BY <2>1 DEF SizeAccounts, Rewritten
    <2> QED BY <2>1, <2>3, <2>7, <2>8, <2>9 DEF RunInv
  <1>5. CASE Scan
    <2>1. /\ pc = "scan" /\ start <= size /\ size = Len(out) /\ hasIDR = FALSE
          /\ out' = out /\ size' = size /\ job' = job /\ surface' = surface /\ dst' = dst
          /\ dst = 0 /\ surface = <<>> /\ out = StreamOf(job.units) /\ out \in Seq(Bytes)
          /\ tmp \in Seq(Bytes)
      BY <1>5 DEF Scan, KeyInv, RunInv
    <2>2. PICK S, i : ScanAt(S, i)
      BY <2>1 DEF KeyInv
    <2>3. Outline(out, S, n, job.units) /\ i \in 1 .. n + 1 /\ start = S[i]
      BY <1>2, <2>2 DEF ScanAt
    <2>4. i \in 1 .. n
      BY <2>1, <2>3, CodeOrEnd
    <2>5. PICK type : type = TypeOfHeader(out[start + 3])
      OBVIOUS
    <2>6. /\ hasIDR' = (hasIDR \/ type = NAL_SLICE_IDR)
          /\ IF type = NAL_SPS /\ StopsAt(type)
             THEN tmp' = SubSeq(out, 1, size) /\ start' = Search(tmp', 1) /\ pc' = "rewrite"
             ELSE /\ start' = Search(out, start + 1) /\ tmp' = tmp
                  /\ pc' = IF StopsAt(type) THEN "done" ELSE "scan"
      BY <1>5, <2>5 DEF Scan
    <2>7. hasIDR' \in BOOLEAN
      BY <2>6
    <2>8. Len(out) \in Nat /\ size' \in Nat /\ dst' = 0 /\ dst' \in 0 .. Len(out')
      BY <2>1
    <2>9. CASE type = NAL_SPS /\ StopsAt(type)
      <3>1. tmp' = out /\ start' = S[1] /\ pc' = "rewrite"
        <4>1. SubSeq(out, 1, Len(out)) = out
          BY <2>1, SubSeqFull
        <4>2. tmp' = out /\ start' = Search(out, 1) /\ pc' = "rewrite"
          BY <2>1, <2>6, <2>9, <4>1
        <4> QED BY <2>3, <4>2, FirstCode
      <3>2. 1 \in 1 .. n + 1 /\ 0 < n
        BY <1>2, <2>4
      <3>3. /\ S[1] \in Nat \ {0} /\ S[1] <= Len(out) + 1
        BY <2>3, <3>2, CodeOrEnd
      <3>4. job.units[1].zeros \in Nat /\ S[1] = job.units[1].zeros + 1
        BY <2>3, <3>2 DEF Outline
      <3>5. SpsBefore(1) = {} /\ Cardinality(SpsBefore(1)) = 0
        <4>1. SpsBefore(1) = {}
          BY DEF SpsBefore
        <4> QED BY <4>1, FS_EmptySet
      <3>6. SpsBefore(1)' = SpsBefore(1)
        BY <2>1 DEF SpsBefore
      <3>7. /\ size' = dst' + (Len(tmp') + 1 - S[1]) - 5 * Cardinality(SpsBefore(1)') + job'.units[1].zeros
            /\ size' >= Len(tmp') + 1 - S[1]
        <4>1. PICK l \in Nat, z \in Nat : l = Len(out) /\ z = job.units[1].zeros
          BY <2>8, <3>4
        <4>2. PICK c \in Nat : c = Cardinality(SpsBefore(1)') /\ c = 0
          BY <3>5, <3>6
        <4>3. Len(tmp') = l /\ S[1] = z + 1 /\ dst' = 0 /\ size' = l /\ job'.units[1].zeros = z
          BY <2>1, <2>8, <3>1, <3>4, <4>1
        <4>4. l = 0 + (l + 1 - (z + 1)) - 5 * c + z /\ l >= l + 1 - (z + 1)
          BY <4>1, <4>2, SMTT(40)
        <4> QED BY <4>2, <4>3, <4>4, Zenon
      <3>8. RewriteAt(S, 1)'
        <4>1. Outline(tmp', S, Len(job'.units), job'.units) /\ 0 < Len(job'.units)
              /\ 1 \in 1 .. Len(job'.units) + 1 /\ start' = S[1]
          BY <1>2, <2>1, <2>3, <3>1, <3>2
        <4>2. Len(tmp') <= Len(out')
          BY <2>1, <2>8, <3>1
        <4> QED BY <3>7, <4>1, <4>2 DEF RewriteAt
      <3>9. start' \in 1 .. Len(out') + 1
        BY <2>1, <2>8, <3>1, <3>3
      <3>10. SizeAccounts'
        BY <3>1 DEF SizeAccounts, Rewritten
      <3> QED BY <2>1, <2>7, <2>8, <3>1, <3>8, <3>9, <3>10 DEF RunInv
    <2>10. CASE ~(type = NAL_SPS /\ StopsAt(type))
      <3>1. start' = S[i + 1] /\ tmp' = tmp /\ pc' \in {"scan", "done"}
        BY <2>3, <2>4, <2>6, <2>10, NextCode
      <3>2. i + 1 \in 1 .. n + 1
        BY <1>2, <2>4
      <3>3. S[i + 1] \in Nat \ {0} /\ S[i + 1] <= Len(out) + 1
        BY <2>3, <3>2, CodeOrEnd
      <3>4. start' \in 1 .. Len(out') + 1
        BY <2>1, <2>8, <3>1, <3>3
      <3>5. SizeAccounts'
        BY <2>1, <2>8, <3>1 DEF SizeAccounts, Rewritten
      <3> QED BY <2>1, <2>7, <2>8, <3>1, <3>4, <3>5 DEF RunInv
    <2> QED BY <2>9, <2>10
  <1>6. CASE ScanEnds
    <2>1. /\ pc = "scan" /\ pc' = "done" /\ size = Len(out) /\ dst = 0
          /\ out = StreamOf(job.units)
          /\ UNCHANGED <<job, surface, out, size, hasIDR, tmp, start, dst>>
      BY <1>6 DEF ScanEnds, KeyInv, RunInv
    <2>2. SizeAccounts'
      BY <2>1 DEF SizeAccounts, Rewritten
    <2> QED BY <2>1, <2>2 DEF RunInv
  <1>7. CASE Rewrite
    <2>1. pc = "rewrite"
      BY <1>7 DEF Rewrite
    <2>2. PICK S, i : RewriteAt(S, i)
      BY <2>1 DEF RunInv
    <2>3. out \in Seq(Bytes) /\ size \in Nat /\ dst \in 0 .. Len(out) /\ tmp \in Seq(Bytes)
          /\ surface = <<>> /\ hasIDR \in BOOLEAN
      BY <2>1 DEF RunInv
    <2>4. /\ job' = job /\ tmp' = tmp /\ surface' = surface /\ hasIDR' = hasIDR
          /\ out' \in Seq(Bytes) /\ size' \in Nat /\ dst' \in 0 .. Len(out')
          /\ start' \in 1 .. Len(out') + 1
          /\ pc' \in {"rewrite", "dead"}
          /\ pc' = "rewrite" => RewriteAt(S, i + 1)'
      BY <1>1, <1>7, <2>2, <2>3, StepRewrite
    <2>5. SizeAccounts'
      BY <2>4 DEF SizeAccounts, Rewritten
    <2> QED BY <2>3, <2>4, <2>5 DEF RunInv
  <1>8. CASE RewriteEnds
    <2>1. /\ pc = "rewrite" /\ pc' = "done" /\ start > Len(tmp)
          /\ UNCHANGED <<job, surface, out, size, hasIDR, tmp, start, dst>>
      BY <1>8 DEF RewriteEnds
    <2>2. PICK S, i : RewriteAt(S, i)
      BY <2>1 DEF RunInv
    <2>3. Len(tmp) \in Nat /\ start \in Nat /\ start <= Len(tmp) + 1 /\ i \in Nat \ {0} /\ i <= n + 1
      BY <1>1, <1>2, <2>2, RewriteKnows
    <2>4. i \notin 1 .. n
      <3>1. ~(start <= Len(tmp))
        BY <2>1, <2>3
      <3> QED BY <1>1, <1>2, <2>2, <3>1, RewriteKnows
    <2>5. i = n + 1
      BY <1>2, <2>3, <2>4
    <2>6. /\ 0 < n /\ start = S[i]
          /\ i > 1 => dst > 0
          /\ size = dst + (Len(tmp) + 1 - S[i]) - 5 * Cardinality(SpsBefore(i)) + job.units[1].zeros
      BY <1>2, <2>2 DEF RewriteAt
    <2>7. start = Len(tmp) + 1 /\ dst > 0
      BY <1>2, <2>1, <2>3, <2>5, <2>6
    <2>8. SpsBefore(i) = Positions(IsSps)
      <3>1. i - 1 = n
        BY <1>2, <2>5
      <3>2. DOMAIN job.units = 1 .. n
        BY <1>1, <1>2, UnitsOfJob
      <3> QED BY <3>1, <3>2 DEF SpsBefore, Positions
    <2>9. size = dst - 5 * Cardinality(Positions(IsSps)) + job.units[1].zeros
      <3>1. dst \in Nat
        BY DEF RunInv
      <3>2. Len(tmp) + 1 - S[i] = 0
        BY <2>3, <2>6, <2>7
      <3>3. PICK c \in Nat, z \in Nat : c = Cardinality(SpsBefore(i)) /\ z = job.units[1].zeros
        BY <1>1, <2>2, <2>3, CountSps, RewriteKnows
      <3>4. size = dst + 0 - 5 * c + z
        BY <2>6, <3>2, <3>3
      <3>5. size = dst - 5 * c + z
        BY <3>1, <3>3, <3>4
      <3> QED BY <2>8, <3>3, <3>5, Zenon
    <2>10. Positions(IsSps)' = Positions(IsSps)
      BY <2>1 DEF Positions, IsSps
    <2>11. SizeAccounts'
      <3>1. dst' > 0 /\ ~(dst' = 0)
        BY <2>1, <2>7
      <3> QED BY <2>1, <2>9, <2>10, <3>1 DEF SizeAccounts, Rewritten
    <2> QED BY <2>1, <2>11 DEF RunInv
  <1>9. CASE UNCHANGED vars
    BY <1>9, ZenonT(40) DEF RunInv, RewriteAt, SpsBefore, SizeAccounts, Rewritten, Positions, vars
  <1> QED BY <1>3, <1>4, <1>5, <1>6, <1>7, <1>8, <1>9 DEF Next

\* The two invariants hold together: RunInv needs the sizes of the scan.
LEMMA AlwaysRunInv == Spec => [](KeyInv /\ RunInv)
  <1>1. Init => KeyInv /\ RunInv
    <2>1. Init => KeyInv
      BY DEF Init, KeyInv
    <2> QED BY <2>1, InitRunInv
  <1>2. (KeyInv /\ RunInv) /\ [Next]_vars => (KeyInv /\ RunInv)'
    BY StepKeyInv, StepRunInv
  <1> QED BY <1>1, <1>2, PTL DEF Spec

\* For any units, and any colours that are told: mCompressed_size is what the code
\* makes of it, five bytes short for each parameter set that was written again
\* (compress.cpp:807-822), and the length of the output if none was.
THEOREM SizeIsAccountedFor == Spec => []SizeAccounts
  <1>1. RunInv => SizeAccounts
    BY DEF RunInv
  <1> QED BY <1>1, AlwaysRunInv, PTL

\* The surface is a function of offsets in the bytes of the surface, the buffers
\* hold bytes, and no count leaves its buffer, whatever add_vui made of a parameter
\* set.
THEOREM FrameDataTyped == Spec => []TypeOK
  <1>1. DataInv /\ KeyInv /\ RunInv => TypeOK
    <2> SUFFICES ASSUME DataInv, RunInv PROVE TypeOK
      OBVIOUS
    <2>1. IsJob(job)
      BY JobsAssumption DEF DataInv
    <2>2. DOMAIN surface \subseteq Nat
      <3>1. CASE pc # "encode"
        BY <3>1 DEF RunInv
      <3>2. CASE pc = "encode"
        <4>1. surface = Converted(job.frame) /\ CompressQuery(job.frame) /\ IsFrame(job.frame)
          BY <2>1, <3>2 DEF DataInv, IsJob
        <4>2. DOMAIN Converted(job.frame) \subseteq 0 .. SurfaceSize(job.frame) - 1
          BY <4>1, ConvertedInside
        <4> QED BY <4>1, <4>2
      <3> QED BY <3>1, <3>2
    <2> QED BY <2>1, <2>2 DEF TypeOK, RunInv
  <1> QED BY <1>1, AlwaysDataInv, AlwaysRunInv, PTL

-----------------------------------------------------------------------------
(* The stream that is written, unit by unit *)

\* A stream is made of pieces that hold the first n of these units.
MadeOf(s, n, N) == \E at, parts, Z, T : Pieces(n, parts, Z, N, T) /\ Laid(s, at, n, parts)

\* At first it is made of none.
LEMMA NothingMade ==
    ASSUME NEW N, NEW s, s = <<>>
    PROVE  MadeOf(s, 0, N)
  <1>1. PICK at : at = [k \in 0 .. 0 |-> 0]
    OBVIOUS
  <1>2. at \in [0 .. 0 -> Nat] /\ at[0] = 0 /\ Len(s) = 0
    BY <1>1
  <1>3. \A i \in 1 .. 0 : FALSE
    OBVIOUS
  <1>4. Pieces(0, <<>>, <<>>, N, <<>>)
    BY <1>3 DEF Pieces
  <1>5. Laid(s, at, 0, <<>>)
    BY <1>2, <1>3 DEF Laid
  <1> QED BY <1>4, <1>5 DEF MadeOf

\* A piece more holds a unit more.
LEMMA OnePieceMore ==
    ASSUME NEW s \in Seq(Bytes), NEW n, NEW N, MadeOf(s, n, N),
           NEW b, NEW z, NEW t, IsPiece(b, z, N[n + 1], t), NEW c, c = s \o b
    PROVE  MadeOf(c, n + 1, N)
  <1>1. PICK at, parts, Z, T : Pieces(n, parts, Z, N, T) /\ Laid(s, at, n, parts)
    BY DEF MadeOf
  <1>2. n \in Nat /\ at \in [0 .. n -> Nat] /\ at[0] = 0 /\ Len(s) = at[n]
    <2>1. n \in Nat
      BY <1>1, Zenon DEF Pieces
    <2> QED BY <1>1, <2>1, Zenon DEF Laid
  <1>3. PICK l \in Nat : l = Len(b) /\ b \in Seq(Bytes)
    <2>1. b \in Seq(Bytes)
      BY DEF IsPiece
    <2> QED BY <2>1
  <1>4. PICK a \in Nat : a = Len(s)
    OBVIOUS
  <1>5. PICK at2 : at2 = [k \in 0 .. n + 1 |-> IF k = n + 1 THEN a + l ELSE at[k]]
    OBVIOUS
  <1>6. PICK parts2 : parts2 = [k \in 1 .. n + 1 |-> IF k = n + 1 THEN b ELSE parts[k]]
    OBVIOUS
  <1>7. PICK Z2 : Z2 = [k \in 1 .. n + 1 |-> IF k = n + 1 THEN z ELSE Z[k]]
    OBVIOUS
  <1>8. PICK T2 : T2 = [k \in 1 .. n + 1 |-> IF k = n + 1 THEN t ELSE T[k]]
    OBVIOUS
  <1>9. /\ c \in Seq(Bytes) /\ Len(c) = a + l
        /\ \A x \in 1 .. a : c[x] = s[x]
        /\ \A k \in 1 .. l : c[a + k] = b[k]
    <2>1. /\ c \in Seq(Bytes) /\ Len(c) = Len(s) + Len(b)
          /\ \A x \in 1 .. Len(s) : c[x] = s[x]
          /\ \A k \in 1 .. Len(b) : c[Len(s) + k] = b[k]
      BY <1>3, ConcatFacts
    <2> QED BY <1>3, <1>4, <2>1
  <1>10. ASSUME NEW k \in 1 .. n
         PROVE  /\ parts2[k] = parts[k] /\ Z2[k] = Z[k] /\ T2[k] = T[k]
                /\ at2[k - 1] = at[k - 1] /\ at2[k] = at[k]
    <2>1. k \in 1 .. n + 1 /\ k # n + 1 /\ k \in 0 .. n + 1 /\ k - 1 \in 0 .. n + 1 /\ k - 1 # n + 1
      BY <1>2
    <2> QED BY <1>5, <1>6, <1>7, <1>8, <2>1
  <1>11. /\ parts2[n + 1] = b /\ Z2[n + 1] = z /\ T2[n + 1] = t
         /\ at2[n + 1] = a + l /\ at2[n + 1 - 1] = a
    <2>1. n + 1 \in 1 .. n + 1 /\ n + 1 \in 0 .. n + 1 /\ n + 1 - 1 = n /\ n \in 0 .. n + 1 /\ n # n + 1
      BY <1>2
    <2>2. at2[n] = at[n]
      BY <1>5, <2>1
    <2> QED BY <1>2, <1>4, <1>5, <1>6, <1>7, <1>8, <2>1, <2>2
  <1>12. \A k \in 1 .. n + 1 : k = n + 1 \/ k \in 1 .. n
    BY <1>2
  <1>13. Pieces(n + 1, parts2, Z2, N, T2)
    <2>1. ASSUME NEW k \in 1 .. n + 1 PROVE IsPiece(parts2[k], Z2[k], N[k], T2[k])
      <3>1. CASE k = n + 1
        BY <1>11, <3>1
      <3>2. CASE k \in 1 .. n
        <4>1. IsPiece(parts[k], Z[k], N[k], T[k])
          BY <1>1, <3>2 DEF Pieces
        <4> QED BY <1>10, <3>2, <4>1
      <3> QED BY <1>12, <3>1, <3>2
    <2>2. n + 1 \in Nat
      BY <1>2
    <2> QED BY <2>1, <2>2 DEF Pieces
  <1>14. Laid(c, at2, n + 1, parts2)
    <2>1. at2 \in [0 .. n + 1 -> Nat] /\ at2[0] = 0
      <3>1. \A k \in 0 .. n + 1 : k # n + 1 => k \in 0 .. n
        BY <1>2
      <3>2. a + l \in Nat
        OBVIOUS
      <3>3. 0 \in 0 .. n + 1 /\ 0 # n + 1
        BY <1>2
      <3> QED BY <1>2, <1>5, <3>1, <3>2, <3>3
    <2>2. ASSUME NEW k \in 1 .. n + 1
          PROVE  /\ at2[k] = at2[k - 1] + Len(parts2[k])
                 /\ \A x \in 1 .. Len(parts2[k]) : c[at2[k - 1] + x] = parts2[k][x]
      <3>1. CASE k = n + 1
        <4>0. at2[k] = at2[n + 1] /\ at2[k - 1] = at2[n + 1 - 1] /\ parts2[k] = parts2[n + 1]
          BY <1>2, <3>1
        <4>1. at2[k] = a + l /\ at2[k - 1] = a /\ parts2[k] = b
          BY <1>11, <4>0, Zenon
        <4>2. Len(parts2[k]) = l
          BY <1>3, <4>1
        <4>3. \A x \in 1 .. l : c[at2[k - 1] + x] = parts2[k][x]
          BY <1>9, <4>1
        <4> QED BY <4>1, <4>2, <4>3
      <3>2. CASE k \in 1 .. n
        <4>1. PICK d, e, p, m : d = at[k - 1] /\ e = at[k] /\ p = parts[k] /\ m = Len(p)
          OBVIOUS
        <4>2. /\ at[k - 1] \in Nat /\ at[k] \in Nat /\ at[k] <= Len(s)
              /\ Len(parts[k]) \in Nat
              /\ at[k] = at[k - 1] + Len(parts[k])
              /\ \A x \in 1 .. Len(parts[k]) : s[at[k - 1] + x] = parts[k][x]
          BY <1>1, <3>2, PieceIn
        <4>3. d \in Nat /\ e \in Nat /\ e <= a /\ m \in Nat /\ e = d + m /\ \A x \in 1 .. m : s[d + x] = p[x]
          BY <1>4, <4>1, <4>2
        <4>4. ASSUME NEW x \in 1 .. m PROVE c[d + x] = p[x]
          <5>1. d + x \in 1 .. a
            BY <4>3
          <5> QED BY <1>9, <4>3, <5>1
        <4>5. at2[k] = e /\ at2[k - 1] = d /\ parts2[k] = p
          BY <1>10, <3>2, <4>1
        <4> QED BY <4>1, <4>3, <4>4, <4>5
      <3> QED BY <1>12, <3>1, <3>2
    <2>3. Len(c) = at2[n + 1]
      BY <1>9, <1>11
    <2> QED BY <2>1, <2>2, <2>3 DEF Laid
  <1> QED BY <1>13, <1>14 DEF MadeOf

\* A player finds the units of the pieces.
LEMMA MadeFound ==
    ASSUME NEW s \in Seq(Bytes), NEW n, NEW N, MadeOf(s, n, N)
    PROVE  /\ DOMAIN UnitsIn(s) = 1 .. n /\ Len(UnitsIn(s)) = n
           /\ \A i \in 1 .. n : UnitsIn(s)[i] = N[i]
  <1>1. PICK at, parts, Z, T : Pieces(n, parts, Z, N, T) /\ Laid(s, at, n, parts)
    BY DEF MadeOf
  <1>2. PICK S : AreStarts(S, s, n, at, Z)
    BY DEF AreStarts
  <1>3. Holds(s, S, n, N)
    BY <1>1, <1>2, PiecesHold
  <1> QED BY <1>3, UnitsFound

\* The written bytes of a parameter set are a piece of a stream.
LEMMA PieceOfSet ==
    ASSUME NEW h \in Bytes, TypeOfHeader(h) = NAL_SPS, NEW e \in Seq(Bytes),
           Len(e) \in Nat \ {0}, e[Len(e)] # 0, Plain(e),
           NEW b, b = <<0, 0, 0, 1, h>> \o e, NEW nal, nal = <<h>> \o e
    PROVE  IsPiece(b, 1, nal, 0)
  <1>1. PICK l \in Nat \ {0} : l = Len(e) /\ e[l] # 0
    OBVIOUS
  <1>2. h # 0
    BY DEF TypeOfHeader, NAL_SPS
  <1>3. PICK head : head = <<0, 0, 0, 1, h>>
    OBVIOUS
  <1>4. /\ head \in Seq(Bytes) /\ Len(head) = 5
        /\ head[1] = 0 /\ head[2] = 0 /\ head[3] = 0 /\ head[4] = 1 /\ head[5] = h
    BY <1>3 DEF Bytes
  <1>5. PICK one : one = <<h>>
    OBVIOUS
  <1>6. one \in Seq(Bytes) /\ Len(one) = 1 /\ one[1] = h
    BY <1>5
  <1>7. /\ nal \in Seq(Bytes) /\ Len(nal) = 1 + l /\ nal[1] = h
        /\ \A k \in 1 .. l : nal[1 + k] = e[k]
    <2>1. nal = one \o e
      BY <1>5
    <2>2. /\ nal \in Seq(Bytes) /\ Len(nal) = Len(one) + Len(e)
          /\ \A x \in 1 .. Len(one) : nal[x] = one[x]
          /\ \A k \in 1 .. Len(e) : nal[Len(one) + k] = e[k]
      BY <1>6, <2>1, ConcatFacts
    <2>3. nal[1] = one[1]
      <3>1. 1 \in 1 .. Len(one)
        BY <1>6
      <3> QED BY <2>2, <3>1
    <2> QED BY <1>1, <1>6, <2>2, <2>3
  <1>8. /\ b \in Seq(Bytes) /\ Len(b) = 5 + l
        /\ \A x \in 1 .. 5 : b[x] = head[x]
        /\ \A k \in 1 .. l : b[5 + k] = e[k]
    <2>1. b = head \o e
      BY <1>3
    <2>2. /\ b \in Seq(Bytes) /\ Len(b) = Len(head) + Len(e)
          /\ \A x \in 1 .. Len(head) : b[x] = head[x]
          /\ \A k \in 1 .. Len(e) : b[Len(head) + k] = e[k]
      BY <1>4, <2>1, ConcatFacts
    <2> QED BY <1>1, <1>4, <2>2
  <1>9. nal[Len(nal)] # 0
    BY <1>1, <1>7
  <1>10. ASSUME NEW x \in 1 .. Len(nal) - 2, CodeAt(nal, x) PROVE FALSE
    <2>1. nal[x] = 0 /\ nal[x + 1] = 0 /\ nal[x + 2] = 1
      BY <1>10 DEF CodeAt
    <2>2. x # 1
      BY <1>2, <1>7, <2>1
    <2>3. PICK y \in 1 .. l - 2 : y = x - 1
      BY <1>1, <1>7, <2>2
    <2>4. x = 1 + y /\ x + 1 = 1 + (y + 1) /\ x + 2 = 1 + (y + 2)
          /\ y \in 1 .. l /\ y + 1 \in 1 .. l /\ y + 2 \in 1 .. l
      BY <1>1, <2>3
    <2>5. e[y] = 0 /\ e[y + 1] = 0 /\ e[y + 2] = 1
      BY <1>7, <2>1, <2>4
    <2> QED BY <1>1, <2>3, <2>5 DEF Plain
  <1>11. /\ b[1] = 0 /\ b[2] = 0 /\ b[1 + 1] = 0 /\ b[1 + 2] = 0 /\ b[1 + 3] = 1
    <2>1. b[1] = 0 /\ b[2] = 0 /\ b[3] = 0 /\ b[4] = 1
      BY <1>4, <1>8
    <2> QED BY <2>1
  <1>12. ASSUME NEW k \in 1 .. Len(nal) PROVE b[1 + 3 + k] = nal[k]
    <2>1. CASE k = 1
      <3>1. b[5] = h
        BY <1>4, <1>8
      <3> QED BY <1>7, <2>1, <3>1
    <2>2. CASE k # 1
      <3>1. PICK y \in 1 .. l : y = k - 1
        BY <1>1, <1>7, <2>2
      <3>2. k = 1 + y /\ 1 + 3 + k = 5 + y
        BY <3>1
      <3> QED BY <1>7, <1>8, <3>2
    <2> QED BY <2>1, <2>2
  <1>13. \A k \in 1 + 4 + Len(nal) .. Len(b) : b[k] = 0
    <2>1. 1 + 4 + Len(nal) .. Len(b) = {}
      BY <1>1, <1>7, <1>8
    <2> QED BY <2>1
  <1>14. Len(nal) \in Nat \ {0} /\ Len(b) = 1 + 3 + Len(nal) + 0
    BY <1>1, <1>7, <1>8
  <1> QED BY <1>7, <1>8, <1>9, <1>10, <1>11, <1>12, <1>13, <1>14 DEF IsPiece

\* A unit that is copied from its start code up to the next is one too.
LEMMA PieceOfCopy ==
    ASSUME NEW s \in Seq(Bytes), NEW a \in Nat \ {0}, NEW to \in Nat, to <= Len(s) + 1, NEW nal,
           UnitFrom(s, a, to, nal), to <= a + 4 + Len(nal),
           \A x \in 1 .. Len(nal) - 2 : ~CodeAt(nal, x),
           NEW b, b = SubSeq(s, a, to - 1)
    PROVE  \E t : IsPiece(b, 0, nal, t)
  <1>1. PICK l \in Nat \ {0} : l = Len(nal) /\ nal[l] # 0
    BY DEF UnitFrom
  <1>2. /\ nal \in Seq(Bytes) /\ a + 3 + l <= to /\ to <= a + 4 + l
        /\ s[a] = 0 /\ s[a + 1] = 0 /\ s[a + 2] = 1
        /\ \A k \in 1 .. l : s[a + 2 + k] = nal[k]
        /\ \A x \in a + 3 + l .. to - 1 : s[x] = 0
    BY <1>1 DEF UnitFrom, CodeAt
  <1>3. PICK t \in {0, 1} : to = a + 3 + l + t
    <2>1. to - (a + 3 + l) \in {0, 1} /\ to = a + 3 + l + (to - (a + 3 + l))
      BY <1>2
    <2> QED BY <2>1
  <1>4. PICK m \in Nat : m = 3 + l + t
    BY <1>3
  <1>5. IsPart(b, Bytes, s, a, m)
    <2>1. a \in Int /\ to - 1 = a + m - 1
      BY <1>3, <1>4
    <2>2. \A i \in a .. to - 1 : s[i] \in Bytes
      <3>1. TAKE i \in a .. to - 1
      <3>2. i \in 1 .. Len(s)
        OBVIOUS
      <3> QED BY <3>2, ElementOfSeq
    <2> QED BY <2>1, <2>2, PartOf, Zenon
  <1>6. b \in Seq(Bytes) /\ Len(b) = m /\ \A k \in 1 .. m : b[k] = s[a + k - 1]
    BY <1>5 DEF IsPart
  <1>7. b[1] = 0 /\ b[2] = 0 /\ b[3] = 1
    <2>1. 1 \in 1 .. m /\ 2 \in 1 .. m /\ 3 \in 1 .. m
          /\ a + 1 - 1 = a /\ a + 2 - 1 = a + 1 /\ a + 3 - 1 = a + 2
      BY <1>3, <1>4
    <2> QED BY <1>2, <1>6, <2>1
  <1>8. ASSUME NEW k \in 1 .. l PROVE b[0 + 3 + k] = nal[k]
    <2>1. 0 + 3 + k \in 1 .. m /\ a + (0 + 3 + k) - 1 = a + 2 + k
      BY <1>3, <1>4
    <2> QED BY <1>2, <1>6, <2>1
  <1>9. ASSUME NEW k \in 0 + 4 + l .. m PROVE b[k] = 0
    <2>1. k \in 1 .. m /\ a + k - 1 \in a + 3 + l .. to - 1
      BY <1>3, <1>4
    <2> QED BY <1>2, <1>6, <2>1
  <1>10. b[0 + 1] = 0 /\ b[0 + 2] = 0 /\ b[0 + 3] = 1 /\ m = 0 + 3 + l + t
    <2>1. 0 + 1 = 1 /\ 0 + 2 = 2 /\ 0 + 3 = 3
      OBVIOUS
    <2>2. m = 0 + 3 + l + t
      BY <1>4
    <2> QED BY <1>7, <2>1, <2>2, Zenon
  <1>11. IsPiece(b, 0, nal, t)
    <2>1. Len(nal) \in Nat \ {0} /\ nal[Len(nal)] # 0 /\ Len(b) = 0 + 3 + Len(nal) + t
      BY <1>1, <1>6, <1>10, Zenon
    <2>2. \A k \in 1 .. Len(nal) : b[0 + 3 + k] = nal[k]
      BY <1>1, <1>8, Zenon
    <2>3. \A k \in 0 + 4 + Len(nal) .. Len(b) : b[k] = 0
      BY <1>1, <1>6, <1>9, Zenon
    <2> QED BY <1>2, <1>3, <1>6, <1>7, <1>10, <2>1, <2>2, <2>3 DEF IsPiece
  <1> QED BY <1>11

\* A sequence that others were appended to begins with it.
LEMMA FirstOfBoth ==
    ASSUME NEW E, NEW a \in Seq(E), NEW b \in Seq(E), NEW c, c = a \o b, NEW n, n = Len(a)
    PROVE  SubSeq(c, 1, n) = a
  <1>1. /\ c \in Seq(E) /\ Len(c) = n + Len(b) /\ n \in Nat /\ Len(b) \in Nat
        /\ \A x \in 1 .. n : c[x] = a[x]
    BY ConcatFacts
  <1>2. PICK u : u = SubSeq(c, 1, n)
    OBVIOUS
  <1>3. IsPart(u, E, c, 1, n)
    <2>1. 1 \in Int /\ n = 1 + n - 1
      BY <1>1
    <2>2. \A i \in 1 .. n : c[i] \in E
      <3>1. TAKE i \in 1 .. n
      <3>2. i \in 1 .. Len(c)
        BY <1>1
      <3> QED BY <1>1, <3>2, ElementOfSeq
    <2> QED BY <1>1, <1>2, <2>1, <2>2, PartOf, Zenon
  <1>4. u \in Seq(E) /\ Len(u) = n /\ \A k \in 1 .. n : u[k] = c[1 + k - 1]
    BY <1>3 DEF IsPart
  <1>5. \A k \in 1 .. n : u[k] = a[k]
    <2>1. TAKE k \in 1 .. n
    <2>2. 1 + k - 1 = k
      OBVIOUS
    <2> QED BY <1>1, <1>4, <2>2
  <1>6. Len(u) = Len(a) /\ \A k \in 1 .. Len(u) : u[k] = a[k]
    BY <1>4, <1>5
  <1>7. u = a
    BY <1>4, <1>6, SeqEqual, Zenon
  <1> QED BY <1>2, <1>7

\* What was written, and bytes behind it.
IsBehind(new, o, d, m, bytes) ==
    /\ SubSeq(o, 1, d) \in Seq(Bytes)
    /\ SubSeq(new, 1, d + m) = SubSeq(o, 1, d) \o bytes

\* What is put into the buffer is behind what was written.
LEMMA PutBehind ==
    ASSUME NEW o \in Seq(Bytes), NEW d \in Nat, d <= Len(o), NEW bytes \in Seq(Bytes),
           NEW m \in Nat, m = Len(bytes),
           NEW new, IsPut(new, o, d, m, bytes)
    PROVE  IsBehind(new, o, d, m, bytes)
  <1>1. PICK n \in Nat : n = Len(o) /\ d <= n
    OBVIOUS
  <1>2. PICK a : a = SubSeq(o, 1, d)
    OBVIOUS
  <1>3. HasBytes(a, d)
    <2>1. d = 1 + d - 1
      OBVIOUS
    <2>2. \A k \in 1 .. d : o[k] \in Bytes
      <3>1. TAKE k \in 1 .. d
      <3>2. k \in 1 .. Len(o)
        OBVIOUS
      <3> QED BY <3>2, ElementOfSeq
    <2>3. IsPart(a, Bytes, o, 1, d)
      BY <1>2, <2>1, <2>2, PartOf, 1 \in Int, Zenon
    <2> QED BY <2>3 DEF IsPart, HasBytes
  <1>4. PICK e : e = a \o bytes
    OBVIOUS
  <1>5. HasBytes(e, d + m)
    <2>1. HasBytes(bytes, m)
      BY DEF HasBytes
    <2> QED BY <1>3, <1>4, <2>1, JoinedBytes, Zenon
  <1>6. PICK f \in Int : f = d + m + 1
    OBVIOUS
  <1>7. PICK c : c = SubSeq(o, f, n)
    OBVIOUS
  <1>8. c \in Seq(Bytes)
    <2>1. n \in Int /\ \A i \in f .. n : o[i] \in Bytes
      <3>1. ASSUME NEW i \in f .. n PROVE o[i] \in Bytes
        <4>1. i \in 1 .. Len(o)
          BY <1>1, <1>6
        <4> QED BY <4>1, ElementOfSeq
      <3> QED BY <3>1
    <2> QED BY <1>7, <2>1, SubSeqProperties
  <1>9. new = e \o c
    BY <1>1, <1>2, <1>4, <1>6, <1>7, Zenon DEF IsPut
  <1>10. SubSeq(new, 1, d + m) = e
    <2>1. e \in Seq(Bytes) /\ Len(e) = d + m
      BY <1>5 DEF HasBytes
    <2> QED BY <1>8, <1>9, <2>1, FirstOfBoth, Zenon
  <1>11. a \in Seq(Bytes)
    BY <1>3 DEF HasBytes
  <1> QED BY <1>2, <1>4, <1>10, <1>11, Zenon DEF IsBehind

\* Bytes that are put into the buffer come behind those that were written.
LEMMA StreamGrows ==
    ASSUME out \in Seq(Bytes), dst \in 0 .. Len(out), NEW bytes \in Seq(Bytes), Put(bytes)
    PROVE  Stream \in Seq(Bytes) /\ Stream' = Stream \o bytes
  <1>1. PICK m \in Nat : m = Len(bytes)
    OBVIOUS
  <1>2. dst \in Nat /\ dst <= Len(out)
    OBVIOUS
  <1>3. out' = SubSeq(out, 1, dst) \o bytes \o SubSeq(out, dst + m + 1, Len(out)) /\ dst' = dst + m
    BY <1>1, Zenon DEF Put
  <1>4. IsPut(out', out, dst, m, bytes)
    BY <1>3, Zenon DEF IsPut
  <1>5. IsBehind(out', out, dst, m, bytes)
    BY <1>1, <1>2, <1>4, PutBehind, Zenon
  <1> QED BY <1>3, <1>5, Zenon DEF IsBehind, Stream

\* The bytes of a unit behind its header.
LEMMA BehindHeader ==
    ASSUME NEW h \in Bytes, NEW body \in Seq(Bytes), NEW nal, nal = <<h>> \o body
    PROVE  Len(nal) = 1 + Len(body) /\ \A k \in 1 .. Len(body) : nal[1 + k] = body[k]
  <1>1. PICK one : one = <<h>>
    OBVIOUS
  <1>2. one \in Seq(Bytes) /\ Len(one) = 1
    BY <1>1
  <1>3. /\ nal \in Seq(Bytes) /\ Len(nal) = Len(one) + Len(body)
        /\ \A k \in 1 .. Len(one) : nal[k] = one[k]
        /\ \A k \in 1 .. Len(body) : nal[Len(one) + k] = body[k]
    <2>1. nal = one \o body
      BY <1>1
    <2> QED BY <1>2, <2>1, ConcatFacts
  <1> QED BY <1>2, <1>3

\* A unit is its body and one byte of a header.
LEMMA LengthOfNal ==
    ASSUME NEW u \in NalUnits
    PROVE  Len(NalOf(u)) = 1 + Len(u.body)
  <1>1. PICK h \in Bytes, body \in Seq(Bytes) : u.header = h /\ u.body = body
    BY DEF NalUnits
  <1>2. PICK nal : nal = <<h>> \o body
    OBVIOUS
  <1>3. NalOf(u) = nal
    BY <1>1, <1>2, Zenon DEF NalOf
  <1>4. Len(nal) = 1 + Len(body)
    BY <1>2, BehindHeader, Zenon
  <1> QED BY <1>1, <1>3, <1>4

\* What is read of a unit begins with its bytes behind the header.
LEMMA SourceOf ==
    ASSUME NEW s \in Seq(Bytes), NEW a \in Nat \ {0}, NEW to \in Nat, to <= Len(s) + 1,
           NEW u \in NalUnits, UnitFrom(s, a, to, NalOf(u)),
           NEW unit, unit = SubSeq(s, a, to - 1), NEW src, src = SubSeq(unit, 5, Len(unit))
    PROVE  src \in Seq(Bytes) /\ StartsWith(src, u.body)
  <1>1. PICK h \in Bytes, body \in Seq(Bytes) : u.header = h /\ u.body = body
    BY DEF NalUnits
  <1>2. PICK nal : nal = <<h>> \o body
    OBVIOUS
  <1>3. UnitFrom(s, a, to, nal)
    BY <1>1, <1>2, Zenon DEF NalOf
  <1>4. PICK l \in Nat : l = Len(body)
    OBVIOUS
  <1>5. Len(nal) = 1 + l /\ \A k \in 1 .. l : nal[1 + k] = body[k]
    BY <1>2, <1>4, BehindHeader, ZenonT(40)
  <1>6. a + 4 + l <= to /\ \A k \in 1 .. 1 + l : s[a + 2 + k] = nal[k]
    <2>1. a + 3 + (1 + l) <= to /\ \A k \in 1 .. 1 + l : s[a + 2 + k] = nal[k]
      BY <1>3, <1>5 DEF UnitFrom
    <2> QED BY <1>4, <2>1
  <1>7. PICK m \in Nat : m = to - a /\ 4 + l <= m
    BY <1>4, <1>6
  <1>8. IsPart(unit, Bytes, s, a, m)
    <2>1. a \in Int /\ to - 1 = a + m - 1
      BY <1>7
    <2>2. \A i \in a .. to - 1 : s[i] \in Bytes
      <3>1. TAKE i \in a .. to - 1
      <3>2. i \in 1 .. Len(s)
        OBVIOUS
      <3> QED BY <3>2, ElementOfSeq
    <2> QED BY <1>7, <2>1, <2>2, PartOf, Zenon
  <1>9. unit \in Seq(Bytes) /\ Len(unit) = m /\ \A k \in 1 .. m : unit[k] = s[a + k - 1]
    BY <1>8 DEF IsPart
  <1>10. PICK n \in Nat : n = m - 4 /\ l <= n
    BY <1>4, <1>7
  <1>11. IsPart(src, Bytes, unit, 5, n)
    <2>1. 5 \in Int /\ m = 5 + n - 1
      BY <1>7, <1>10
    <2>2. \A i \in 5 .. m : unit[i] \in Bytes
      <3>1. TAKE i \in 5 .. m
      <3>2. i \in 1 .. Len(unit)
        BY <1>7, <1>9
      <3> QED BY <1>9, <3>2, ElementOfSeq
    <2>3. src = SubSeq(unit, 5, m)
      BY <1>9
    <2> QED BY <1>10, <2>1, <2>2, <2>3, PartOf, Zenon
  <1>12. src \in Seq(Bytes) /\ Len(src) = n /\ \A k \in 1 .. n : src[k] = unit[5 + k - 1]
    BY <1>11 DEF IsPart
  <1>13. ASSUME NEW k \in 1 .. l PROVE src[k] = body[k]
    <2>1. k \in 1 .. n /\ 5 + k - 1 \in 1 .. m /\ a + (5 + k - 1) - 1 = a + 2 + (1 + k) /\ 1 + k \in 1 .. 1 + l
      BY <1>4, <1>7, <1>10
    <2>2. src[k] = unit[5 + k - 1] /\ unit[5 + k - 1] = s[a + (5 + k - 1) - 1]
      BY <1>9, <1>12, <2>1
    <2>3. s[a + 2 + (1 + k)] = nal[1 + k] /\ nal[1 + k] = body[k]
      BY <1>5, <1>6, <2>1
    <2> QED BY <2>1, <2>2, <2>3
  <1>14. StartsWith(src, body)
    BY <1>4, <1>10, <1>12, <1>13 DEF StartsWith
  <1> QED BY <1>1, <1>12, <1>14

\* What JobsAssumption says of the parameters of a job and of their sets.
LEMMA SetsOfJob ==
    ASSUME job \in Jobs
    PROVE  /\ IsParameters(job.sps) /\ job.matrix \in Nat
           /\ \A i \in Positions(IsSps) : Legible => job.units[i].body = EncodedSps(job.sps)
  BY JobsAssumption DEF IsJob, Positions, Legible

\* The parameters are read of a set that can be read.
LEMMA SetRead ==
    ASSUME NEW p, IsParameters(p), SameProfile(p),
           NEW src \in Seq(Bytes), StartsWith(src, EncodedSps(p))
    PROVE  ToldBy(ReadSps(src), p)
  <1>1. Carries(BitsOf(src), 0, SpsBits(p))
    BY ParametersAllFit, EncodedIsCoded, CodedIs
  <1> QED BY <1>1, ReadSpsTold

\* A parameter set with the colours of the setting: bytes that do not end with a 0.
LEMMA CarriedBytes ==
    ASSUME NEW p, IsParameters(p), SameProfile(p), NEW matrix \in Nat,
           NEW c, c = EncodedSps(Carried(p, matrix))
    PROVE  c \in Seq(Bytes) /\ Len(c) \in Nat \ {0} /\ c[Len(c)] # 0
  <1>1. PICK e : e = Carried(p, matrix)
    OBVIOUS
  <1>2. AllFit(e)
    BY <1>1, CarriedFits
  <1>3. c = CodedSps(e)
    BY <1>1, CarriedIsCoded
  <1> QED BY <1>2, <1>3, CodedIs

\* What a parameter set grows by, with the zero that comes to its start code.
Growth == 1 + Len(CarriedSps) - Len(EncodedSps(job.sps))

\* What is sent for a unit.
SentFor(unit) == IF IsSps(unit) THEN <<unit.header>> \o CarriedSps ELSE NalOf(unit)

\* All units, as they are to be written.
WrittenUnits == [k \in DOMAIN job.units |-> SentFor(job.units[k])]

\* The units before the i-th were written, in no more bytes than the sets grow by.
WrittenAt(S, i) ==
    /\ MadeOf(Stream, i - 1, WrittenUnits)
    /\ dst + 1 <= S[i] + Cardinality(SpsBefore(i)) * Growth

\* What is written when the i-th unit is taken out of the copy.
LEMMA RewriteTakes ==
    ASSUME job \in Jobs, NEW S, NEW i, RewriteAt(S, i), Rewrite,
           NEW unit, unit = SubSeq(tmp, S[i], S[i + 1] - 1),
           NEW src, src = SubSeq(unit, 5, Len(unit))
    PROVE  /\ job' = job /\ i \in 1 .. Len(job.units) /\ unit[4] = job.units[i].header
           /\ IF IsSps(job.units[i]) THEN RewriteSps(unit, src)
              ELSE Put(unit) /\ UNCHANGED <<size, pc>>
  <1>1. PICK n \in Nat : n = Len(job.units)
    BY UnitsOfJob
  <1>2. Outline(tmp, S, n, job.units) /\ i \in 1 .. n + 1 /\ start = S[i]
    BY <1>1 DEF RewriteAt
  <1>3. job' = job /\ pc = "rewrite" /\ start <= Len(tmp)
    BY DEF Rewrite
  <1>4. i \in 1 .. n
    BY <1>1, <1>3, RewriteKnows
  <1>5. unit[4] = job.units[i].header
    <2>1. IsTaken(unit, S[i], S[i + 1], job.units[i].header)
      BY <1>2, <1>4, UnitAt, Zenon
    <2> QED BY <2>1 DEF IsTaken
  <1>6. Search(tmp, start + 1) = S[i + 1]
    BY <1>2, <1>4, NextCode
  <1>7. IF TypeOfHeader(unit[4]) = NAL_SPS THEN RewriteSps(unit, src)
        ELSE Put(Copied(unit)) /\ UNCHANGED <<size, pc>>
    BY <1>2, <1>6, Zenon DEF Rewrite
  <1>8. IF IsSps(job.units[i]) THEN RewriteSps(unit, src)
        ELSE Put(unit) /\ UNCHANGED <<size, pc>>
    BY <1>5, <1>7, Zenon DEF IsSps, Copied
  <1> QED BY <1>1, <1>3, <1>4, <1>5, <1>8

\* The i-th unit of the copy, from its start code to the next.
UnitBetween(a, to, nal) ==
    /\ a \in Nat \ {0} /\ to \in Nat /\ to <= Len(tmp) + 1
    /\ UnitFrom(tmp, a, to, nal) /\ to <= a + 4 + Len(nal)

\* The units of the copy are those of the encoder.
LEMMA UnitIsBetween ==
    ASSUME job \in Jobs, NEW S, NEW i, RewriteAt(S, i), i \in 1 .. Len(job.units)
    PROVE  UnitBetween(S[i], S[i + 1], NalOf(job.units[i]))
  <1>1. PICK n \in Nat : n = Len(job.units) /\ i \in 1 .. n
    BY UnitsOfJob
  <1>2. Outline(tmp, S, n, job.units)
    BY <1>1 DEF RewriteAt
  <1>3. /\ UnitFrom(tmp, S[i], S[i + 1], NalOf(job.units[i]))
        /\ S[i + 1] <= S[i] + 4 + Len(NalOf(job.units[i]))
    BY <1>1, <1>2 DEF Outline
  <1>4. i \in 1 .. n + 1 /\ i + 1 \in 1 .. n + 1
    BY <1>1
  <1>5. S[i] \in Nat \ {0} /\ S[i + 1] \in Nat \ {0} /\ S[i + 1] <= Len(tmp) + 1
    BY <1>2, <1>4, CodeOrEnd
  <1> QED BY <1>3, <1>5 DEF UnitBetween

\* There is no start code in a unit of the encoder.
LEMMA NoCodeIn ==
    ASSUME job \in Jobs, NEW i \in 1 .. Len(job.units), NEW nal, nal = NalOf(job.units[i])
    PROVE  \A x \in 1 .. Len(nal) - 2 : ~CodeAt(nal, x)
  <1>1. job.units[i] \in NalUnits /\ IsEscaped(job.units[i])
    BY UnitsOfJob
  <1>2. IsPiece(BytesOfUnit(job.units[i]), job.units[i].zeros, nal, 0)
    BY <1>1, PieceOfUnit
  <1> QED BY <1>2, Zenon DEF IsPiece

\* What was to be written stays that.
LEMMA WrittenStays ==
    ASSUME job' = job, NEW i
    PROVE  /\ WrittenUnits' = WrittenUnits /\ Growth' = Growth /\ SpsBefore(i)' = SpsBefore(i)
           /\ (Ordinary' <=> Ordinary) /\ (Legible' <=> Legible)
           /\ (NeedsScalingList(job.sps)' <=> NeedsScalingList(job.sps))
  BY DEF WrittenUnits, SentFor, CarriedSps, Growth, SpsBefore, Ordinary, Legible, Fitting, Positions

\* One piece more is written for the i-th unit.
LEMMA PieceWritten ==
    ASSUME job \in Jobs, job' = job, out \in Seq(Bytes), dst \in 0 .. Len(out),
           NEW i \in 1 .. Len(job.units), MadeOf(Stream, i - 1, WrittenUnits),
           NEW bytes, NEW z, NEW t, IsPiece(bytes, z, SentFor(job.units[i]), t), Put(bytes)
    PROVE  /\ MadeOf(Stream', (i + 1) - 1, WrittenUnits')
           /\ dst' = dst + Len(bytes)
  <1>1. bytes \in Seq(Bytes)
    BY DEF IsPiece
  <1>2. Stream \in Seq(Bytes) /\ Stream' = Stream \o bytes
    BY <1>1, StreamGrows
  <1>3. WrittenUnits[(i - 1) + 1] = SentFor(job.units[i])
    <2>1. i \in DOMAIN job.units /\ (i - 1) + 1 = i
      BY UnitsOfJob
    <2> QED BY <2>1, Zenon DEF WrittenUnits
  <1>4. IsPiece(bytes, z, WrittenUnits[(i - 1) + 1], t)
    BY <1>3
  <1>5. PICK c : c = Stream'
    OBVIOUS
  <1>6. c = Stream \o bytes
    BY <1>2, <1>5
  <1>7. PICK s, N : s = Stream /\ N = WrittenUnits
    OBVIOUS
  <1>8. MadeOf(c, (i - 1) + 1, N)
    <2>1. s \in Seq(Bytes) /\ MadeOf(s, i - 1, N) /\ IsPiece(bytes, z, N[(i - 1) + 1], t) /\ c = s \o bytes
      BY <1>2, <1>4, <1>6, <1>7
    <2> QED BY <2>1, OnePieceMore, Zenon
  <1>9. (i - 1) + 1 = (i + 1) - 1
    OBVIOUS
  <1>10. WrittenUnits' = WrittenUnits
    BY WrittenStays
  <1>11. MadeOf(Stream', (i + 1) - 1, WrittenUnits')
    BY <1>5, <1>7, <1>8, <1>9, <1>10
  <1>12. dst' = dst + Len(bytes)
    BY DEF Put
  <1> QED BY <1>11, <1>12

\* A unit that is copied is written as it was.
LEMMA CopyWritten ==
    ASSUME job \in Jobs, out \in Seq(Bytes), dst \in 0 .. Len(out),
           NEW S, NEW i, RewriteAt(S, i), WrittenAt(S, i), Growth \in Int, Rewrite, ~IsSps(job.units[i])
    PROVE  WrittenAt(S, i + 1)'
  <1>1. PICK unit : unit = SubSeq(tmp, S[i], S[i + 1] - 1)
    OBVIOUS
  <1>2. job' = job /\ i \in 1 .. Len(job.units) /\ Put(unit)
    BY <1>1, RewriteTakes
  <1>3. PICK a, to, nal : a = S[i] /\ to = S[i + 1] /\ nal = NalOf(job.units[i])
    OBVIOUS
  <1>4. UnitBetween(a, to, nal)
    BY <1>2, <1>3, UnitIsBetween
  <1>5. a \in Nat \ {0} /\ to \in Nat /\ to <= Len(tmp) + 1 /\ UnitFrom(tmp, a, to, nal) /\ to <= a + 4 + Len(nal)
    BY <1>4 DEF UnitBetween
  <1>6. tmp \in Seq(Bytes) /\ i \in Nat \ {0}
    BY RewriteKnows
  <1>7. PICK t : IsPiece(unit, 0, nal, t)
    <2>1. \A x \in 1 .. Len(nal) - 2 : ~CodeAt(nal, x)
      BY <1>2, <1>3, NoCodeIn
    <2>2. unit = SubSeq(tmp, a, to - 1)
      BY <1>1, <1>3
    <2> QED BY <1>5, <1>6, <2>1, <2>2, PieceOfCopy
  <1>8. SentFor(job.units[i]) = nal
    BY <1>3 DEF SentFor
  <1>9. /\ MadeOf(Stream', (i + 1) - 1, WrittenUnits')
        /\ dst' = dst + Len(unit)
    <2>1. IsPiece(unit, 0, SentFor(job.units[i]), t) /\ MadeOf(Stream, i - 1, WrittenUnits)
      BY <1>7, <1>8 DEF WrittenAt
    <2> QED BY <1>2, <2>1, PieceWritten
  <1>10. Len(unit) = to - a
    <2>1. PICK n, units : n = Len(job.units) /\ units = job.units
      OBVIOUS
    <2>2. Outline(tmp, S, n, units) /\ i \in 1 .. n
      BY <1>2, <2>1 DEF RewriteAt
    <2>3. IsTaken(unit, S[i], S[i + 1], units[i].header)
      <3>1. PICK from, upTo : from = S[i] /\ upTo = S[i + 1] /\ unit = SubSeq(tmp, S[i], S[i + 1] - 1)
        BY <1>1
      <3> QED BY <2>2, <3>1, UnitAt
    <2> QED BY <1>3, <2>3 DEF IsTaken
  <1>11. PICK c \in Nat, e \in Nat : c = Cardinality(SpsBefore(i)) /\ e = Cardinality(SpsBefore(i + 1)) /\ e = c
    <2>1. /\ Cardinality(SpsBefore(i)) \in Nat
          /\ Cardinality(SpsBefore(i + 1)) = Cardinality(SpsBefore(i)) + (IF IsSps(job.units[i]) THEN 1 ELSE 0)
      BY <1>6, CountSps
    <2> QED BY <2>1
  <1>12. PICK p \in Int : p = c * Growth
    OBVIOUS
  <1>13. dst + 1 <= a + p
    <2>1. dst + 1 <= S[i] + Cardinality(SpsBefore(i)) * Growth
      BY DEF WrittenAt
    <2>2. S[i] = a /\ Cardinality(SpsBefore(i)) * Growth = p
      BY <1>3, <1>11, <1>12
    <2> QED BY <2>1, <2>2, Zenon
  <1>14. dst' + 1 <= to + p
    BY <1>5, <1>9, <1>10, <1>13
  <1>15. Cardinality(SpsBefore(i + 1)') * Growth' = p
    <2>1. SpsBefore(i + 1)' = SpsBefore(i + 1) /\ Growth' = Growth
      BY <1>2, WrittenStays
    <2> QED BY <1>11, <1>12, <2>1
  <1>16. dst' + 1 <= S[i + 1] + Cardinality(SpsBefore(i + 1)') * Growth'
    BY <1>3, <1>14, <1>15
  <1> QED BY <1>9, <1>16, Zenon DEF WrittenAt

\* The sets so far grow by no more than all of them may.
LEMMA GrowthSoFar ==
    ASSUME NEW g \in Int, NEW c \in Nat, NEW n \in Nat, c + 1 <= n, n * g <= 32
    PROVE  (c + 1) * g <= 32 /\ (c + 1) * g = c * g + g
  <1>1. PICK d \in Nat : n = c + 1 + d
    <2>1. n - (c + 1) \in Nat /\ n = c + 1 + (n - (c + 1))
      OBVIOUS
    <2> QED BY <2>1
  <1>2. n * g = (c + 1) * g + d * g /\ (c + 1) * g \in Int /\ d * g \in Int
    BY <1>1
  <1>3. CASE g >= 0
    <2>1. d * g >= 0
      BY <1>3
    <2> QED BY <1>2, <2>1
  <1>4. CASE ~(g >= 0)
    <2>1. (c + 1) * g <= 0
      BY <1>4
    <2>2. (c + 1) * g = c * g + g
      OBVIOUS
    <2> QED BY <1>2, <2>1, <2>2
  <1> QED BY <1>3, <1>4

\* The parameter sets before a unit are some of them.
LEMMA SpsCounted ==
    ASSUME job \in Jobs, NEW i \in 1 .. Len(job.units) + 1
    PROVE  /\ Cardinality(Positions(IsSps)) \in Nat /\ Cardinality(SpsBefore(i)) \in Nat
           /\ Cardinality(SpsBefore(i)) <= Cardinality(Positions(IsSps))
  <1>1. DOMAIN job.units = 1 .. Len(job.units) /\ Len(job.units) \in Nat
    BY UnitsOfJob
  <1>2. IsFiniteSet(Positions(IsSps))
    <2>1. IsFiniteSet(1 .. Len(job.units))
      BY <1>1, FS_Interval
    <2>2. Positions(IsSps) \subseteq 1 .. Len(job.units)
      BY <1>1 DEF Positions
    <2> QED BY <2>1, <2>2, FS_Subset
  <1>3. SpsBefore(i) \subseteq Positions(IsSps)
    BY <1>1 DEF SpsBefore, Positions
  <1> QED BY <1>2, <1>3, FS_Subset, FS_CardinalityType

\* With room enough, the set is written whole.
LEMMA WholeSet ==
    ASSUME NEW p, IsParameters(p), IsNarrow(p), SameProfile(p), NEW matrix \in Nat,
           NEW src \in Seq(Bytes), StartsWith(src, EncodedSps(p)),
           NEW e, e = EncodedSps(Carried(p, matrix)), NEW room \in Int, Len(e) <= room
    PROVE  add_vui(src, room, matrix) = e
  <1>1. WriteSps(Tagged(ReadSps(src), matrix)) = e
    BY SetIsCarried
  <1>2. e \in Seq(Bytes)
    BY CarriedBytes
  <1>3. SubSeq(e, 1, Len(e)) = e
    BY <1>2, SubSeqFull
  <1>4. add_vui(src, room, matrix) = SubSeq(e, 1, Len(e))
    BY <1>1, Zenon DEF add_vui
  <1> QED BY <1>3, <1>4

\* A parameter set that is read can be, and tells of the scaling lists what the
\* parameters do.
LEMMA SourceRead ==
    ASSUME job \in Jobs, NEW S, NEW i, RewriteAt(S, i), i \in 1 .. Len(job.units),
           IsSps(job.units[i]), Legible,
           NEW unit, unit = SubSeq(tmp, S[i], S[i + 1] - 1),
           NEW src, src = SubSeq(unit, 5, Len(unit))
    PROVE  /\ src \in Seq(Bytes) /\ StartsWith(src, EncodedSps(job.sps))
           /\ SameProfile(job.sps) =>
                 (NeedsScalingList(ReadSps(src)) <=> NeedsScalingList(job.sps))
  <1>1. UnitBetween(S[i], S[i + 1], NalOf(job.units[i]))
    BY UnitIsBetween
  <1>2. tmp \in Seq(Bytes)
    BY RewriteKnows
  <1>3. job.units[i] \in NalUnits
    BY UnitsOfJob
  <1>4. src \in Seq(Bytes) /\ StartsWith(src, job.units[i].body)
    <2>1. PICK a, to, u : a = S[i] /\ to = S[i + 1] /\ u = job.units[i]
      OBVIOUS
    <2>2. a \in Nat \ {0} /\ to \in Nat /\ to <= Len(tmp) + 1 /\ UnitFrom(tmp, a, to, NalOf(u))
      BY <1>1, <2>1 DEF UnitBetween
    <2>3. unit = SubSeq(tmp, a, to - 1)
      BY <2>1
    <2>4. u \in NalUnits
      BY <1>3, <2>1
    <2>5. src \in Seq(Bytes) /\ StartsWith(src, u.body)
      BY <1>2, <2>2, <2>3, <2>4, SourceOf
    <2> QED BY <2>1, <2>5
  <1>5. i \in Positions(IsSps)
    BY UnitsOfJob DEF Positions
  <1>6. job.units[i].body = EncodedSps(job.sps) /\ IsParameters(job.sps)
    BY <1>5, SetsOfJob
  <1>7. ASSUME SameProfile(job.sps) PROVE ToldBy(ReadSps(src), job.sps)
    BY <1>4, <1>6, <1>7, SetRead
  <1>8. ASSUME SameProfile(job.sps)
        PROVE  NeedsScalingList(ReadSps(src)) <=> NeedsScalingList(job.sps)
    BY <1>7, <1>8, ListsTold
  <1> QED BY <1>4, <1>6, <1>8

\* Only a scaling list kills the process, or a profile that the code misreads.
LEMMA OnlyListsKill ==
    ASSUME job \in Jobs, NEW S, NEW i, RewriteAt(S, i), Rewrite, pc' = "dead", Legible
    PROVE  NeedsScalingList(job.sps) \/ ~SameProfile(job.sps)
  <1>1. PICK unit : unit = SubSeq(tmp, S[i], S[i + 1] - 1)
    OBVIOUS
  <1>2. PICK src : src = SubSeq(unit, 5, Len(unit))
    OBVIOUS
  <1>3. i \in 1 .. Len(job.units)
        /\ IF IsSps(job.units[i]) THEN RewriteSps(unit, src) ELSE Put(unit) /\ UNCHANGED <<size, pc>>
    BY <1>1, <1>2, RewriteTakes
  <1>4. pc = "rewrite"
    BY DEF Rewrite
  <1>5. IsSps(job.units[i]) /\ RewriteSps(unit, src)
    BY <1>3, <1>4
  <1>6. NeedsScalingList(ReadSps(src))
    BY <1>4, <1>5 DEF RewriteSps
  <1> QED BY <1>1, <1>2, <1>3, <1>5, <1>6, SourceRead

\* What is written for a parameter set, and that there is room for it: d bytes were
\* written of the n that the copy has, the sets so far grow by p and the next by g.
LEMMA RoomForSet ==
    ASSUME NEW d \in Nat, NEW n \in Nat, NEW a \in Nat, NEW to \in Nat, NEW p \in Int, NEW g \in Int,
           NEW l \in Nat, NEW k \in Nat, g = 1 + l - k,
           a + 4 + k <= to, to <= n + 1, d + 1 <= a + p, p + g <= 32
    PROVE  l <= n + 32 - (d + 5) /\ d + 5 + l + 1 <= to + (p + g)
  OBVIOUS

\* The numbers of a parameter set of a job that is to be written: its start, the next,
\* the sets before it and what all of them grow by.
LEMMA SetAccount ==
    ASSUME job \in Jobs, NEW S, NEW i, RewriteAt(S, i), i \in 1 .. Len(job.units),
           IsSps(job.units[i]), Ordinary, dst \in Nat, WrittenAt(S, i),
           NEW e \in Seq(Bytes), e = CarriedSps
    PROVE  /\ Len(e) <= Len(tmp) + 32 - (dst + 5)
           /\ dst + 5 + Len(e) + 1 <= S[i + 1] + Cardinality(SpsBefore(i + 1)) * Growth
  <1>1. UnitBetween(S[i], S[i + 1], NalOf(job.units[i]))
    BY UnitIsBetween
  <1>2. tmp \in Seq(Bytes) /\ i \in Nat \ {0}
    BY RewriteKnows
  <1>3. PICK a \in Nat, to \in Nat, n \in Nat : a = S[i] /\ to = S[i + 1] /\ n = Len(tmp) /\ to <= n + 1
    <2>1. S[i] \in Nat /\ S[i + 1] \in Nat /\ S[i + 1] <= Len(tmp) + 1
      BY <1>1, Zenon DEF UnitBetween
    <2>2. Len(tmp) \in Nat
      BY <1>2
    <2> QED BY <2>1, <2>2
  <1>4. PICK k \in Nat : k = Len(EncodedSps(job.sps))
    <2>1. IsParameters(job.sps) /\ IsNarrow(job.sps) /\ SameProfile(job.sps)
      BY SetsOfJob DEF Ordinary
    <2> QED BY <2>1, ParametersAllFit, EncodedIsCoded, CodedIs
  <1>5. a + 4 + k <= to
    <2>1. a + 3 + Len(NalOf(job.units[i])) <= to
      BY <1>1, <1>3 DEF UnitBetween, UnitFrom
    <2>2. Len(NalOf(job.units[i])) = 1 + k
      <3>1. i \in Positions(IsSps)
        BY UnitsOfJob DEF Positions
      <3>2. job.units[i].body = EncodedSps(job.sps)
        <4>1. Legible
          BY DEF Ordinary
        <4> QED BY <3>1, <4>1, SetsOfJob
      <3>3. job.units[i] \in NalUnits
        BY UnitsOfJob
      <3>4. Len(NalOf(job.units[i])) = 1 + Len(job.units[i].body)
        BY <3>3, LengthOfNal, Zenon
      <3>5. k = Len(job.units[i].body)
        BY <1>4, <3>2
      <3> QED BY <3>4, <3>5, Zenon
    <2>3. PICK b \in Nat : b = Len(NalOf(job.units[i])) /\ b = 1 + k
      BY <2>2
    <2>4. a + 3 + b <= to
      BY <2>1, <2>3
    <2> QED BY <2>3, <2>4
  <1>6. PICK l \in Nat : l = Len(e)
    OBVIOUS
  <1>7. PICK g \in Int : g = Growth /\ g = 1 + l - k
    <2>1. Growth = 1 + l - k
      BY <1>4, <1>6, Zenon DEF Growth
    <2>2. 1 + l - k \in Int
      OBVIOUS
    <2> QED BY <2>1, <2>2
  <1>8. PICK c \in Nat : c = Cardinality(SpsBefore(i)) /\ Cardinality(SpsBefore(i + 1)) = c + 1
    <2>1. /\ Cardinality(SpsBefore(i)) \in Nat
          /\ Cardinality(SpsBefore(i + 1)) = Cardinality(SpsBefore(i)) + (IF IsSps(job.units[i]) THEN 1 ELSE 0)
      BY <1>2, CountSps
    <2> QED BY <2>1
  <1>9. PICK m \in Nat : m = Cardinality(Positions(IsSps)) /\ c + 1 <= m
    <2>1. i + 1 \in 1 .. Len(job.units) + 1
      BY UnitsOfJob
    <2> QED BY <1>8, <2>1, SpsCounted
  <1>10. m * g <= 32
    <2>1. Cardinality(Positions(IsSps)) * Growth <= 32
      BY Zenon DEF Ordinary, Fitting, Growth
    <2> QED BY <1>7, <1>9, <2>1
  <1>11. PICK p \in Int : p = c * g
    OBVIOUS
  <1>12. p + g <= 32 /\ (c + 1) * g = p + g
    BY <1>9, <1>10, <1>11, GrowthSoFar
  <1>13. dst + 1 <= a + p
    <2>1. dst + 1 <= S[i] + Cardinality(SpsBefore(i)) * Growth
      BY DEF WrittenAt
    <2>2. S[i] = a /\ Cardinality(SpsBefore(i)) * Growth = p
      BY <1>3, <1>7, <1>8, <1>11
    <2> QED BY <2>1, <2>2, Zenon
  <1>14. l <= n + 32 - (dst + 5) /\ dst + 5 + l + 1 <= to + (p + g)
    BY <1>3, <1>5, <1>7, <1>12, <1>13, RoomForSet, ZenonT(40)
  <1>15. Cardinality(SpsBefore(i + 1)) * Growth = p + g
    BY <1>7, <1>8, <1>12
  <1> QED BY <1>3, <1>6, <1>14, <1>15

\* A parameter set is written as it is carried over.
LEMMA SetWritten ==
    ASSUME job \in Jobs, out \in Seq(Bytes), dst \in 0 .. Len(out),
           NEW S, NEW i, RewriteAt(S, i), WrittenAt(S, i), Ordinary, Rewrite, IsSps(job.units[i])
    PROVE  WrittenAt(S, i + 1)'
  <1>1. PICK unit : unit = SubSeq(tmp, S[i], S[i + 1] - 1)
    OBVIOUS
  <1>2. PICK src : src = SubSeq(unit, 5, Len(unit))
    OBVIOUS
  <1>3. job' = job /\ i \in 1 .. Len(job.units) /\ unit[4] = job.units[i].header /\ RewriteSps(unit, src)
    BY <1>1, <1>2, RewriteTakes
  <1>4. ~NeedsScalingList(job.sps) /\ SameProfile(job.sps) /\ IsNarrow(job.sps) /\ Legible
        /\ Plain(CarriedSps)
    BY DEF Ordinary
  <1>5. /\ src \in Seq(Bytes) /\ StartsWith(src, EncodedSps(job.sps))
        /\ ~NeedsScalingList(ReadSps(src))
    BY <1>1, <1>2, <1>3, <1>4, SourceRead
  <1>6. IsParameters(job.sps) /\ job.matrix \in Nat
    BY SetsOfJob
  <1>7. PICK e \in Seq(Bytes) : e = CarriedSps /\ Len(e) \in Nat \ {0} /\ e[Len(e)] # 0
    BY <1>4, <1>6, CarriedBytes DEF CarriedSps
  <1>8. PICK h \in Bytes : h = job.units[i].header /\ TypeOfHeader(h) = NAL_SPS
    <2>1. job.units[i] \in NalUnits
      BY <1>3, UnitsOfJob
    <2> QED BY <2>1 DEF NalUnits, IsSps
  <1>9. PICK bytes : bytes = <<0, 0, 0, 1, h>> \o e
    OBVIOUS
  <1>10. PICK nal : nal = <<h>> \o e
    OBVIOUS
  <1>11. IsPiece(bytes, 1, nal, 0)
    <2>1. Len(e) \in Nat \ {0} /\ e[Len(e)] # 0 /\ Plain(e)
      BY <1>4, <1>7
    <2>2. h \in Bytes /\ TypeOfHeader(h) = NAL_SPS /\ e \in Seq(Bytes)
      BY <1>8
    <2> QED BY <1>9, <1>10, <2>1, <2>2, PieceOfSet, Zenon
  <1>12. SentFor(job.units[i]) = nal
    BY <1>7, <1>8, <1>10, Zenon DEF SentFor
  <1>13. dst \in Nat /\ tmp \in Seq(Bytes) /\ i \in Nat \ {0}
    BY RewriteKnows
  <1>14. /\ Len(e) <= Len(tmp) + 32 - (dst + 5)
         /\ dst + 5 + Len(e) + 1 <= S[i + 1] + Cardinality(SpsBefore(i + 1)) * Growth
    BY <1>3, <1>7, <1>13, SetAccount
  <1>15. PICK room \in Int : room = Len(tmp) + 32 - (dst + 5) /\ Len(e) <= room
    <2>1. Len(tmp) \in Nat
      BY <1>13
    <2>2. Len(tmp) + 32 - (dst + 5) \in Int
      BY <1>13, <2>1
    <2> QED BY <1>14, <2>2, Zenon
  <1>16. add_vui(src, room, job.matrix) = e
    BY <1>4, <1>5, <1>6, <1>7, <1>15, WholeSet DEF CarriedSps
  <1>17. Put(bytes)
    BY <1>3, <1>5, <1>8, <1>9, <1>15, <1>16, Zenon DEF RewriteSps
  <1>18. /\ MadeOf(Stream', (i + 1) - 1, WrittenUnits')
         /\ dst' = dst + Len(bytes)
    <2>1. IsPiece(bytes, 1, SentFor(job.units[i]), 0) /\ MadeOf(Stream, i - 1, WrittenUnits)
      BY <1>11, <1>12 DEF WrittenAt
    <2> QED BY <1>3, <1>17, <2>1, PieceWritten
  <1>19. Len(bytes) = 5 + Len(e)
    <2>1. Len(bytes) = 1 + 3 + Len(nal) + 0
      BY <1>11 DEF IsPiece
    <2>2. Len(nal) = 1 + Len(e)
      BY <1>10, BehindHeader, Zenon
    <2> QED BY <1>7, <2>1, <2>2
  <1>20. dst' + 1 <= S[i + 1] + Cardinality(SpsBefore(i + 1)) * Growth
    <2>1. dst + (5 + Len(e)) = dst + 5 + Len(e)
      BY <1>7, <1>13
    <2>2. dst' + 1 = dst + 5 + Len(e) + 1
      BY <1>18, <1>19, <2>1
    <2> QED BY <1>14, <2>2
  <1>21. SpsBefore(i + 1)' = SpsBefore(i + 1) /\ Growth' = Growth
    BY <1>3, WrittenStays
  <1>22. dst' + 1 <= S[i + 1] + Cardinality(SpsBefore(i + 1)') * Growth'
    BY <1>20, <1>21
  <1> QED BY <1>18, <1>22, Zenon DEF WrittenAt

\* What is written while the frame is written again, and what was written then.
StreamInv ==
    /\ pc = "rewrite" /\ Ordinary => \E S, i : RewriteAt(S, i) /\ WrittenAt(S, i)
    /\ Rewritten /\ Ordinary => /\ MadeOf(Stream, Len(job.units), WrittenUnits)
                                /\ dst <= Len(tmp) + 32
    /\ pc = "dead" /\ Legible => NeedsScalingList(job.sps) \/ ~SameProfile(job.sps)

\* A growth is a number.
LEMMA GrowthTyped ==
    ASSUME job \in Jobs, Ordinary
    PROVE  Growth \in Int
  <1>1. IsParameters(job.sps) /\ job.matrix \in Nat /\ IsNarrow(job.sps) /\ SameProfile(job.sps)
    BY SetsOfJob DEF Ordinary
  <1>2. PICK k \in Nat : k = Len(EncodedSps(job.sps))
    BY <1>1, ParametersAllFit, EncodedIsCoded, CodedIs
  <1>3. PICK l \in Nat : l = Len(CarriedSps)
    BY <1>1, CarriedBytes DEF CarriedSps
  <1>4. Growth = 1 + l - k
    BY <1>2, <1>3, Zenon DEF Growth
  <1> QED BY <1>4

\* Nothing was written before the first unit.
LEMMA FirstWritten ==
    ASSUME NEW S, NEW i, RewriteAt(S, i)', dst' = 0, Growth' \in Int
    PROVE  WrittenAt(S, i)'
  <1>1. PICK n : n = Len(job'.units) /\ Outline(tmp', S, n, job'.units) /\ i \in 1 .. n + 1 /\ ~(i > 1)
    BY SMTT(40) DEF RewriteAt
  <1>2. n \in Nat /\ S \in [1 .. n + 1 -> Nat \ {0}]
    BY <1>1 DEF Outline
  <1>3. i = 1 /\ S[i] \in Nat \ {0}
    BY <1>1, <1>2
  <1>4. Stream' = <<>>
    <2>1. SubSeq(out', 1, 0) = <<>>
      BY SubSeqEmpty
    <2> QED BY <2>1 DEF Stream
  <1>5. MadeOf(Stream', i - 1, WrittenUnits')
    <2>1. i - 1 = 0
      BY <1>3
    <2>2. PICK N : N = WrittenUnits'
      OBVIOUS
    <2>3. MadeOf(<<>>, 0, N)
      BY NothingMade
    <2> QED BY <1>4, <2>1, <2>2, <2>3
  <1>6. Cardinality(SpsBefore(i)') = 0
    <2>1. SpsBefore(i)' = {}
      BY <1>3 DEF SpsBefore
    <2> QED BY <2>1, FS_EmptySet
  <1>7. dst' + 1 <= S[i] + Cardinality(SpsBefore(i)') * Growth'
    <2>1. Cardinality(SpsBefore(i)') * Growth' = 0
      <3>1. PICK g \in Int : g = Growth'
        OBVIOUS
      <3>2. 0 * g = 0
        OBVIOUS
      <3> QED BY <1>6, <3>1, <3>2, Zenon
    <2>2. 0 + 1 <= S[i] + 0
      BY <1>3
    <2> QED BY <2>1, <2>2
  <1> QED BY <1>5, <1>7, Zenon DEF WrittenAt

\* When every unit was written, all were.
LEMMA AllWritten ==
    ASSUME job \in Jobs, NEW S, NEW i, RewriteAt(S, i), WrittenAt(S, i), Ordinary, start > Len(tmp),
           dst \in Nat
    PROVE  MadeOf(Stream, Len(job.units), WrittenUnits) /\ dst <= Len(tmp) + 32
  <1>1. PICK n \in Nat : n = Len(job.units)
    BY UnitsOfJob
  <1>2. PICK l \in Nat : l = Len(tmp)
    BY RewriteKnows
  <1>3. start = S[i] /\ start \in Nat \ {0} /\ start <= l + 1 /\ i \in Nat \ {0} /\ i <= n + 1
    BY <1>1, <1>2, RewriteKnows DEF RewriteAt
  <1>4. i \notin 1 .. n
    <2>1. ~(start <= Len(tmp))
      BY <1>2, <1>3
    <2> QED BY <1>1, <2>1, RewriteKnows
  <1>5. i = n + 1 /\ i - 1 = n
    BY <1>3, <1>4
  <1>6. MadeOf(Stream, n, WrittenUnits)
    BY <1>5, Zenon DEF WrittenAt
  <1>7. SpsBefore(i) = Positions(IsSps)
    <2>1. DOMAIN job.units = 1 .. n
      BY <1>1, UnitsOfJob
    <2> QED BY <1>5, <2>1 DEF SpsBefore, Positions
  <1>8. Cardinality(Positions(IsSps)) * Growth <= 32
    BY Zenon DEF Ordinary, Fitting, Growth
  <1>9. PICK p \in Int : p = Cardinality(Positions(IsSps)) * Growth
    <2>1. Cardinality(Positions(IsSps)) \in Nat
      BY <1>3, <1>7, CountSps
    <2>2. Growth \in Int
      BY GrowthTyped
    <2>3. Cardinality(Positions(IsSps)) * Growth \in Int
      BY <2>1, <2>2
    <2> QED BY <2>3
  <1>10. dst + 1 <= S[i] + p
    BY <1>7, <1>9, Zenon DEF WrittenAt
  <1>11. dst <= l + 32
    BY <1>2, <1>3, <1>8, <1>9, <1>10
  <1> QED BY <1>1, <1>2, <1>6, <1>11

\* What is written is kept by every step.
LEMMA StepStreamInv ==
    ASSUME KeyInv, RunInv, KeyInv', RunInv', StreamInv, [Next]_vars
    PROVE  StreamInv'
  <1>1. job \in Jobs /\ job' = job
    BY DEF KeyInv, Next, Query, Convert, CopyOutput, Scan, ScanEnds, Rewrite, RewriteEnds, vars
  <1>2. /\ (Ordinary' <=> Ordinary) /\ (Legible' <=> Legible) /\ WrittenUnits' = WrittenUnits
        /\ (NeedsScalingList(job.sps)' <=> NeedsScalingList(job.sps)) /\ Growth' = Growth
        /\ (SameProfile(job.sps)' <=> SameProfile(job.sps))
    BY <1>1, WrittenStays
  <1>3. CASE Query \/ Convert \/ CopyOutput
    <2>1. pc' \in {"refused", "convert", "encode", "scan"}
      BY <1>3 DEF Query, Convert, CopyOutput
    <2> QED BY <2>1 DEF StreamInv, Rewritten
  <1>4. CASE Scan \/ ScanEnds
    <2>1. pc' \in {"scan", "rewrite", "done"} /\ dst' = 0
      BY <1>4 DEF Scan, ScanEnds, RunInv
    <2>2. ASSUME pc' = "rewrite", Ordinary' PROVE \E S, i : RewriteAt(S, i)' /\ WrittenAt(S, i)'
      <3>1. PICK S, i : RewriteAt(S, i)'
        BY <2>2 DEF RunInv
      <3>2. Growth' \in Int
        BY <1>1, <1>2, <2>2, GrowthTyped
      <3> QED BY <2>1, <3>1, <3>2, FirstWritten
    <2>3. ~Rewritten' /\ pc' # "dead"
      BY <2>1 DEF Rewritten
    <2> QED BY <2>2, <2>3 DEF StreamInv
  <1>5. CASE Rewrite
    <2>1. pc = "rewrite"
      BY <1>5 DEF Rewrite
    <2>2. out \in Seq(Bytes) /\ size \in Nat /\ dst \in 0 .. Len(out)
      BY DEF RunInv
    <2>3. ASSUME Ordinary PROVE pc' = "rewrite" => \E S, i : RewriteAt(S, i)' /\ WrittenAt(S, i)'
      <3>1. PICK S, i : RewriteAt(S, i) /\ WrittenAt(S, i)
        BY <2>1, <2>3 DEF StreamInv
      <3>2. pc' = "rewrite" => RewriteAt(S, i + 1)'
        BY <1>1, <1>5, <2>2, <3>1, StepRewrite
      <3>3. WrittenAt(S, i + 1)'
        <4>1. CASE IsSps(job.units[i])
          BY <1>1, <1>5, <2>2, <2>3, <3>1, <4>1, SetWritten
        <4>2. CASE ~IsSps(job.units[i])
          <5>1. Growth \in Int
            BY <1>1, <2>3, GrowthTyped
          <5> QED BY <1>1, <1>5, <2>2, <3>1, <4>2, <5>1, CopyWritten
        <4> QED BY <4>1, <4>2
      <3> QED BY <3>2, <3>3
    <2>4. PICK S, i : RewriteAt(S, i)
      BY <2>1 DEF RunInv
    <2>5. ASSUME pc' = "dead", Legible
          PROVE  NeedsScalingList(job.sps) \/ ~SameProfile(job.sps)
      BY <1>1, <1>5, <2>4, <2>5, OnlyListsKill
    <2>6. pc' \in {"rewrite", "dead"}
      BY <1>1, <1>5, <2>2, <2>4, StepRewrite
    <2> QED BY <1>2, <2>3, <2>5, <2>6 DEF StreamInv, Rewritten
  <1>6. CASE RewriteEnds
    <2>1. pc = "rewrite" /\ pc' = "done" /\ start > Len(tmp) /\ tmp' = tmp /\ dst' = dst /\ out' = out
      BY <1>6 DEF RewriteEnds
    <2>2. dst \in Nat
      BY DEF RunInv
    <2>3. ASSUME Ordinary
          PROVE  MadeOf(Stream, Len(job.units), WrittenUnits) /\ dst <= Len(tmp) + 32
      <3>1. PICK S, i : RewriteAt(S, i) /\ WrittenAt(S, i)
        BY <2>1, <2>3 DEF StreamInv
      <3> QED BY <1>1, <2>1, <2>2, <2>3, <3>1, AllWritten
    <2>4. Stream' = Stream
      BY <2>1 DEF Stream
    <2>5. Ordinary' => MadeOf(Stream', Len(job'.units), WrittenUnits') /\ dst' <= Len(tmp') + 32
      BY <1>1, <1>2, <2>1, <2>3, <2>4
    <2> QED BY <2>1, <2>5 DEF StreamInv
  <1>7. CASE UNCHANGED vars
    <2>1. /\ pc' = pc /\ dst' = dst /\ tmp' = tmp /\ Stream' = Stream /\ (Rewritten' <=> Rewritten)
      BY <1>7 DEF vars, Stream, Rewritten
    <2>2. \A S, i : (RewriteAt(S, i)' <=> RewriteAt(S, i)) /\ (WrittenAt(S, i)' <=> WrittenAt(S, i))
      BY <1>7, ZenonT(40) DEF vars, RewriteAt, WrittenAt, SpsBefore, Stream, WrittenUnits, SentFor, CarriedSps, Growth
    <2> QED BY <1>1, <1>2, <2>1, <2>2 DEF StreamInv
  <1> QED BY <1>3, <1>4, <1>5, <1>6, <1>7 DEF Next

\* It always holds, with what is known of the buffers.
LEMMA AlwaysStreamInv == Spec => [](KeyInv /\ RunInv /\ StreamInv)
  <1>1. Init => StreamInv
    BY DEF Init, StreamInv, Rewritten
  <1>2. KeyInv /\ RunInv /\ KeyInv' /\ RunInv' /\ StreamInv /\ [Next]_vars => StreamInv'
    BY StepStreamInv
  <1> QED BY <1>1, <1>2, AlwaysRunInv, PTL DEF Spec

-----------------------------------------------------------------------------
(* What a player finds in it *)

\* The header comes first.
LEMMA HeaderFirst ==
    ASSUME NEW h \in Bytes, NEW body \in Seq(Bytes), NEW nal, nal = <<h>> \o body
    PROVE  nal[1] = h
  <1>1. PICK one : one = <<h>>
    OBVIOUS
  <1>2. one \in Seq(Bytes) /\ Len(one) = 1 /\ one[1] = h
    BY <1>1
  <1>3. /\ nal \in Seq(Bytes) /\ Len(nal) = Len(one) + Len(body)
        /\ \A k \in 1 .. Len(one) : nal[k] = one[k]
    <2>1. nal = one \o body
      BY <1>1
    <2> QED BY <1>2, <2>1, ConcatFacts
  <1>4. 1 \in 1 .. Len(one)
    BY <1>2
  <1> QED BY <1>2, <1>3, <1>4

\* A player finds the units of the encoder in its output.
LEMMA OutputFound ==
    ASSUME NEW j \in Jobs, NEW n, n = Len(j.units), NEW s, s = StreamOf(j.units)
    PROVE  /\ DOMAIN UnitsIn(s) = 1 .. n /\ Len(UnitsIn(s)) = n
           /\ \A i \in 1 .. n : UnitsIn(s)[i] = NalOf(j.units[i])
  <1>1. n \in Nat /\ j.units \in Seq(NalUnits) /\ \A i \in DOMAIN j.units : IsEscaped(j.units[i])
    BY UnitsOfJob
  <1>2. PICK Z : Z = [i \in 1 .. n |-> j.units[i].zeros]
    OBVIOUS
  <1>3. PICK N : N = [i \in 1 .. n |-> NalOf(j.units[i])]
    OBVIOUS
  <1>4. PICK at, parts, T : IsOf(s, at, n, parts, Z, N, T)
    BY <1>1, <1>2, <1>3, PiecesOfStream
  <1>5. s \in Seq(Bytes) /\ MadeOf(s, n, N)
    BY <1>4 DEF IsOf, MadeOf
  <1>6. /\ DOMAIN UnitsIn(s) = 1 .. n /\ Len(UnitsIn(s)) = n
        /\ \A i \in 1 .. n : UnitsIn(s)[i] = N[i]
    BY <1>5, MadeFound
  <1> QED BY <1>3, <1>6

\* A player finds in what was written what was sent for each unit.
LEMMA WrittenFound ==
    ASSUME job \in Jobs, RunInv, StreamInv, Rewritten, Ordinary, NEW n, n = Len(job.units)
    PROVE  /\ DOMAIN UnitsIn(Stream) = 1 .. n /\ Len(UnitsIn(Stream)) = n
           /\ \A i \in 1 .. n : UnitsIn(Stream)[i] = SentFor(job.units[i])
           /\ dst <= Len(tmp) + 32
  <1>1. MadeOf(Stream, n, WrittenUnits) /\ dst <= Len(tmp) + 32
    BY DEF StreamInv
  <1>2. Stream \in Seq(Bytes)
    <2>1. out \in Seq(Bytes) /\ dst \in 0 .. Len(out)
      BY DEF RunInv
    <2>2. \A k \in 1 .. dst : out[k] \in Bytes
      <3>1. TAKE k \in 1 .. dst
      <3>2. k \in 1 .. Len(out)
        BY <2>1
      <3> QED BY <2>1, <3>2, ElementOfSeq
    <2>3. dst \in Int /\ 1 \in Int
      BY <2>1
    <2>4. SubSeq(out, 1, dst) \in Seq(Bytes)
      BY <2>2, <2>3, SubSeqProperties, Zenon
    <2> QED BY <2>4, Zenon DEF Stream
  <1>3. /\ DOMAIN UnitsIn(Stream) = 1 .. n /\ Len(UnitsIn(Stream)) = n
        /\ \A i \in 1 .. n : UnitsIn(Stream)[i] = WrittenUnits[i]
    BY <1>1, <1>2, MadeFound
  <1>4. ASSUME NEW i \in 1 .. n PROVE WrittenUnits[i] = SentFor(job.units[i])
    <2>1. i \in DOMAIN job.units
      BY UnitsOfJob
    <2> QED BY <2>1, Zenon DEF WrittenUnits
  <1> QED BY <1>1, <1>3, <1>4

\* What the invariant says of a stream: the units of the encoder are in it.
HoldsUnits(s) ==
    LET units == UnitsIn(s)
    IN  /\ Len(units) = Len(job.units)
        /\ \A i \in DOMAIN units :
              IF IsSps(job.units[i]) THEN units[i][1] = job.units[i].header
              ELSE units[i] = <<job.units[i].header>> \o job.units[i].body

\* For any units, and parameter sets that are carried over without a mishap (Ordinary),
\* which is to say that together they grow by no more than 32 bytes: a player finds the
\* units of the encoder in what encodeProcess gives to the host, in their order and
\* unchanged but for the parameter sets (compress.cpp:797-833).  The bound is a premise
\* and no result: add_vui keeps to it, the memcpy of the second pass does not
\* (compress.cpp:807, 827).
THEOREM UnitsAreKept == Spec => []UnitsKept
  <1>1. KeyInv /\ RunInv /\ StreamInv => UnitsKept
    <2> SUFFICES ASSUME KeyInv, RunInv, StreamInv, pc = "done", dst > 0 => Ordinary
                 PROVE  dst <= Len(tmp) + 32 /\ HoldsUnits(IF dst > 0 THEN Stream ELSE out)
      BY Zenon DEF UnitsKept, HoldsUnits
    <2>1. job \in Jobs
      BY DEF KeyInv
    <2>2. PICK n \in Nat : n = Len(job.units) /\ \A i \in 1 .. n : job.units[i] \in NalUnits
      BY <2>1, UnitsOfJob
    <2>3. ASSUME NEW i \in 1 .. n
          PROVE  job.units[i].header \in Bytes /\ job.units[i].body \in Seq(Bytes)
      <3>1. job.units[i] \in NalUnits
        BY <2>2
      <3> QED BY <3>1 DEF NalUnits
    <2>4. CASE dst > 0
      <3>1. Rewritten /\ Ordinary
        BY <2>4 DEF Rewritten
      <3>2. /\ DOMAIN UnitsIn(Stream) = 1 .. n /\ Len(UnitsIn(Stream)) = n
            /\ \A i \in 1 .. n : UnitsIn(Stream)[i] = SentFor(job.units[i])
            /\ dst <= Len(tmp) + 32
        BY <2>1, <2>2, <3>1, WrittenFound
      <3>3. ASSUME NEW i \in 1 .. n
            PROVE  IF IsSps(job.units[i]) THEN UnitsIn(Stream)[i][1] = job.units[i].header
                   ELSE UnitsIn(Stream)[i] = <<job.units[i].header>> \o job.units[i].body
        <4>1. CASE IsSps(job.units[i])
          <5>1. PICK h, e : h = job.units[i].header /\ e = CarriedSps
            OBVIOUS
          <5>2. h \in Bytes /\ e \in Seq(Bytes)
            <6>1. IsParameters(job.sps) /\ job.matrix \in Nat /\ IsNarrow(job.sps)
                  /\ SameProfile(job.sps)
              BY <2>1, <3>1, SetsOfJob DEF Ordinary
            <6>2. CarriedSps \in Seq(Bytes)
              BY <6>1, CarriedBytes DEF CarriedSps
            <6> QED BY <2>3, <5>1, <6>2
          <5>3. SentFor(job.units[i]) = <<h>> \o e
            BY <4>1, <5>1, Zenon DEF SentFor
          <5>4. SentFor(job.units[i])[1] = h
            BY <5>2, <5>3, HeaderFirst, Zenon
          <5> QED BY <3>2, <4>1, <5>1, <5>4, Zenon
        <4>2. CASE ~IsSps(job.units[i])
          <5>1. SentFor(job.units[i]) = <<job.units[i].header>> \o job.units[i].body
            BY <4>2, Zenon DEF SentFor, NalOf
          <5> QED BY <3>2, <4>2, <5>1, Zenon
        <4> QED BY <4>1, <4>2
      <3>4. HoldsUnits(Stream)
        BY <2>2, <3>2, <3>3, Zenon DEF HoldsUnits
      <3> QED BY <2>4, <3>2, <3>4
    <2>5. CASE ~(dst > 0)
      <3>1. dst = 0 /\ out = StreamOf(job.units) /\ tmp \in Seq(Bytes)
        <4>1. dst = 0 /\ tmp \in Seq(Bytes)
          BY <2>5 DEF RunInv
        <4> QED BY <4>1 DEF RunInv, SizeAccounts
      <3>2. /\ DOMAIN UnitsIn(out) = 1 .. n /\ Len(UnitsIn(out)) = n
            /\ \A i \in 1 .. n : UnitsIn(out)[i] = NalOf(job.units[i])
        BY <2>1, <2>2, <3>1, OutputFound
      <3>3. ASSUME NEW i \in 1 .. n
            PROVE  IF IsSps(job.units[i]) THEN UnitsIn(out)[i][1] = job.units[i].header
                   ELSE UnitsIn(out)[i] = <<job.units[i].header>> \o job.units[i].body
        <4>1. PICK h, body : h = job.units[i].header /\ body = job.units[i].body
          OBVIOUS
        <4>2. NalOf(job.units[i]) = <<h>> \o body
          BY <4>1, Zenon DEF NalOf
        <4>3. NalOf(job.units[i])[1] = h
          <5>1. h \in Bytes /\ body \in Seq(Bytes)
            BY <2>3, <4>1
          <5> QED BY <4>2, <5>1, HeaderFirst, Zenon
        <4> QED BY <3>2, <4>1, <4>2, <4>3, Zenon
      <3>4. HoldsUnits(out)
        BY <2>2, <3>2, <3>3, Zenon DEF HoldsUnits
      <3>5. dst <= Len(tmp) + 32
        BY <3>1
      <3> QED BY <2>5, <3>4, <3>5
    <2> QED BY <2>4, <2>5
  <1> QED BY <1>1, AlwaysStreamInv, PTL

\* For any units and any parameters that are read and written without a mishap
\* (Ordinary): every parameter set that a player finds is, byte by byte, what add_vui
\* carries over (bitstream.cpp:790-849), and this is the one that the encoder would have
\* sent with the colours of the setting, unless there were two HRDs that differed
\* (bitstream.cpp:655-663) or the matrix is none of the six (bitstream.cpp:842).  Only a
\* scaling list kills the process, or a profile that the code misreads.
THEOREM ParametersAreKept == Spec => []ParametersKept
  <1>1. KeyInv /\ RunInv /\ StreamInv => ParametersKept
    <2> SUFFICES ASSUME KeyInv, RunInv, StreamInv PROVE ParametersKept
      OBVIOUS
    <2>1. job \in Jobs
      BY DEF KeyInv
    <2>2. ASSUME Rewritten, Ordinary, NEW i \in Positions(IsSps)
          PROVE  UnitsIn(Stream)[i] = <<job.units[i].header>> \o CarriedSps
      <3>1. i \in 1 .. Len(job.units) /\ IsSps(job.units[i])
        BY <2>1, UnitsOfJob DEF Positions
      <3>2. UnitsIn(Stream)[i] = SentFor(job.units[i])
        BY <2>1, <2>2, <3>1, WrittenFound
      <3> QED BY <3>1, <3>2, Zenon DEF SentFor
    <2>3. ASSUME Ordinary, SameHrds(job.sps), job.matrix \in ColourMatrices
          PROVE  CarriedSps = ExpectedSps
      BY <2>3, CarriedIsExpected DEF CarriedSps, ExpectedSps
    <2>4. pc = "dead" /\ Legible => NeedsScalingList(job.sps) \/ ~SameProfile(job.sps)
      BY DEF StreamInv
    <2> QED BY <2>2, <2>3, <2>4, Zenon DEF ParametersKept
  <1> QED BY <1>1, AlwaysStreamInv, PTL

-----------------------------------------------------------------------------
(* The range of the luma *)

\* There is a parameter set in a frame that is written again.
SetInv == pc = "rewrite" \/ Rewritten => Positions(IsSps) # {}

\* Every step keeps it: only a parameter set makes the scan start to write.
LEMMA StepSetInv ==
    ASSUME KeyInv, RunInv, SetInv, [Next]_vars
    PROVE  SetInv'
  <1>1. job \in Jobs /\ job' = job /\ Positions(IsSps)' = Positions(IsSps)
    <2>1. job' = job
      BY DEF Next, Query, Convert, CopyOutput, Scan, ScanEnds, Rewrite, RewriteEnds, vars
    <2> QED BY <2>1 DEF KeyInv, Positions
  <1>2. CASE Query \/ Convert \/ CopyOutput
    BY <1>2 DEF SetInv, Rewritten, Query, Convert, CopyOutput
  <1>3. CASE Scan
    <2>1. PICK n \in Nat : n = Len(job.units)
      BY <1>1, UnitsOfJob
    <2>2. pc = "scan" /\ start <= size /\ size = Len(out) /\ dst = 0
      BY <1>3 DEF Scan, KeyInv, RunInv
    <2>3. PICK S, i : ScanAt(S, i)
      BY <2>2 DEF KeyInv
    <2>4. Outline(out, S, n, job.units) /\ i \in 1 .. n + 1 /\ start = S[i]
      BY <2>1, <2>3 DEF ScanAt
    <2>5. i \in 1 .. n
      BY <2>2, <2>4, CodeOrEnd
    <2>6. out[start + 3] = job.units[i].header
      BY <2>4, <2>5, HeaderAtCode
    <2>7. dst' = 0 /\ (pc' = "rewrite" => TypeOfHeader(out[start + 3]) = NAL_SPS)
      BY <1>3, <2>2 DEF Scan
    <2>8. ASSUME pc' = "rewrite" PROVE i \in Positions(IsSps)
      BY <1>1, <2>1, <2>5, <2>6, <2>7, <2>8, PositionsOf
    <2>9. ~Rewritten'
      BY <2>7 DEF Rewritten
    <2> QED BY <1>1, <2>8, <2>9 DEF SetInv
  <1>4. CASE ScanEnds
    BY <1>4 DEF SetInv, Rewritten, ScanEnds, RunInv
  <1>5. CASE Rewrite \/ RewriteEnds
    <2>1. pc = "rewrite"
      BY <1>5 DEF Rewrite, RewriteEnds
    <2> QED BY <1>1, <2>1 DEF SetInv
  <1>6. CASE UNCHANGED vars
    BY <1>1, <1>6 DEF vars, SetInv, Rewritten
  <1> QED BY <1>2, <1>3, <1>4, <1>5, <1>6 DEF Next

\* The range that the parameter sets with the colours of a matrix tell.
LEMMA RangeOfColours ==
    ASSUME NEW matrix \in Nat
    PROVE  /\ matrix \in {0, 2, 3} =>
                 /\ ColourOf(matrix)["vui_parameters_present_flag"] = 1
                 /\ ColourOf(matrix)["video_full_range_flag"] = 1
           /\ matrix \in {1, 4, 5} => ColourOf(matrix)["video_full_range_flag"] = 0
           /\ matrix \notin 0 .. 5 => ColourOf(matrix)["vui_parameters_present_flag"] = 0
  <1>1. \A range, primaries, transfer, m :
           /\ Description(range, primaries, transfer, m)["video_full_range_flag"] = range
           /\ Description(range, primaries, transfer, m)["vui_parameters_present_flag"] = 1
    BY DEF Description
  <1>2. ASSUME matrix \in {0, 2, 3}
        PROVE  \/ ColourOf(matrix) = Description(1, 5, 6, 5) \/ ColourOf(matrix) = Description(1, 5, 8, 5)
               \/ ColourOf(matrix) = Description(1, 1, 1, 1)
    BY <1>2 DEF ColourOf, BT601_LIMITED, BT601_FULL, BT601_FULL_YCbCr, BT709_LIMITED,
           BT709_FULL, BT709_ALT1_LIMITED
  <1>3. ASSUME matrix \in {1, 4, 5}
        PROVE  ColourOf(matrix) = Description(0, 5, 6, 5) \/ ColourOf(matrix) = Description(0, 1, 1, 1)
    BY <1>3 DEF ColourOf, BT601_LIMITED, BT601_FULL, BT601_FULL_YCbCr, BT709_LIMITED,
           BT709_FULL, BT709_ALT1_LIMITED
  <1>4. matrix \notin 0 .. 5 => ColourOf(matrix)["vui_parameters_present_flag"] = 0
    BY ColoursTold, SMTT(60) DEF ColourMatrices
  <1> QED BY <1>1, <1>2, <1>3, <1>4

\* Black and white, and what the kernels of a matrix make of them: in the limited range,
\* or in the full one.
Black == [r |-> 0, g |-> 0, b |-> 0]

\* White.
White == [r |-> 255, g |-> 255, b |-> 255]

\* The factors of the luma of a matrix, and black and white in its channels.
HasLuma(name, r, g, b, plus, black, white) ==
    /\ Coefficients(name).y = Factors(r, g, b, plus)
    /\ Channel(0, Coefficients(name).limited) = black
    /\ Channel(255, Coefficients(name).limited) = white

\* The luma of each matrix of the driver, in ten-thousandths.
LEMMA LumaOfMatrices ==
    /\ HasLuma("BT601_FULL", 2570, 5040, 980, 16, 0, 25500)
    /\ HasLuma("BT601_LIMITED", 2990, 5870, 1140, 0, 1600, 23500)
    /\ HasLuma("BT601_FULL_YCbCr", 2990, 5870, 1140, 0, 0, 25500)
    /\ HasLuma("BT709_FULL", 1826, 6142, 620, 16, 0, 25500)
    /\ HasLuma("BT709_LIMITED", 2126, 7152, 722, 0, 1600, 23500)
    /\ HasLuma("BT709_ALT1_LIMITED", 2126, 7152, 722, 0, 1600, 23500)
  BY SMT DEF HasLuma, Coefficients, Matrix, Channel

\* The sum of a grey, and that it is rounded to a level.
GreySum(r, g, b, plus, x) == r * x + g * x + b * x + plus * 1000000

\* A sum in millionths that is nearest to a level.
IsLevel(n, level) == level * 1000000 - 500000 <= n /\ n < level * 1000000 + 500000

\* A grey, by its channel.
LEMMA GreyDot ==
    ASSUME NEW r \in Int, NEW g \in Int, NEW b \in Int, NEW plus \in Int, NEW limited, NEW v, NEW x \in Int,
           Channel(v, limited) = x, NEW f, f = Factors(r, g, b, plus), NEW c, c.r = v, c.g = v, c.b = v
    PROVE  Dot(f, c, limited) = GreySum(r, g, b, plus, x)
  <1>1. f.r = r /\ f.g = g /\ f.b = b /\ f.plus = plus
    BY DEF Factors
  <1> QED BY <1>1, SMT DEF Dot, GreySum

\* Rounded to the nearest level.
LEMMA GreyRounded ==
    ASSUME NEW n \in Int, NEW level \in 0 .. 255,
           IsLevel(n, level)
    PROVE  Rounded(n) = level
  <1>1. (n + 500000) \div 1000000 = level
    BY SMT DEF IsLevel
  <1> QED BY <1>1, SMT DEF Rounded, Saturated

\* The levels of black and white, by the factors of a matrix.
Levels(r, g, b, plus, black, white, low, high) ==
    /\ r \in Int /\ g \in Int /\ b \in Int /\ plus \in Int /\ black \in Int /\ white \in Int
    /\ low \in 0 .. 255 /\ IsLevel(GreySum(r, g, b, plus, black), low)
    /\ high \in 0 .. 255 /\ IsLevel(GreySum(r, g, b, plus, white), high)

\* What the kernels of a matrix make of black and white.
LEMMA LumaOfGrey ==
    ASSUME NEW name, NEW r, NEW g, NEW b, NEW plus, NEW black, NEW white,
           HasLuma(name, r, g, b, plus, black, white),
           NEW low, NEW high, Levels(r, g, b, plus, black, white, low, high)
    PROVE  KernelLuma(name, Black) = low /\ KernelLuma(name, White) = high
  <1>1. PICK f, limited : f = Coefficients(name).y /\ limited = Coefficients(name).limited
    OBVIOUS
  <1>2. /\ r \in Int /\ g \in Int /\ b \in Int /\ plus \in Int /\ black \in Int /\ white \in Int
        /\ low \in 0 .. 255 /\ high \in 0 .. 255
        /\ IsLevel(GreySum(r, g, b, plus, black), low) /\ IsLevel(GreySum(r, g, b, plus, white), high)
    BY DEF Levels
  <1>3. f = Factors(r, g, b, plus) /\ Channel(0, limited) = black /\ Channel(255, limited) = white
    BY <1>1, Zenon DEF HasLuma
  <1>4. \A c : KernelLuma(name, c) = Rounded(Dot(f, c, limited))
    BY <1>1, Zenon DEF KernelLuma
  <1>5. /\ Black.r = 0 /\ Black.g = 0 /\ Black.b = 0
        /\ White.r = 255 /\ White.g = 255 /\ White.b = 255
    BY DEF Black, White
  <1>6. Dot(f, Black, limited) = GreySum(r, g, b, plus, black)
    BY <1>3, <1>5, <1>2, GreyDot
  <1>7. Dot(f, White, limited) = GreySum(r, g, b, plus, white)
    BY <1>3, <1>5, <1>2, GreyDot
  <1>8. GreySum(r, g, b, plus, black) \in Int /\ GreySum(r, g, b, plus, white) \in Int
    BY <1>2, SMT DEF GreySum
  <1>9. Rounded(GreySum(r, g, b, plus, black)) = low
    BY <1>8, <1>2, GreyRounded
  <1>10. Rounded(GreySum(r, g, b, plus, white)) = high
    BY <1>8, <1>2, GreyRounded
  <1> QED BY <1>4, <1>6, <1>7, <1>9, <1>10, Zenon

\* The range of the kernels, by the matrix that is set.
LEMMA RangeOfKernels ==
    ASSUME NEW matrix \in Nat
    PROVE  LumaRange(matrix) = IF matrix = 2 THEN <<0, 255>> ELSE <<16, 235>>
  <1>1. KernelLuma("BT601_FULL", Black) = 16 /\ KernelLuma("BT601_FULL", White) = 235
    <2>1. Levels(2570, 5040, 980, 16, 0, 25500, 16, 235)
      BY SMT DEF Levels, IsLevel, GreySum
    <2> QED BY <2>1, LumaOfMatrices, LumaOfGrey
  <1>2. KernelLuma("BT601_LIMITED", Black) = 16 /\ KernelLuma("BT601_LIMITED", White) = 235
    <2>1. Levels(2990, 5870, 1140, 0, 1600, 23500, 16, 235)
      BY SMT DEF Levels, IsLevel, GreySum
    <2> QED BY <2>1, LumaOfMatrices, LumaOfGrey
  <1>3. KernelLuma("BT601_FULL_YCbCr", Black) = 0 /\ KernelLuma("BT601_FULL_YCbCr", White) = 255
    <2>1. Levels(2990, 5870, 1140, 0, 0, 25500, 0, 255)
      BY SMT DEF Levels, IsLevel, GreySum
    <2> QED BY <2>1, LumaOfMatrices, LumaOfGrey
  <1>4. KernelLuma("BT709_FULL", Black) = 16 /\ KernelLuma("BT709_FULL", White) = 235
    <2>1. Levels(1826, 6142, 620, 16, 0, 25500, 16, 235)
      BY SMT DEF Levels, IsLevel, GreySum
    <2> QED BY <2>1, LumaOfMatrices, LumaOfGrey
  <1>5. KernelLuma("BT709_LIMITED", Black) = 16 /\ KernelLuma("BT709_LIMITED", White) = 235
    <2>1. Levels(2126, 7152, 722, 0, 1600, 23500, 16, 235)
      BY SMT DEF Levels, IsLevel, GreySum
    <2> QED BY <2>1, LumaOfMatrices, LumaOfGrey
  <1>6. KernelLuma("BT709_ALT1_LIMITED", Black) = 16 /\ KernelLuma("BT709_ALT1_LIMITED", White) = 235
    <2>1. Levels(2126, 7152, 722, 0, 1600, 23500, 16, 235)
      BY SMT DEF Levels, IsLevel, GreySum
    <2> QED BY <2>1, LumaOfMatrices, LumaOfGrey
  <1>7. /\ matrix = 2 => BuiltWith(matrix) = "BT601_FULL_YCbCr"
        /\ matrix # 2 => BuiltWith(matrix) \in {"BT601_FULL", "BT601_LIMITED", "BT709_FULL", "BT709_LIMITED",
                                                "BT709_ALT1_LIMITED"}
    BY DEF BuiltWith
  <1>8. LumaRange(matrix) = <<KernelLuma(BuiltWith(matrix), Black), KernelLuma(BuiltWith(matrix), White)>>
    BY Zenon DEF LumaRange, Black, White
  <1> QED BY <1>1, <1>2, <1>3, <1>4, <1>5, <1>6, <1>7, <1>8

\* What comes behind a header.
LEMMA TailBehindHeader ==
    ASSUME NEW h \in Bytes, NEW body \in Seq(Bytes)
    PROVE  Tail(<<h>> \o body) = body
  <1>1. PICK nal : nal = <<h>> \o body
    OBVIOUS
  <1>2. /\ nal \in Seq(Bytes) /\ Len(nal) = 1 + Len(body)
        /\ \A k \in 1 .. Len(body) : nal[1 + k] = body[k]
    <2>1. <<h>> \in Seq(Bytes)
      OBVIOUS
    <2>2. nal \in Seq(Bytes)
      BY <1>1, <2>1
    <2> QED BY <1>1, <2>2, BehindHeader, ZenonT(40)
  <1>3. nal # <<>>
    BY <1>2
  <1>4. PICK n \in Nat : n = Len(body) /\ Len(nal) = 1 + n
    BY <1>2
  <1>5. PICK u : u = Tail(nal)
    OBVIOUS
  <1>6. u \in Seq(Bytes) /\ Len(u) = n
    BY <1>2, <1>3, <1>4, <1>5
  <1>7. ASSUME NEW k \in 1 .. n PROVE u[k] = body[k]
    <2>1. u[k] = nal[k + 1] /\ k + 1 = 1 + k
      BY <1>2, <1>3, <1>4, <1>5
    <2> QED BY <1>2, <1>4, <2>1
  <1>8. u = body
    BY <1>4, <1>6, <1>7, SeqEqual
  <1> QED BY <1>1, <1>5, <1>8

\* For any parameters and any matrix: a player is told that the luma takes the full range
\* exactly if the kernels use it, but for the two matrices whose kernels come out limited
\* while add_vui tells the full range (bitstream.cpp:804, 823-836, NV12_kernels.cl:8, 62).
THEOREM RangeIsTold == Spec => []RangeTold
  <1>1. KeyInv /\ RunInv /\ StreamInv /\ SetInv => RangeTold
    <2> SUFFICES ASSUME KeyInv, RunInv, StreamInv, SetInv, Rewritten, Ordinary
                 PROVE  LumaRange(job.matrix) = (IF TellsFull THEN <<0, 255>> ELSE <<16, 235>>)
                        <=> job.matrix \notin {BT601_FULL, BT709_FULL}
      BY Zenon DEF RangeTold
    <2>1. job \in Jobs /\ Positions(IsSps) # {}
      BY DEF KeyInv, SetInv
    <2>2. IsParameters(job.sps) /\ job.matrix \in Nat /\ SameProfile(job.sps)
      BY <2>1, SetsOfJob DEF Ordinary
    <2>3. PICK r : r = ReadSps(CarriedSps)
      OBVIOUS
    <2>4. /\ r["vui_parameters_present_flag"] = ColourOf(job.matrix)["vui_parameters_present_flag"]
          /\ r["vui_parameters_present_flag"] = 1 =>
                r["video_full_range_flag"] = ColourOf(job.matrix)["video_full_range_flag"]
      BY <2>2, <2>3, CarriedIsCoded, RangeRead DEF CarriedSps
    <2>5. ASSUME NEW i \in Positions(IsSps)
          PROVE  ReadSps(Tail(UnitsIn(Stream)[i])) = r
      <3>1. i \in 1 .. Len(job.units) /\ IsSps(job.units[i])
        BY <2>1, UnitsOfJob DEF Positions
      <3>2. PICK h, e : h = job.units[i].header /\ e = CarriedSps
        OBVIOUS
      <3>3. UnitsIn(Stream)[i] = <<h>> \o e
        <4>1. UnitsIn(Stream)[i] = SentFor(job.units[i])
          BY <2>1, <3>1, WrittenFound
        <4> QED BY <3>1, <3>2, <4>1, Zenon DEF SentFor
      <3>4. h \in Bytes /\ e \in Seq(Bytes)
        <4>1. job.units[i] \in NalUnits
          BY <2>1, <3>1, UnitsOfJob
        <4>2. CarriedSps \in Seq(Bytes)
          BY <2>2, CarriedBytes DEF CarriedSps
        <4> QED BY <3>2, <4>1, <4>2 DEF NalUnits
      <3>5. Tail(UnitsIn(Stream)[i]) = e
        BY <3>3, <3>4, TailBehindHeader, Zenon
      <3> QED BY <2>3, <3>2, <3>5
    <2>6. TellsFull <=> r["vui_parameters_present_flag"] = 1 /\ r["video_full_range_flag"] = 1
      BY <2>1, <2>5, Zenon DEF TellsFull
    <2>7. TellsFull <=> job.matrix \in {0, 2, 3}
      BY <2>2, <2>4, <2>6, RangeOfColours
    <2>8. LumaRange(job.matrix) = IF job.matrix = 2 THEN <<0, 255>> ELSE <<16, 235>>
      BY <2>2, RangeOfKernels
    <2>9. <<0, 255>> # <<16, 235>>
      OBVIOUS
    <2> QED BY <2>2, <2>7, <2>8, <2>9 DEF BT601_FULL, BT709_FULL
  <1>2. Init => SetInv
    BY DEF Init, SetInv, Rewritten
  <1>3. KeyInv /\ RunInv /\ SetInv /\ [Next]_vars => SetInv'
    BY StepSetInv
  <1> QED BY <1>1, <1>2, <1>3, AlwaysStreamInv, PTL DEF Spec

=============================================================================
