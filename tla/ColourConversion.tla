-------------------------- MODULE ColourConversion --------------------------
(***************************************************************************)
(* The arithmetic of the two conversions of RGB to YUV: the integers of    *)
(* BGRtoNV12 (OpenEncodeVFW.cpp) and the floats of the kernels             *)
(* (NV12_kernels.cl), the latter with coefficients of four decimals.       *)
(***************************************************************************)
EXTENDS Integers

Byte == 0 .. 255

Colours == [r : Byte, g : Byte, b : Byte]

-----------------------------------------------------------------------------
(* The CPU: 16 bits after the point; >> 16 rounds down *)

Shifted(n) == n \div 65536

\* Kept in a byte, without a test.
InByte(n) == n % 256

\* Mutant of CpuLuma: one coefficient is a little too large.
CpuLumaBright(c) == InByte(16 + Shifted(32768 + 16829 * c.r + 33239 * c.g + 6416 * c.b))

CpuLuma(c) == InByte(16 + Shifted(32768 + 16829 * c.r + 33039 * c.g + 6416 * c.b))

CpuU(c) == 128 + Shifted(32768 - 9713 * c.r - 19069 * c.g + 28784 * c.b)

CpuV(c) == 128 + Shifted(32768 + 28784 * c.r - 24102 * c.g - 4680 * c.b)

\* The mean of four, rounded.
CpuMean(a, b, c, d) == InByte((2 + a + b + c + d) \div 4)

-----------------------------------------------------------------------------
(* The kernels, by matrix *)

\* Factors of red, green and blue and the number that is added, in 1/10000;
\* limited: the channels are first scaled to 16..235 (RGB_LIMITED).
Matrix(y, u, v, limited) == [y |-> y, u |-> u, v |-> v, limited |-> limited]

Factors(r, g, b, plus) == [r |-> r, g |-> g, b |-> b, plus |-> plus]

Coefficients(name) ==
    [BT601_FULL |->
        Matrix(Factors(2570, 5040, 980, 16), Factors(-1480, -2910, 4390, 128),
               Factors(4390, -3680, -710, 128), FALSE),
     BT601_LIMITED |->
        Matrix(Factors(2990, 5870, 1140, 0), Factors(-1471, -2889, 4360, 128),
               Factors(6150, -5150, -1000, 128), TRUE),
     BT601_FULL_YCbCr |->
        Matrix(Factors(2990, 5870, 1140, 0), Factors(-1690, -3310, 5000, 128),
               Factors(5000, -4190, -810, 128), FALSE),
     BT709_FULL |->
        Matrix(Factors(1826, 6142, 620, 16), Factors(-1006, -3386, 4392, 128),
               Factors(4392, -3989, -403, 128), FALSE),
     BT709_LIMITED |->
        Matrix(Factors(2126, 7152, 722, 0), Factors(-999, -3361, 4360, 128),
               Factors(6150, -5586, -564, 128), TRUE),
     BT709_ALT1_LIMITED |->
        Matrix(Factors(2126, 7152, 722, 0), Factors(-1146, -3854, 5000, 128),
               Factors(5000, -4542, -468, 128), TRUE)][name]

\* createKernels: the matrix that the kernels are built with.
BuiltWith(matrix) ==
    CASE matrix = 0 -> "BT601_FULL"
      [] matrix = 1 -> "BT601_LIMITED"
      [] matrix = 2 -> "BT601_FULL_YCbCr"
      [] matrix = 3 -> "BT709_FULL"
      [] matrix = 4 -> "BT709_LIMITED"
      [] matrix = 5 -> "BT709_ALT1_LIMITED"
      [] OTHER -> "BT601_LIMITED"

\* A channel for the matrix, in 1/100.
Channel(v, limited) == IF limited THEN 1600 + (v * 21900) \div 255 ELSE 100 * v

\* In 1/1000000 of a level.
Dot(f, c, limited) ==
    f.r * Channel(c.r, limited) + f.g * Channel(c.g, limited) + f.b * Channel(c.b, limited)
    + f.plus * 1000000

\* convert_uchar_sat_rte: rounded to the nearest, and kept in 0..255.  Half a
\* level is rounded up here, to the even one there.
Saturated(n) == IF n < 0 THEN 0 ELSE IF n > 255 THEN 255 ELSE n

Rounded(n) == Saturated((n + 500000) \div 1000000)

KernelLuma(name, c) == LET m == Coefficients(name) IN Rounded(Dot(m.y, c, m.limited))

\* The mean of four, before it is rounded.
KernelMean(f, limited, colours) ==
    Rounded((Dot(f, colours[1], limited) + Dot(f, colours[2], limited)
             + Dot(f, colours[3], limited) + Dot(f, colours[4], limited)) \div 4)

\* Four pixels, 00, 01, 10 and 11, to a pair of chroma bytes.
KernelChroma(name, colours) ==
    LET m == Coefficients(name)
    IN  <<KernelMean(m.u, m.limited, colours), KernelMean(m.v, m.limited, colours)>>

\* The pair of chroma bytes of four pixels, 00, 01, 10 and 11.
CpuChroma(colours) ==
    <<CpuMean(CpuU(colours[1]), CpuU(colours[2]), CpuU(colours[3]), CpuU(colours[4])),
      CpuMean(CpuV(colours[1]), CpuV(colours[2]), CpuV(colours[3]), CpuV(colours[4]))>>
=============================================================================
