---------------------------- MODULE FrameLayout ----------------------------
(***************************************************************************)
(* Where the bytes of a frame go: from the host's bitmap to the NV12       *)
(* surface of the encoder, on the CPU (OpenEncodeVFW.cpp) or by OpenCL     *)
(* (clconvert.cpp and NV12_kernels.cl).                                    *)
(*                                                                         *)
(* A frame has a width and height, a format, and the settings that choose  *)
(* its way.  A surface is a function from the offsets that are written to  *)
(* samples; a sample says what it is, and which bytes of the bitmap it is  *)
(* computed from: for a pixel of RGB the offsets of its red, green and     *)
(* blue, for YUV the offset of the byte that is copied.                    *)
(***************************************************************************)
EXTENDS Integers

CONSTANTS
    WidthAlignment,    \* rows of the surface, 256 in the code
    HeightAlignment    \* rows in the surface, 32 in the code

ASSUME AlignmentAssumption ==
    /\ WidthAlignment \in Nat /\ WidthAlignment > 0
    /\ HeightAlignment \in Nat /\ HeightAlignment > 0 /\ HeightAlignment % 2 = 0

Formats == {"rgb24", "rgb32", "yv12", "nv12"}

\* Bytes of a pixel (bpp_bytes, mFormat / 8).
Bpp(format) == IF format = "rgb24" THEN 3 ELSE 4

\* Frames: mWidth, mHeight, mFormat and mCompression, SwitchByteOrder, and
\* mUseCLConv.
IsFrame(f) ==
    /\ f.width \in Nat /\ f.height \in Nat /\ f.width > 0 /\ f.height > 0
    /\ f.format \in Formats /\ f.rgb \in BOOLEAN /\ f.opencl \in BOOLEAN

IsRgb(f) == f.format \in {"rgb24", "rgb32"}

\* Mutant of CompressQuery: only the height is looked at.
CompressQueryHeight(f) == f.height % 2 = 0

\* CompressQuery refuses sizes that are not even; the formats are of Formats.
CompressQuery(f) == f.width % 2 = 0 /\ f.height % 2 = 0

RoundedUp(n, unit) == ((n + unit - 1) \div unit) * unit

AlignedWidth(f) == RoundedUp(f.width, WidthAlignment)

\* mHostPtrSize: the surface that encodeOpen makes.
SurfaceSize(f) == (RoundedUp(f.height, HeightAlignment) * AlignedWidth(f) * 3) \div 2

-----------------------------------------------------------------------------
(* The host's bitmap (Windows): the rows of RGB are padded to four bytes and *)
(* come from the bottom up; the planes of YUV are not and do not             *)

BitmapStride(f) == RoundedUp(f.width * Bpp(f.format), 4)

BitmapSize(f) ==
    IF IsRgb(f) THEN BitmapStride(f) * f.height ELSE (f.width * f.height * 3) \div 2

-----------------------------------------------------------------------------
(* Samples *)

Luma(pixel) == [is |-> "Y", of |-> {pixel}]

Chroma(is, pixels) == [is |-> is, of |-> pixels]

\* Two bytes of chroma at an offset.
Pair(at, is, pixels) == {<<at, Chroma(is[1], pixels)>>, <<at + 1, Chroma(is[2], pixels)>>}

\* The surface that a set of writes makes.
Written(writes) ==
    [at \in {w[1] : w \in writes} |-> (CHOOSE w \in writes : w[1] = at)[2]]

X(f) == 0 .. f.width - 1

Y(f) == 0 .. f.height - 1

HalfX(f) == 0 .. (f.width \div 2) - 1

HalfY(f) == 0 .. (f.height \div 2) - 1

-----------------------------------------------------------------------------
(* The CPU *)

\* The bytes of the pixel that begins at an offset, by the order of the
\* channels: with isBGR the red one is two bytes further.
PixelAt(offset, rgb) ==
    [r |-> offset + (IF rgb THEN 0 ELSE 2), g |-> offset + 1, b |-> offset + (IF rgb THEN 2 ELSE 0)]

\* Rows are taken to be as long as their pixels (rgbPitch).
CpuPixel(f, x, y) == PixelAt((y * f.width + x) * Bpp(f.format), f.rgb)

\* BGRtoNV12 with flip: the first row of the bitmap is the last of the surface.
BGRtoNV12(f) ==
    LET pitch == AlignedWidth(f)
        uv    == pitch * f.height
    IN  {<<pitch * (f.height - y - 1) + x, Luma(CpuPixel(f, x, y))>> : x \in X(f), y \in Y(f)}
        \cup UNION {Pair(uv + pitch * ((f.height \div 2) - y - 1) + 2 * x, <<"U", "V">>,
                         {CpuPixel(f, 2 * x + i, 2 * y + j) : i \in {0, 1}, j \in {0, 1}})
                    : x \in HalfX(f), y \in HalfY(f)}

CopiedLuma(f) ==
    {<<AlignedWidth(f) * h + x, Luma(f.width * h + x)>> : x \in X(f), h \in Y(f)}

\* The second plane of the bitmap goes to the even bytes, the first to the odd.
yv12ToNV12(f) ==
    LET first  == f.width * f.height
        second == first + (f.width \div 2) * (f.height \div 2)
        uv     == AlignedWidth(f) * f.height
    IN  CopiedLuma(f)
        \cup UNION {{<<uv + AlignedWidth(f) * h + 2 * i, Chroma("U", {second + (f.width \div 2) * h + i})>>,
                     <<uv + AlignedWidth(f) * h + 2 * i + 1,
                       Chroma("V", {first + (f.width \div 2) * h + i})>>}
                    : i \in HalfX(f), h \in HalfY(f)}

\* Rows are copied as they are.
nv12ToNV12Aligned(f) ==
    CopiedLuma(f)
    \cup {<<AlignedWidth(f) * (f.height + h) + x,
            Chroma(IF x % 2 = 0 THEN "U" ELSE "V", {f.width * (f.height + h) + x})>>
          : x \in X(f), h \in HalfY(f)}

-----------------------------------------------------------------------------
(* OpenCL *)

input_size(f) ==
    f.width * f.height * Bpp(f.format) + ((f.width * Bpp(f.format)) % 4) * f.height

mapStride(f) == f.width * Bpp(f.format)

needsDestriding(f) == mapStride(f) % 4 # 0

\* The stride is rounded up by its remainder.
bmpStride(f) == mapStride(f) + (mapStride(f) % 4)

\* Mutant of Uploaded: the padding of the rows is not taken out.
UploadedAsIs(f) == [at \in 0 .. input_size(f) - 1 |-> at]

\* The input buffer of the kernels: which byte of the bitmap each of its bytes
\* was copied from.  Rows of 24 bit are copied one by one, without the padding.
Uploaded(f) ==
    IF f.format = "rgb32" \/ ~needsDestriding(f)
    THEN [at \in 0 .. input_size(f) - 1 |-> at]
    ELSE [at \in 0 .. mapStride(f) * f.height - 1 |->
             (at \div mapStride(f)) * bmpStride(f) + (at % mapStride(f))]

\* The kernels read pixel n of the buffer (uchar4, or vload3), and take its
\* bytes for red, green and blue in the order that their names say.
KernelPixel(f, n) ==
    LET p == PixelAt(Bpp(f.format) * n, f.rgb)
        u == Uploaded(f)
    IN  [r |-> u[p.r], g |-> u[p.g], b |-> u[p.b]]

\* One work item of a kernel ..._Y, over width and height.
KernelY(f, x, y) ==
    <<x + (f.height - y - 1) * AlignedWidth(f), Luma(KernelPixel(f, x + f.width * y))>>

\* One work item of a kernel ..._UV, over half of each.
KernelUV(f, x, y) ==
    LET width == 2 * (f.width \div 2)
        src   == 2 * x + width * y * 2
        at    == AlignedWidth(f) * (2 * (f.height \div 2)) + ((f.height \div 2) - y - 1) * AlignedWidth(f)
                 + 2 * x
    IN  Pair(at, <<"U", "V">>,
             {KernelPixel(f, n) : n \in {src, src + 1, src + width, src + width + 1}})

ConvertedByOpenCL(f) ==
    {KernelY(f, x, y) : x \in X(f), y \in Y(f)}
    \cup UNION {KernelUV(f, x, y) : x \in HalfX(f), y \in HalfY(f)}

-----------------------------------------------------------------------------
\* The converter that encodeProcess calls for a frame.
Converted(f) ==
    Written(IF IsRgb(f) THEN (IF f.opencl THEN ConvertedByOpenCL(f) ELSE BGRtoNV12(f))
            ELSE IF f.format = "nv12" THEN nv12ToNV12Aligned(f) ELSE yv12ToNV12(f))

-----------------------------------------------------------------------------
(* What NV12 is: the picture from the top down, luma first, then a row of    *)
(* pairs for every two rows of it                                            *)

\* The bytes of the pixel in column x and row y of the picture, from the top.
PicturePixel(f, x, y) ==
    PixelAt((f.height - 1 - y) * BitmapStride(f) + x * Bpp(f.format), f.rgb)

PictureLuma(f, x, y) ==
    Luma(IF IsRgb(f) THEN PicturePixel(f, x, y) ELSE y * f.width + x)

\* V comes before U in YV12, and after it in NV12.
PictureChroma(f, is, x, y) ==
    LET n == (f.width \div 2) * (f.height \div 2)
    IN  Chroma(is,
          IF IsRgb(f)
          THEN {PicturePixel(f, 2 * x + i, 2 * y + j) : i \in {0, 1}, j \in {0, 1}}
          ELSE IF f.format = "yv12"
          THEN {f.width * f.height + (IF is = "U" THEN n ELSE 0) + y * (f.width \div 2) + x}
          ELSE {f.width * f.height + y * f.width + 2 * x + (IF is = "U" THEN 0 ELSE 1)})

Nv12Of(f) ==
    LET pitch == AlignedWidth(f)
    IN  Written({<<pitch * y + x, PictureLuma(f, x, y)>> : x \in X(f), y \in Y(f)}
                \cup UNION {{<<pitch * (f.height + y) + 2 * x, PictureChroma(f, "U", x, y)>>,
                             <<pitch * (f.height + y) + 2 * x + 1, PictureChroma(f, "V", x, y)>>}
                            : x \in HalfX(f), y \in HalfY(f)})
=============================================================================
