----------------------------- MODULE FrameData -----------------------------
(***************************************************************************)
(* What happens to the data of one frame in encodeProcess: the host's      *)
(* bitmap becomes the NV12 surface, the encoder (which is not in the       *)
(* source) makes a sequence of NAL units of it, these are copied to the    *)
(* host's buffer, scanned for an IDR slice, and when there is a parameter  *)
(* set among them, written again with the colours told in it.  EncodeFrame *)
(* has the order of the calls and their failures; here nothing fails.      *)
(***************************************************************************)
EXTENDS FrameLayout, ColourConversion, SpsRewrite

CONSTANT
    Jobs    \* frames of the host, each with what the encoder makes of it

StartCode == <<0, 0, 1>>

\* A NAL unit: how many zeros come before its start code of three bytes, its
\* header and what follows.  As H.264 has it (clause 7.4.1), it does not end
\* with a zero, and nothing in it looks like a start code.
NalUnits == [zeros : {0, 1}, header : Bytes, body : Seq(Bytes)]

IsEscaped(u) ==
    LET nal == <<u.header>> \o u.body
    IN  /\ nal[Len(nal)] # 0
        /\ \A i \in 1 .. Len(nal) - 2 : SubSeq(nal, i, i + 2) # StartCode

\* Bytes that an encoder need not escape (clause 7.4.1).
Plain(bytes) ==
    ~ \E i \in 1 .. Len(bytes) - 2 : bytes[i] = 0 /\ bytes[i + 1] = 0 /\ bytes[i + 2] <= 3

NAL_SLICE_IDR == 5
NAL_SPS == 7

TypeOfHeader(header) == header % 32

IsSps(unit) == TypeOfHeader(unit.header) = NAL_SPS

IsIdr(unit) == TypeOfHeader(unit.header) = NAL_SLICE_IDR

\* A job: the frame, the setting colormatrix, the colours of four pixels of the
\* picture, the units, and the parameters that the parameter sets among them
\* hold: a set in which nothing had to be escaped is sent as it is coded.
IsJob(j) ==
    /\ IsFrame(j.frame)
    /\ j.matrix \in Nat
    /\ j.colours \in [1 .. 4 -> Colours]
    /\ IsParameters(j.sps)
    /\ j.sps["num_ref_frames_in_pic_order_cnt_cycle"] <= MaxCycle
    /\ j.sps["nal_cpb_cnt_minus1"] < MaxCpb /\ j.sps["vcl_cpb_cnt_minus1"] < MaxCpb
    /\ j.units \in Seq(NalUnits)
    /\ \A i \in DOMAIN j.units :
          /\ IsEscaped(j.units[i])
          /\ IsSps(j.units[i]) /\ Plain(j.units[i].body) => j.units[i].body = EncodedSps(j.sps)

ASSUME JobsAssumption == \A j \in Jobs : IsJob(j)

VARIABLES
    job,       \* the frame and its units
    pc,        \* where encodeProcess is
    surface,   \* the input surface, while the encoder has not read it
    out,       \* the host's output buffer, as far as it was written
    size,      \* mCompressed_size
    hasIDR,    \* mHasIDR
    tmp,       \* the copy of the output while it is written again
    start,     \* the start code the scan is at, in out or in tmp
    dst        \* bytes written again

vars == <<job, pc, surface, out, size, hasIDR, tmp, start, dst>>

Concat(seqs) == FlattenSeq(seqs)

BytesOfUnit(unit) ==
    [i \in 1 .. unit.zeros |-> 0] \o StartCode \o <<unit.header>> \o unit.body

StreamOf(units) == Concat([i \in DOMAIN units |-> BytesOfUnit(units[i])])

\* std::search: the first start code at or after a position, or the end.
Search(buffer, from) ==
    LET found == {i \in from .. Len(buffer) - 2 : SubSeq(buffer, i, i + 2) = StartCode}
    IN  IF found = {} THEN Len(buffer) + 1 ELSE CHOOSE i \in found : \A k \in found : i <= k

-----------------------------------------------------------------------------
(* ICM_COMPRESS_QUERY, and the conversion *)

Query ==
    /\ pc = "query"
    /\ pc' = IF CompressQuery(job.frame) THEN "convert" ELSE "refused"
    /\ UNCHANGED <<job, surface, out, size, hasIDR, tmp, start, dst>>

Convert ==
    /\ pc = "convert"
    /\ surface' = Converted(job.frame)
    /\ pc' = "encode"
    /\ UNCHANGED <<job, out, size, hasIDR, tmp, start, dst>>

-----------------------------------------------------------------------------
(* The output of the encoder *)

\* It is copied to the host's buffer.  mHasIDR is reset, the scan begins.
CopyOutput ==
    /\ pc = "encode"
    /\ out' = StreamOf(job.units)
    /\ size' = Len(out')
    /\ hasIDR' = FALSE
    /\ start' = Search(out', 1)
    /\ pc' = "scan"
    /\ surface' = <<>>
    /\ UNCHANGED <<job, tmp, dst>>

\* Mutant of StopsAt: the scan goes on behind a parameter set.
StopsAtIdr(type) == type = NAL_SLICE_IDR

\* What ends the scan: then there is nothing more to be found out.
StopsAt(type) == type \in {NAL_SLICE_IDR, NAL_SPS}

\* One unit of the scan, up to the first IDR slice or parameter set.
Scan ==
    /\ pc = "scan" /\ start <= size
    /\ LET type == TypeOfHeader(out[start + 3])
       IN  /\ hasIDR' = (hasIDR \/ type = NAL_SLICE_IDR)
           /\ IF type = NAL_SPS /\ StopsAt(type)
              THEN /\ tmp' = SubSeq(out, 1, size)
                   /\ start' = Search(tmp', 1)
                   /\ pc' = "rewrite"
              ELSE /\ start' = Search(out, start + 1)
                   /\ pc' = IF StopsAt(type) THEN "done" ELSE "scan"
                   /\ UNCHANGED tmp
    /\ UNCHANGED <<job, surface, out, size, dst>>

ScanEnds ==
    /\ pc = "scan" /\ start > size
    /\ pc' = "done"
    /\ UNCHANGED <<job, surface, out, size, hasIDR, tmp, start, dst>>

-----------------------------------------------------------------------------
(* A frame with a parameter set is written again, from the copy *)

\* Bytes put into the buffer behind those that were written.
Put(bytes) ==
    /\ out' = SubSeq(out, 1, dst) \o bytes \o SubSeq(out, dst + Len(bytes) + 1, Len(out))
    /\ dst' = dst + Len(bytes)

\* Mutant of Resized: the size stays that of the encoder.
NotResized(length, unit) == size

\* Mutant of Resized: the difference is assigned, not added.
OnlyResized(length, unit) == length - Len(unit)

\* mCompressed_size, when a unit gives way to a parameter set of some length.
Resized(length, unit) == size + length - Len(unit)

\* Mutant of Copied: the start code is left out.
CopiedBody(unit) == SubSeq(unit, 4, Len(unit))

Copied(unit) == unit

\* The parameter set, with a start code and the header, and room for 32 bytes
\* more than the frame had.  A player that needs a scaling list is not served:
\* the process dies.
RewriteSps(unit, src) ==
    IF NeedsScalingList(ReadSps(src))
    THEN pc' = "dead" /\ UNCHANGED <<out, dst, size>>
    ELSE LET sps == add_vui(src, Len(tmp) + 32 - (dst + 5), job.matrix)
         IN  /\ Put(<<0, 0, 0, 1, unit[4]>> \o sps)
             /\ size' = Resized(Len(sps), unit)
             /\ UNCHANGED pc

\* One unit, from its start code up to the next.
Rewrite ==
    /\ pc = "rewrite" /\ start <= Len(tmp)
    /\ LET next == Search(tmp, start + 1)
           unit == SubSeq(tmp, start, next - 1)
       IN  /\ IF TypeOfHeader(unit[4]) = NAL_SPS
              THEN RewriteSps(unit, SubSeq(unit, 5, Len(unit)))
              ELSE Put(Copied(unit)) /\ UNCHANGED <<size, pc>>
           /\ start' = next
    /\ UNCHANGED <<job, surface, hasIDR, tmp>>

RewriteEnds ==
    /\ pc = "rewrite" /\ start > Len(tmp)
    /\ pc' = "done"
    /\ UNCHANGED <<job, surface, out, size, hasIDR, tmp, start, dst>>

-----------------------------------------------------------------------------
Init ==
    /\ job \in Jobs
    /\ pc = "query"
    /\ surface = <<>>
    /\ out = <<>> /\ size = 0
    /\ hasIDR = FALSE
    /\ tmp = <<>>
    /\ start = 1
    /\ dst = 0

Next == Query \/ Convert \/ CopyOutput \/ Scan \/ ScanEnds \/ Rewrite \/ RewriteEnds

Spec == Init /\ [][Next]_vars

-----------------------------------------------------------------------------
(* What a player makes of a stream *)

\* Where the start codes of a buffer are, and the k-th of them.
CodesIn(buffer) == {i \in 1 .. Len(buffer) - 2 : SubSeq(buffer, i, i + 2) = StartCode}

NthOf(positions, k) == CHOOSE i \in positions : Cardinality({j \in positions : j <= i}) = k

StartsIn(buffer) ==
    [k \in 1 .. Cardinality(CodesIn(buffer)) |-> NthOf(CodesIn(buffer), k)]

\* A unit without the zeros at its end: they belong to the next start code.
WithoutZeros(unit) ==
    SubSeq(unit, 1, CHOOSE n \in 0 .. Len(unit) :
                        /\ n = 0 \/ unit[n] # 0
                        /\ \A i \in n + 1 .. Len(unit) : unit[i] = 0)

\* The units of a stream, each from its header on.
UnitsIn(stream) ==
    LET starts == StartsIn(stream)
        next(i) == IF i = Len(starts) THEN Len(stream) + 1 ELSE starts[i + 1]
    IN  [i \in DOMAIN starts |-> WithoutZeros(SubSeq(stream, starts[i] + 3, next(i) - 1))]

Positions(Is(_)) == {i \in DOMAIN job.units : Is(job.units[i])}

\* The frame was written again, and this is all that was written.
Rewritten == pc = "done" /\ dst > 0

Stream == SubSeq(out, 1, dst)

\* The parameter set that a player should find, and the one that is written.
ExpectedSps == EncodedSps(Expected(job.sps, job.matrix))

CarriedSps == EncodedSps(Carried(job.sps, job.matrix))

\* What is read of the parameter sets was not escaped.
Legible == \A i \in Positions(IsSps) : Plain(job.units[i].body)

\* The sets grow by no more than the 32 bytes that the code allows for; one
\* byte of a start code comes to each.
Fitting ==
    Cardinality(Positions(IsSps)) * (1 + Len(CarriedSps) - Len(EncodedSps(job.sps))) <= 32

\* Parameter sets that the code reads and writes without a mishap: it knows the
\* syntax of the profile, what is read was not escaped, what is written need
\* not be, and there is room for it.
Ordinary ==
    /\ ~ NeedsScalingList(job.sps)
    /\ SameProfile(job.sps)
    /\ IsNarrow(job.sps)
    /\ Legible
    /\ Plain(CarriedSps)
    /\ Fitting

-----------------------------------------------------------------------------
(* Invariants *)

\* The program counter, the counts and the buffers stay in their ranges.
TypeOK ==
    /\ IsJob(job)
    /\ pc \in {"query", "refused", "convert", "encode", "scan", "rewrite", "done", "dead"}
    /\ DOMAIN surface \subseteq Nat
    /\ out \in Seq(Bytes) /\ tmp \in Seq(Bytes)
    /\ size \in Nat /\ dst \in 0 .. Len(out)
    /\ hasIDR \in BOOLEAN
    /\ start \in 1 .. Len(out) + 1

\* Rows of 24 bit that the bitmap pads, and BGRtoNV12 takes to be without
\* padding (OpenEncodeVFW.cpp:642).
Skewed(f) == f.format = "rgb24" /\ ~f.opencl /\ (3 * f.width) % 4 # 0

\* Each of the four converters (OpenEncodeVFW.cpp:264-343, 572-692,
\* clconvert.cpp:593-680 with the eight kernels) makes the same NV12 picture
\* of the bitmap, right side up, with every pixel, row and plane in its place;
\* only the CPU, and only with padded rows, makes another.
SurfaceIsPicture ==
    pc = "encode" => (surface = Nv12Of(job.frame) <=> ~Skewed(job.frame))

\* No converter writes behind the surface of encodeOpen (compress.cpp:487-493),
\* reads behind the host's bitmap, or copies more to the kernels' buffer than
\* it holds (clconvert.cpp:540-552, 620-640).
InsideBuffers ==
    pc = "encode" =>
        LET f == job.frame
            colours(of) == IF IsRgb(f) THEN UNION {{p.r, p.g, p.b} : p \in of} ELSE of
        IN  /\ DOMAIN surface \subseteq 0 .. SurfaceSize(f) - 1
            /\ \A at \in DOMAIN surface : colours(surface[at].of) \subseteq 0 .. BitmapSize(f) - 1
            /\ f.opencl /\ IsRgb(f) =>
                  /\ DOMAIN Uploaded(f) \subseteq 0 .. input_size(f) - 1
                  /\ \A at \in DOMAIN Uploaded(f) : Uploaded(f)[at] < BitmapSize(f)

Near(a, b) == a - b \in {-1, 0, 1}

\* The CPU makes the same of four pixels as the kernels of a matrix do, within
\* one.
Agrees(name, colours) ==
    LET cpu    == CpuChroma(colours)
        kernel == KernelChroma(name, colours)
    IN  /\ \A i \in 1 .. 4 : Near(CpuLuma(colours[i]), KernelLuma(name, colours[i]))
        /\ \A i \in {1, 2} : Near(cpu[i], kernel[i])

Blue == [r |-> 0, g |-> 0, b |-> 255]

Blues == [i \in 1 .. 4 |-> Blue]

\* The integers of the CPU need no saturation (OpenEncodeVFW.cpp:644, 670): what
\* wraps around in a byte or a uint32 still ends up in 16..235 and 16..240, and
\* within one of what the kernels of BT601_FULL compute in floats
\* (NV12_kernels.cl:7-20).  UseOpenCL therefore leaves the picture as it is if
\* the setting is BT601_FULL, and only then: the kernels of every other matrix
\* (clconvert.cpp:229-254) make another colour of blue.
PathsAgree ==
    pc = "encode" /\ IsRgb(job.frame) =>
        LET chroma == CpuChroma(job.colours)
        IN  /\ \A i \in 1 .. 4 : CpuLuma(job.colours[i]) \in 16 .. 235
            /\ \A i \in {1, 2} : chroma[i] \in 16 .. 240
            /\ Agrees("BT601_FULL", job.colours)
            /\ Agrees(BuiltWith(job.matrix), Blues) <=> job.matrix = BT601_FULL

\* A player finds the units of the encoder in what encodeProcess wrote, in
\* their order and unchanged but for the parameter sets, although the buffer
\* is written while it is searched (compress.cpp:797-833).  This is so as long
\* as the sets together grow by no more than the 32 bytes allowed for, which
\* only add_vui is held to: behind them memcpy goes on (compress.cpp:807, 827).
UnitsKept ==
    pc = "done" /\ (dst > 0 => Ordinary) =>
        LET units == UnitsIn(IF dst > 0 THEN Stream ELSE out)
        IN  /\ dst <= Len(tmp) + 32
            /\ Len(units) = Len(job.units)
            /\ \A i \in DOMAIN units :
                  IF IsSps(job.units[i]) THEN units[i][1] = job.units[i].header
                  ELSE units[i] = <<job.units[i].header>> \o job.units[i].body

\* A parameter set that was read and written again (bitstream.cpp:790-849) is
\* bit by bit what the encoder would have sent with the colours of the setting:
\* no member is lost, moved or made up.  There are two exceptions: of two HRDs
\* that differ, the second is written for both, since sps_t has one
\* (bitstream.cpp:655-663), and a matrix that is none of the six takes the VUI
\* away (bitstream.cpp:842).  Only a scaling list kills the process, or a
\* profile that the code reads by another syntax than H.264 (bitstream.cpp:714).
ParametersKept ==
    /\ Rewritten /\ Ordinary =>
          LET units == UnitsIn(Stream)
          IN  \A i \in Positions(IsSps) :
                 /\ units[i] = <<job.units[i].header>> \o CarriedSps
                 /\ SameHrds(job.sps) /\ job.matrix \in ColourMatrices =>
                       units[i] = <<job.units[i].header>> \o ExpectedSps
    /\ pc = "dead" /\ Legible => NeedsScalingList(job.sps) \/ ~SameProfile(job.sps)

\* What mCompressed_size says after a rewriting: five bytes less than were
\* written for every parameter set, for its start code and header are not
\* counted, and one more if a zero came before the first start code.
SizeAccounts ==
    /\ Rewritten =>
          size = dst - 5 * Cardinality(Positions(IsSps)) + job.units[1].zeros
    /\ pc = "done" /\ dst = 0 => out = StreamOf(job.units) /\ size = Len(out)

\* mHasIDR, by which CompressFrames tells a key frame (compress.cpp:351), if not
\* by the interval: it is set exactly if an IDR slice comes with no parameter set
\* before it, for the scan ends at the first of either.
KeyFlag ==
    pc = "done" =>
        (hasIDR <=> \E i \in Positions(IsIdr) : \A k \in Positions(IsSps) : k > i)

\* The range of the luma that the kernels of a matrix write.
LumaRange(matrix) ==
    <<KernelLuma(BuiltWith(matrix), [r |-> 0, g |-> 0, b |-> 0]),
      KernelLuma(BuiltWith(matrix), [r |-> 255, g |-> 255, b |-> 255])>>

\* The range that the parameter sets of the frame tell the player; limited, if
\* nothing is told.
TellsFull ==
    \E i \in Positions(IsSps) :
        LET sps == ReadSps(Tail(UnitsIn(Stream)[i]))
        IN  sps["vui_parameters_present_flag"] = 1 /\ sps["video_full_range_flag"] = 1

\* Whatever the encoder said before, the player is told that luma takes the
\* full range exactly if the kernels use it, but for the two matrices whose
\* kernels add 16 ("Y + 16.f", NV12_kernels.cl:8 and 62) and come out limited,
\* while add_vui leaves the flag at full (bitstream.cpp:804, 823-827, 836).
RangeTold ==
    Rewritten /\ Ordinary /\ IsRgb(job.frame) /\ job.frame.opencl =>
        LET told == IF TellsFull THEN <<0, 255>> ELSE <<16, 235>>
        IN  LumaRange(job.matrix) = told <=> job.matrix \notin {BT601_FULL, BT709_FULL}

\* The host is given all that was written (compress.cpp:762: "Write compressed
\* frame to the output").
WholeFrameReported == Rewritten => size = dst
=============================================================================
