---------------------------- MODULE MCFrameData ----------------------------
(***************************************************************************)
(* FrameData with rows of four and surfaces of four rows, so that small    *)
(* frames fill them, need padding, or take more than one.                  *)
(***************************************************************************)
EXTENDS FrameData

MaxWidth == 6
MaxHeight == 4

MCWidthAlignment == 4
MCHeightAlignment == 4

Frame(width, height, format, rgb, opencl) ==
    [width |-> width, height |-> height, format |-> format, rgb |-> rgb, opencl |-> opencl]

Frames ==
    {Frame(w, h, format, rgb, opencl) :
        w \in 1 .. MaxWidth, h \in 1 .. MaxHeight, format \in Formats,
        rgb \in BOOLEAN, opencl \in BOOLEAN}

Small == Frame(2, 2, "rgb32", FALSE, TRUE)

-----------------------------------------------------------------------------
(* Colours: black, white, and what is between and at the corners *)

Corners == {[r |-> r, g |-> g, b |-> b] : r \in {0, 128, 255}, g \in {0, 128, 255}, b \in {0, 127, 255}}

Grey == [r |-> 128, g |-> 128, b |-> 128]

Pure == {c \in Corners : c.r # 128 /\ c.g # 128 /\ c.b # 127}

\* Pixels of one colour, and one or two of another.
Pictures == UNION {{<<c, d, c, c>>, <<c, d, d, c>>} : c \in Corners, d \in Pure}

AllGrey == <<Grey, Grey, Grey, Grey>>

-----------------------------------------------------------------------------
(* Parameters of the encoder *)

\* 640x480, baseline, one reference frame, no VUI.
Baseline ==
    [m \in MembersOf(SpsSyntax) \cup MembersOf(VuiSyntax) |->
        CASE m = "profile_idc" -> 66
          [] m = "level_idc" -> 30
          [] m = "pic_order_cnt_type" -> 2
          [] m = "num_ref_frames" -> 1
          [] m = "pic_width_in_mbs_minus1" -> 39
          [] m = "pic_height_in_map_units_minus1" -> 29
          [] m = "frame_mbs_only_flag" -> 1
          [] OTHER -> 0]

With(parameters, changes) == changes @@ parameters

Vui(changes) == With(Baseline, "vui_parameters_present_flag" :> 1 @@ changes)

High(changes) == With(Baseline, "profile_idc" :> 100 @@ "chroma_format_idc" :> 1 @@ changes)

Hrd(hrd, rate, delay) ==
    (hrd \o "hrd_present_flag") :> 1 @@ (hrd \o "bit_rate_scale") :> 4
    @@ (hrd \o "cpb_size_scale") :> 5 @@ (hrd \o "bit_rate_value_0") :> rate
    @@ (hrd \o "cpb_size_value_0") :> 2 * rate @@ (hrd \o "cbr_flag_0") :> 1
    @@ (hrd \o "initial_cpb_removal_delay_length") :> delay
    @@ (hrd \o "cpb_removal_delay_length") :> delay @@ (hrd \o "dpb_output_delay_length") :> delay
    @@ (hrd \o "time_offset_length") :> 24

TwoSchedules(hrd) ==
    (hrd \o "cpb_cnt_minus1") :> 1 @@ (hrd \o "bit_rate_value_1") :> 900
    @@ (hrd \o "cpb_size_value_1") :> 31

Signal(range) ==
    "video_signal_type_present_flag" :> 1 @@ "video_format" :> 2 @@ "video_full_range_flag" :> range
    @@ "colour_description_present_flag" :> 1 @@ "colour_primaries" :> 9
    @@ "transfer_characteristics" :> 16 @@ "matrix_coefficients" :> 9

Timing(hi, lo) ==
    "timing_info_present_flag" :> 1 @@ "num_units_in_tick_hi" :> hi @@ "num_units_in_tick_lo" :> lo
    @@ "time_scale_hi" :> 3 @@ "time_scale_lo" :> 60000 @@ "fixed_frame_rate_flag" :> 1

Parameters ==
    {Baseline,
     With(Baseline, "constraint_set1_flag" :> 1 @@ "constraint_set5_flag" :> 1 @@ "seq_parameter_set_id" :> 31),
     With(Baseline, "pic_order_cnt_type" :> 0 @@ "log2_max_pic_order_cnt_lsb_minus4" :> 12
                    @@ "log2_max_frame_num_minus4" :> 4),
     With(Baseline, "pic_order_cnt_type" :> 1),
     With(Baseline, "pic_order_cnt_type" :> 1 @@ "num_ref_frames_in_pic_order_cnt_cycle" :> 2
                    @@ "offset_for_non_ref_pic" :> -3 @@ "offset_for_top_to_bottom_field" :> 7
                    @@ "offset_for_ref_frame_0" :> -32767 @@ "offset_for_ref_frame_1" :> 1),
     With(Baseline, "pic_order_cnt_type" :> 1 @@ "num_ref_frames_in_pic_order_cnt_cycle" :> 1
                    @@ "delta_pic_order_always_zero_flag" :> 1 @@ "offset_for_ref_frame_0" :> 40000),
     With(Baseline, "frame_mbs_only_flag" :> 0 @@ "mb_adaptive_frame_field_flag" :> 1
                    @@ "direct_8x8_inference_flag" :> 1),
     With(Baseline, "frame_cropping_flag" :> 1 @@ "frame_crop_right_offset" :> 5
                    @@ "frame_crop_bottom_offset" :> 4 @@ "num_ref_frames" :> 16),
     With(Baseline, "pic_width_in_mbs_minus1" :> 65534),
     With(Baseline, "pic_width_in_mbs_minus1" :> 65536),
     High(<<>>),
     High("chroma_format_idc" :> 3 @@ "residual_colour_transform_flag" :> 1 @@ "bit_depth_luma_minus8" :> 2),
     With(Baseline, "profile_idc" :> 244 @@ "chroma_format_idc" :> 3),
     With(Baseline, "profile_idc" :> 144),
     High("seq_scaling_matrix_present_flag" :> 1),
     High("seq_scaling_matrix_present_flag" :> 1 @@ "scaling_list_6" :> 1),
     Vui(<<>>),
     Vui("aspect_ratio_info_present_flag" :> 1 @@ "aspect_ratio_idc" :> 1
         @@ "overscan_info_present_flag" :> 1 @@ "overscan_appropriate_flag" :> 1),
     Vui("aspect_ratio_info_present_flag" :> 1 @@ "aspect_ratio_idc" :> SAR_Extended
         @@ "sar_width" :> 4660 @@ "sar_height" :> 65535),
     Vui(Signal(0)),
     Vui(Signal(1)),
     Vui("chroma_loc_info_present_flag" :> 1 @@ "chroma_sample_loc_bottom" :> 2),
     Vui(Timing(5, 1001)),
     Vui(Timing(0, 1)),
     Vui(Hrd("nal_", 500, 23)),
     Vui(Hrd("vcl_", 700, 15) @@ TwoSchedules("vcl_") @@ "low_delay_hrd_flag" :> 1),
     Vui(Hrd("nal_", 500, 23) @@ Hrd("vcl_", 500, 23)),
     Vui(Hrd("nal_", 500, 23) @@ TwoSchedules("nal_") @@ Hrd("vcl_", 700, 15)),
     Vui("pic_struct_present_flag" :> 1 @@ "bitstream_restriction_flag" :> 1
         @@ "motion_vectors_over_pic_boundaries_flag" :> 1 @@ "max_bytes_per_pic_denom" :> 2
         @@ "max_bits_per_mb_denom" :> 1 @@ "log2_max_mv_length_horizontal" :> 10
         @@ "log2_max_mv_length_vertical" :> 9 @@ "num_reorder_frames" :> 0
         @@ "max_dec_frame_buffering" :> 4)}

-----------------------------------------------------------------------------
(* Units *)

SPS == 103
PPS == 104
IDR == 101
Slice == 65
Delimiter == 9

\* The bytes of an encoder never look like a start code.
Escaped(bytes) ==
    LET upTo[i \in 0 .. Len(bytes)] ==
            IF i = 0 THEN <<>>
            ELSE LET before == upTo[i - 1]
                     n      == Len(before)
                 IN  IF n >= 2 /\ before[n] = 0 /\ before[n - 1] = 0 /\ bytes[i] <= 3
                     THEN before \o <<3, bytes[i]>>
                     ELSE Append(before, bytes[i])
    IN  upTo[Len(bytes)]

SpsBody == [p \in Parameters |-> Escaped(EncodedSps(p))]

Body(header, parameters) ==
    CASE header = SPS -> SpsBody[parameters]
      [] header = PPS -> <<206, 60, 128>>
      [] header = IDR -> <<136, 0, 0, 3, 1, 7>>
      [] header = Slice -> <<154, 0, 1>>
      [] header = Delimiter -> <<240>>

Unit(zeros, header, parameters) ==
    [zeros |-> zeros, header |-> header, body |-> Body(header, parameters)]

Units(headers, first, others, parameters) ==
    [i \in DOMAIN headers |-> Unit(IF i = 1 THEN first ELSE others, headers[i], parameters)]

MaxUnits == 3

Orders == UNION {[1 .. n -> {SPS, IDR, Slice}] : n \in 1 .. MaxUnits}

Typical == {<<Delimiter, SPS, PPS, IDR>>, <<Delimiter, IDR, Slice, SPS>>, <<PPS, SPS, Slice>>}

NoSpsSent == <<Slice>>

\* More sets than the 32 bytes suffice for (Fitting).
ManySets == [i \in 1 .. 8 |-> IF i = 8 THEN IDR ELSE SPS]

Job(frame, matrix, colours, units, parameters) ==
    [frame |-> frame, matrix |-> matrix, colours |-> colours, units |-> units, sps |-> parameters]

\* The matrices, and a number that is none of them.
Matrices == ColourMatrices \cup {9}

MCJobs ==
    {Job(f, BT709_FULL, AllGrey, Units(NoSpsSent, 1, 1, Baseline), Baseline) : f \in Frames}
    \cup {Job(Small, BT709_FULL, p, Units(NoSpsSent, 1, 1, Baseline), Baseline) : p \in Pictures}
    \cup {Job(Small, BT709_LIMITED, AllGrey, Units(order, 1, 0, Baseline), Baseline) : order \in Orders}
    \cup {Job(Small, BT709_LIMITED, AllGrey, Units(order, first, others, Baseline), Baseline) :
             order \in Typical, first \in {0, 1}, others \in {0, 1}}
    \cup {Job(Small, BT709_LIMITED, AllGrey, Units(ManySets, 1, others, Baseline), Baseline) :
             others \in {0, 1}}
    \cup {Job(Small, m, AllGrey, Units(<<SPS, PPS, IDR>>, 1, 1, p), p) : m \in Matrices, p \in Parameters}
=============================================================================
