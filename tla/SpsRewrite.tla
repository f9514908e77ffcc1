----------------------------- MODULE SpsRewrite -----------------------------
(***************************************************************************)
(* add_vui of bitstream.cpp: a sequence parameter set is read, told the    *)
(* matrix of the colour conversion, and written again.  The syntax is kept *)
(* in tables, one for what the code reads, one for what it writes, and one *)
(* for what H.264 says (clauses 7.3.2.1.1, E.1.1 and E.1.2).               *)
(*                                                                         *)
(* A table is a sequence of rows: members of sps_t that follow each other, *)
(* their code, and the conditions (members and the values they must have)  *)
(* under which they are there.  Loops are unrolled: MaxCpb and MaxCycle    *)
(* bound them; the 32 bit members of the timing are two of 16 bits.  The   *)
(* flags of the scaling lists are in the tables, the lists are not.        *)
(***************************************************************************)
EXTENDS BitStream, SequencesExt

UE == 0     \* the codes: Exp-Golomb, signed Exp-Golomb, or a number of bits
SE == -1

MaxCpb == 2     \* HRD schedules
MaxCycle == 2   \* reference frames of a picture order count cycle

\* One row.
U(code, names) == <<[names |-> names, code |-> code, when |-> {}]>>

\* Rows, under one more condition.
If(name, values, rows) ==
    [i \in DOMAIN rows |-> [rows[i] EXCEPT !.when = @ \cup {<<name, values>>}]]

IsPresent(row, sps) == \A c \in row.when : sps[c[1]] \in c[2]

\* From v on, as far as a member that counts a loop goes.
From(v) == v .. 255

Flags == <<"constraint_set0_flag", "constraint_set1_flag", "constraint_set2_flag",
           "constraint_set3_flag", "constraint_set4_flag", "constraint_set5_flag">>

ListFlags == <<"scaling_list_0", "scaling_list_1", "scaling_list_2", "scaling_list_3",
               "scaling_list_4", "scaling_list_5", "scaling_list_6", "scaling_list_7">>

SAR_Extended == 255

-----------------------------------------------------------------------------
(* The syntax of H.264 *)

\* The profiles that have a chroma format, and more (clause 7.3.2.1.1).
ChromaProfiles == {44, 83, 86, 100, 110, 118, 122, 128, 134, 135, 138, 139, 244}

\* The members of the two HRDs of a parameter set.
Nal == [cpb_cnt_minus1 |-> "nal_cpb_cnt_minus1",
        bit_rate_scale |-> "nal_bit_rate_scale", cpb_size_scale |-> "nal_cpb_size_scale",
        bit_rate_value_0 |-> "nal_bit_rate_value_0", cpb_size_value_0 |-> "nal_cpb_size_value_0",
        cbr_flag_0 |-> "nal_cbr_flag_0",
        bit_rate_value_1 |-> "nal_bit_rate_value_1", cpb_size_value_1 |-> "nal_cpb_size_value_1",
        cbr_flag_1 |-> "nal_cbr_flag_1",
        initial_cpb_removal_delay_length |-> "nal_initial_cpb_removal_delay_length",
        cpb_removal_delay_length |-> "nal_cpb_removal_delay_length",
        dpb_output_delay_length |-> "nal_dpb_output_delay_length",
        time_offset_length |-> "nal_time_offset_length"]

Vcl == [cpb_cnt_minus1 |-> "vcl_cpb_cnt_minus1",
        bit_rate_scale |-> "vcl_bit_rate_scale", cpb_size_scale |-> "vcl_cpb_size_scale",
        bit_rate_value_0 |-> "vcl_bit_rate_value_0", cpb_size_value_0 |-> "vcl_cpb_size_value_0",
        cbr_flag_0 |-> "vcl_cbr_flag_0",
        bit_rate_value_1 |-> "vcl_bit_rate_value_1", cpb_size_value_1 |-> "vcl_cpb_size_value_1",
        cbr_flag_1 |-> "vcl_cbr_flag_1",
        initial_cpb_removal_delay_length |-> "vcl_initial_cpb_removal_delay_length",
        cpb_removal_delay_length |-> "vcl_cpb_removal_delay_length",
        dpb_output_delay_length |-> "vcl_dpb_output_delay_length",
        time_offset_length |-> "vcl_time_offset_length"]

HrdSyntax(hrd) ==
    U(UE, <<hrd.cpb_cnt_minus1>>)
    \o U(4, <<hrd.bit_rate_scale, hrd.cpb_size_scale>>)
    \o U(UE, <<hrd.bit_rate_value_0, hrd.cpb_size_value_0>>)
    \o U(1, <<hrd.cbr_flag_0>>)
    \o If(hrd.cpb_cnt_minus1, From(1),
          U(UE, <<hrd.bit_rate_value_1, hrd.cpb_size_value_1>>)
          \o U(1, <<hrd.cbr_flag_1>>))
    \o U(5, <<hrd.initial_cpb_removal_delay_length, hrd.cpb_removal_delay_length,
              hrd.dpb_output_delay_length, hrd.time_offset_length>>)

VuiSyntax ==
    U(1, <<"aspect_ratio_info_present_flag">>)
    \o If("aspect_ratio_info_present_flag", {1},
          U(8, <<"aspect_ratio_idc">>)
          \o If("aspect_ratio_idc", {SAR_Extended}, U(16, <<"sar_width", "sar_height">>)))
    \o U(1, <<"overscan_info_present_flag">>)
    \o If("overscan_info_present_flag", {1}, U(1, <<"overscan_appropriate_flag">>))
    \o U(1, <<"video_signal_type_present_flag">>)
    \o If("video_signal_type_present_flag", {1},
          U(3, <<"video_format">>)
          \o U(1, <<"video_full_range_flag", "colour_description_present_flag">>)
          \o If("colour_description_present_flag", {1},
                U(8, <<"colour_primaries", "transfer_characteristics", "matrix_coefficients">>)))
    \o U(1, <<"chroma_loc_info_present_flag">>)
    \o If("chroma_loc_info_present_flag", {1},
          U(UE, <<"chroma_sample_loc_top", "chroma_sample_loc_bottom">>))
    \o U(1, <<"timing_info_present_flag">>)
    \o If("timing_info_present_flag", {1},
          U(16, <<"num_units_in_tick_hi", "num_units_in_tick_lo",
                  "time_scale_hi", "time_scale_lo">>)
          \o U(1, <<"fixed_frame_rate_flag">>))
    \o U(1, <<"nal_hrd_present_flag">>)
    \o If("nal_hrd_present_flag", {1}, HrdSyntax(Nal))
    \o U(1, <<"vcl_hrd_present_flag">>)
    \o If("vcl_hrd_present_flag", {1}, HrdSyntax(Vcl))
    \o If("nal_hrd_present_flag", {1}, U(1, <<"low_delay_hrd_flag">>))
    \o If("nal_hrd_present_flag", {0},
          If("vcl_hrd_present_flag", {1}, U(1, <<"low_delay_hrd_flag">>)))
    \o U(1, <<"pic_struct_present_flag", "bitstream_restriction_flag">>)
    \o If("bitstream_restriction_flag", {1},
          U(1, <<"motion_vectors_over_pic_boundaries_flag">>)
          \o U(UE, <<"max_bytes_per_pic_denom", "max_bits_per_mb_denom",
                     "log2_max_mv_length_horizontal", "log2_max_mv_length_vertical",
                     "num_reorder_frames", "max_dec_frame_buffering">>))

SpsSyntax ==
    U(8, <<"profile_idc">>) \o U(1, Flags) \o U(2, <<"reserved_zero_2bits">>)
    \o U(8, <<"level_idc">>) \o U(UE, <<"seq_parameter_set_id">>)
    \o If("profile_idc", ChromaProfiles,
          U(UE, <<"chroma_format_idc">>)
          \o If("chroma_format_idc", {3}, U(1, <<"residual_colour_transform_flag">>))
          \o U(UE, <<"bit_depth_luma_minus8", "bit_depth_chroma_minus8">>)
          \o U(1, <<"qpprime_y_zero_transform_bypass_flag", "seq_scaling_matrix_present_flag">>)
          \o If("seq_scaling_matrix_present_flag", {1}, U(1, ListFlags)))
    \o U(UE, <<"log2_max_frame_num_minus4", "pic_order_cnt_type">>)
    \o If("pic_order_cnt_type", {0}, U(UE, <<"log2_max_pic_order_cnt_lsb_minus4">>))
    \o If("pic_order_cnt_type", {1},
          U(1, <<"delta_pic_order_always_zero_flag">>)
          \o U(SE, <<"offset_for_non_ref_pic", "offset_for_top_to_bottom_field">>)
          \o U(UE, <<"num_ref_frames_in_pic_order_cnt_cycle">>)
          \o If("num_ref_frames_in_pic_order_cnt_cycle", From(1), U(SE, <<"offset_for_ref_frame_0">>))
          \o If("num_ref_frames_in_pic_order_cnt_cycle", From(2), U(SE, <<"offset_for_ref_frame_1">>)))
    \o U(UE, <<"num_ref_frames">>) \o U(1, <<"gaps_in_frame_num_value_allowed_flag">>)
    \o U(UE, <<"pic_width_in_mbs_minus1", "pic_height_in_map_units_minus1">>)
    \o U(1, <<"frame_mbs_only_flag">>)
    \o If("frame_mbs_only_flag", {0}, U(1, <<"mb_adaptive_frame_field_flag">>))
    \o U(1, <<"direct_8x8_inference_flag", "frame_cropping_flag">>)
    \o If("frame_cropping_flag", {1},
          U(UE, <<"frame_crop_left_offset", "frame_crop_right_offset",
                  "frame_crop_top_offset", "frame_crop_bottom_offset">>))
    \o U(1, <<"vui_parameters_present_flag">>)

-----------------------------------------------------------------------------
(* What the code reads.  Both HRDs are read into the same members. *)

\* The profiles that the code takes to have a chroma format, and more.
HighProfiles == {100, 110, 122, 144}

read_hrd_parameters ==
    U(UE, <<"cpb_cnt_minus1">>)
    \o U(4, <<"bit_rate_scale", "cpb_size_scale">>)
    \o U(UE, <<"bit_rate_value_0", "cpb_size_value_0">>)
    \o U(1, <<"cbr_flag_0">>)
    \o If("cpb_cnt_minus1", From(1),
          U(UE, <<"bit_rate_value_1", "cpb_size_value_1">>)
          \o U(1, <<"cbr_flag_1">>))
    \o U(5, <<"initial_cpb_removal_delay_length", "cpb_removal_delay_length",
              "dpb_output_delay_length", "time_offset_length">>)

read_vui_parameters ==
    U(1, <<"aspect_ratio_info_present_flag">>)
    \o If("aspect_ratio_info_present_flag", {1},
          U(8, <<"aspect_ratio_idc">>)
          \o If("aspect_ratio_idc", {SAR_Extended}, U(16, <<"sar_width", "sar_height">>)))
    \o U(1, <<"overscan_info_present_flag">>)
    \o If("overscan_info_present_flag", {1}, U(1, <<"overscan_appropriate_flag">>))
    \o U(1, <<"video_signal_type_present_flag">>)
    \o If("video_signal_type_present_flag", {1},
          U(3, <<"video_format">>)
          \o U(1, <<"video_full_range_flag", "colour_description_present_flag">>)
          \o If("colour_description_present_flag", {1},
                U(8, <<"colour_primaries", "transfer_characteristics", "matrix_coefficients">>)))
    \o U(1, <<"chroma_loc_info_present_flag">>)
    \o If("chroma_loc_info_present_flag", {1},
          U(UE, <<"chroma_sample_loc_top", "chroma_sample_loc_bottom">>))
    \o U(1, <<"timing_info_present_flag">>)
    \o If("timing_info_present_flag", {1},
          U(16, <<"num_units_in_tick_hi", "num_units_in_tick_lo",
                  "time_scale_hi", "time_scale_lo">>)
          \o U(1, <<"fixed_frame_rate_flag">>))
    \o U(1, <<"nal_hrd_present_flag">>)
    \o If("nal_hrd_present_flag", {1}, read_hrd_parameters)
    \o U(1, <<"vcl_hrd_present_flag">>)
    \o If("vcl_hrd_present_flag", {1}, read_hrd_parameters)
    \o If("nal_hrd_present_flag", {1}, U(1, <<"low_delay_hrd_flag">>))
    \o If("nal_hrd_present_flag", {0},
          If("vcl_hrd_present_flag", {1}, U(1, <<"low_delay_hrd_flag">>)))
    \o U(1, <<"pic_struct_present_flag", "bitstream_restriction_flag">>)
    \o If("bitstream_restriction_flag", {1},
          U(1, <<"motion_vectors_over_pic_boundaries_flag">>)
          \o U(UE, <<"max_bytes_per_pic_denom", "max_bits_per_mb_denom",
                     "log2_max_mv_length_horizontal", "log2_max_mv_length_vertical",
                     "num_reorder_frames", "max_dec_frame_buffering">>))

read_seq_parameter_set ==
    U(8, <<"profile_idc">>) \o U(1, Flags) \o U(2, <<"reserved_zero_2bits">>)
    \o U(8, <<"level_idc">>) \o U(UE, <<"seq_parameter_set_id">>)
    \o If("profile_idc", HighProfiles,
          U(UE, <<"chroma_format_idc">>)
          \o If("chroma_format_idc", {3}, U(1, <<"residual_colour_transform_flag">>))
          \o U(UE, <<"bit_depth_luma_minus8", "bit_depth_chroma_minus8">>)
          \o U(1, <<"qpprime_y_zero_transform_bypass_flag", "seq_scaling_matrix_present_flag">>)
          \o If("seq_scaling_matrix_present_flag", {1}, U(1, ListFlags)))
    \o U(UE, <<"log2_max_frame_num_minus4", "pic_order_cnt_type">>)
    \o If("pic_order_cnt_type", {0}, U(UE, <<"log2_max_pic_order_cnt_lsb_minus4">>))
    \o If("pic_order_cnt_type", {1},
          U(1, <<"delta_pic_order_always_zero_flag">>)
          \o U(SE, <<"offset_for_non_ref_pic", "offset_for_top_to_bottom_field">>)
          \o U(UE, <<"num_ref_frames_in_pic_order_cnt_cycle">>)
          \o If("num_ref_frames_in_pic_order_cnt_cycle", From(1), U(SE, <<"offset_for_ref_frame_0">>))
          \o If("num_ref_frames_in_pic_order_cnt_cycle", From(2), U(SE, <<"offset_for_ref_frame_1">>)))
    \o U(UE, <<"num_ref_frames">>) \o U(1, <<"gaps_in_frame_num_value_allowed_flag">>)
    \o U(UE, <<"pic_width_in_mbs_minus1", "pic_height_in_map_units_minus1">>)
    \o U(1, <<"frame_mbs_only_flag">>)
    \o If("frame_mbs_only_flag", {0}, U(1, <<"mb_adaptive_frame_field_flag">>))
    \o U(1, <<"direct_8x8_inference_flag", "frame_cropping_flag">>)
    \o If("frame_cropping_flag", {1},
          U(UE, <<"frame_crop_left_offset", "frame_crop_right_offset",
                  "frame_crop_top_offset", "frame_crop_bottom_offset">>))
    \o U(1, <<"vui_parameters_present_flag">>)

-----------------------------------------------------------------------------
(* What the code writes.  The reserved bits are written as 0. *)

write_hrd_parameters ==
    U(UE, <<"cpb_cnt_minus1">>)
    \o U(4, <<"bit_rate_scale", "cpb_size_scale">>)
    \o U(UE, <<"bit_rate_value_0", "cpb_size_value_0">>)
    \o U(1, <<"cbr_flag_0">>)
    \o If("cpb_cnt_minus1", From(1),
          U(UE, <<"bit_rate_value_1", "cpb_size_value_1">>)
          \o U(1, <<"cbr_flag_1">>))
    \o U(5, <<"initial_cpb_removal_delay_length", "cpb_removal_delay_length",
              "dpb_output_delay_length", "time_offset_length">>)

write_vui_parameters ==
    U(1, <<"aspect_ratio_info_present_flag">>)
    \o If("aspect_ratio_info_present_flag", {1},
          U(8, <<"aspect_ratio_idc">>)
          \o If("aspect_ratio_idc", {SAR_Extended}, U(16, <<"sar_width", "sar_height">>)))
    \o U(1, <<"overscan_info_present_flag">>)
    \o If("overscan_info_present_flag", {1}, U(1, <<"overscan_appropriate_flag">>))
    \o U(1, <<"video_signal_type_present_flag">>)
    \o If("video_signal_type_present_flag", {1},
          U(3, <<"video_format">>)
          \o U(1, <<"video_full_range_flag", "colour_description_present_flag">>)
          \o If("colour_description_present_flag", {1},
                U(8, <<"colour_primaries", "transfer_characteristics", "matrix_coefficients">>)))
    \o U(1, <<"chroma_loc_info_present_flag">>)
    \o If("chroma_loc_info_present_flag", {1},
          U(UE, <<"chroma_sample_loc_top", "chroma_sample_loc_bottom">>))
    \o U(1, <<"timing_info_present_flag">>)
    \o If("timing_info_present_flag", {1},
          U(16, <<"num_units_in_tick_hi", "num_units_in_tick_lo",
                  "time_scale_hi", "time_scale_lo">>)
          \o U(1, <<"fixed_frame_rate_flag">>))
    \o U(1, <<"nal_hrd_present_flag">>)
    \o If("nal_hrd_present_flag", {1}, write_hrd_parameters)
    \o U(1, <<"vcl_hrd_present_flag">>)
    \o If("vcl_hrd_present_flag", {1}, write_hrd_parameters)
    \o If("nal_hrd_present_flag", {1}, U(1, <<"low_delay_hrd_flag">>))
    \o If("nal_hrd_present_flag", {0},
          If("vcl_hrd_present_flag", {1}, U(1, <<"low_delay_hrd_flag">>)))
    \o U(1, <<"pic_struct_present_flag", "bitstream_restriction_flag">>)
    \o If("bitstream_restriction_flag", {1},
          U(1, <<"motion_vectors_over_pic_boundaries_flag">>)
          \o U(UE, <<"max_bytes_per_pic_denom", "max_bits_per_mb_denom",
                     "log2_max_mv_length_horizontal", "log2_max_mv_length_vertical",
                     "num_reorder_frames", "max_dec_frame_buffering">>))

write_seq_parameter_set ==
    U(8, <<"profile_idc">>) \o U(1, Flags) \o U(2, <<"zero">>)
    \o U(8, <<"level_idc">>) \o U(UE, <<"seq_parameter_set_id">>)
    \o If("profile_idc", HighProfiles,
          U(UE, <<"chroma_format_idc">>)
          \o If("chroma_format_idc", {3}, U(1, <<"residual_colour_transform_flag">>))
          \o U(UE, <<"bit_depth_luma_minus8", "bit_depth_chroma_minus8">>)
          \o U(1, <<"qpprime_y_zero_transform_bypass_flag", "seq_scaling_matrix_present_flag">>)
          \o If("seq_scaling_matrix_present_flag", {1}, U(1, ListFlags)))
    \o U(UE, <<"log2_max_frame_num_minus4", "pic_order_cnt_type">>)
    \o If("pic_order_cnt_type", {0}, U(UE, <<"log2_max_pic_order_cnt_lsb_minus4">>))
    \o If("pic_order_cnt_type", {1},
          U(1, <<"delta_pic_order_always_zero_flag">>)
          \o U(SE, <<"offset_for_non_ref_pic", "offset_for_top_to_bottom_field">>)
          \o U(UE, <<"num_ref_frames_in_pic_order_cnt_cycle">>)
          \o If("num_ref_frames_in_pic_order_cnt_cycle", From(1), U(SE, <<"offset_for_ref_frame_0">>))
          \o If("num_ref_frames_in_pic_order_cnt_cycle", From(2), U(SE, <<"offset_for_ref_frame_1">>)))
    \o U(UE, <<"num_ref_frames">>) \o U(1, <<"gaps_in_frame_num_value_allowed_flag">>)
    \o U(UE, <<"pic_width_in_mbs_minus1", "pic_height_in_map_units_minus1">>)
    \o U(1, <<"frame_mbs_only_flag">>)
    \o If("frame_mbs_only_flag", {0}, U(1, <<"mb_adaptive_frame_field_flag">>))
    \o U(1, <<"direct_8x8_inference_flag", "frame_cropping_flag">>)
    \o If("frame_cropping_flag", {1},
          U(UE, <<"frame_crop_left_offset", "frame_crop_right_offset",
                  "frame_crop_top_offset", "frame_crop_bottom_offset">>))
    \o U(1, <<"vui_parameters_present_flag">>)

-----------------------------------------------------------------------------
(* Reading and writing along a table *)

MembersOf(table) == UNION {ToSet(table[i].names) : i \in DOMAIN table}

\* The members of the code's sps_t; "zero" stands for a 0 that is written.
Members == MembersOf(read_seq_parameter_set) \cup MembersOf(read_vui_parameters) \cup {"zero"}

ReadCode(s, pos, code) ==
    IF code = UE THEN bs_read_ue(s, pos)
    ELSE IF code = SE THEN bs_read_se(s, pos)
    ELSE bs_read(s, pos, code)

\* The members of a row are read in their order.
ReadRow(row, s, from) ==
    LET upTo[i \in 0 .. Len(row.names)] ==
            IF i = 0 THEN from
            ELSE LET before == upTo[i - 1]
                     next   == ReadCode(s, before.pos, row.code)
                 IN  [sps |-> [before.sps EXCEPT ![row.names[i]] = next.val], pos |-> next.pos]
    IN  upTo[Len(row.names)]

ReadTable(table, s, from) ==
    LET upTo[i \in 0 .. Len(table)] ==
            IF i = 0 THEN from
            ELSE LET before == upTo[i - 1]
                 IN  IF IsPresent(table[i], before.sps) THEN ReadRow(table[i], s, before) ELSE before
    IN  upTo[Len(table)]

\* sps_t starts as zeros, with 4:2:0 for the profiles that do not say.
NoSps == [m \in Members |-> IF m = "chroma_format_idc" THEN 1 ELSE 0]

\* The sps_t that a sequence of bytes is read as.  A scaling list that is
\* present is not read, for there is no memory for it (read_scaling_list).
ReadSps(bytes) ==
    LET s    == BitsOf(bytes)
        head == ReadTable(read_seq_parameter_set, s, [sps |-> NoSps, pos |-> 0])
    IN  IF head.sps["vui_parameters_present_flag"] = 1
        THEN ReadTable(read_vui_parameters, s, head).sps
        ELSE head.sps

\* The bits of a table, by two Exp-Golomb codes.
Coded(table, sps, Ue(_), Se(_)) ==
    LET CodeOf(v, code) ==
            IF code = UE THEN Ue(v) ELSE IF code = SE THEN Se(v) ELSE bs_write(code, v)
        RowOf(row) == FlattenSeq([i \in DOMAIN row.names |-> CodeOf(sps[row.names[i]], row.code)])
    IN  FlattenSeq([i \in DOMAIN table |->
                       IF IsPresent(table[i], sps) THEN RowOf(table[i]) ELSE <<>>])

WriteSps(sps) ==
    BytesOf(write_rbsp_trailing_bits(
        Coded(write_seq_parameter_set
              \o If("vui_parameters_present_flag", {1}, write_vui_parameters),
              sps, bs_write_ue, bs_write_se)))

\* What the encoder makes of parameters, and what a player expects.
EncodedSps(parameters) ==
    BytesOf(write_rbsp_trailing_bits(
        Coded(SpsSyntax \o If("vui_parameters_present_flag", {1}, VuiSyntax),
              parameters, ExpGolomb, SignedExpGolomb)))

\* The values that a code has; those of Exp-Golomb codes are kept below 2^31.
ValuesOf(code) ==
    IF code = UE THEN {v \in Nat : v <= 2147483646}
    ELSE IF code = SE THEN {v \in Int : -1073741823 <= v /\ v <= 1073741823}
    ELSE 0 .. 2^code - 1

\* Parameters as H.264 has them: the values fit their codes, reserved bits are
\* 0, and what is not told by a VUI that is not there is 0 (clause E.2.1).
IsParameters(parameters) ==
    /\ DOMAIN parameters = MembersOf(SpsSyntax) \cup MembersOf(VuiSyntax)
    /\ \A table \in {SpsSyntax, VuiSyntax} : \A i \in DOMAIN table :
          \A m \in ToSet(table[i].names) : parameters[m] \in ValuesOf(table[i].code)
    /\ parameters["reserved_zero_2bits"] = 0
    /\ parameters["vui_parameters_present_flag"] # 1 =>
          \A m \in MembersOf(VuiSyntax) : parameters[m] = 0

\* Values that bs_write_ue and bs_write_se write as H.264 codes them.
Narrow == {v \in Int : -32767 <= v /\ v <= 65534}

\* Every Exp-Golomb code of them is of such values.
IsNarrow(parameters) ==
    \A table \in {SpsSyntax, VuiSyntax} : \A i \in DOMAIN table :
        table[i].code \in {UE, SE} =>
            \A m \in ToSet(table[i].names) : parameters[m] \in Narrow

\* write_scaling_list reads a list that was never allocated.
NeedsScalingList(sps) ==
    /\ sps["profile_idc"] \in HighProfiles
    /\ sps["seq_scaling_matrix_present_flag"] = 1
    /\ \E i \in DOMAIN ListFlags : sps[ListFlags[i]] = 1

-----------------------------------------------------------------------------
(* add_vui *)

BT601_FULL == 0
BT601_LIMITED == 1
BT601_FULL_YCbCr == 2
BT709_FULL == 3
BT709_LIMITED == 4
BT709_ALT1_LIMITED == 5

ColourMatrices == 0 .. 5

\* What is told of a matrix: the range, and the primaries, transfer function
\* and matrix by their numbers in H.264.
Description(range, primaries, transfer, matrix) ==
    [video_format |-> 5, video_full_range_flag |-> range, colour_primaries |-> primaries,
     transfer_characteristics |-> transfer, matrix_coefficients |-> matrix,
     video_signal_type_present_flag |-> 1, colour_description_present_flag |-> 1,
     vui_parameters_present_flag |-> 1]

ColourOf(matrix) ==
    CASE matrix = BT601_LIMITED      -> Description(0, 5, 6, 5)
      [] matrix = BT601_FULL         -> Description(1, 5, 6, 5)
      [] matrix = BT601_FULL_YCbCr   -> Description(1, 5, 8, 5)
      [] matrix = BT709_LIMITED      -> Description(0, 1, 1, 1)
      [] matrix = BT709_FULL         -> Description(1, 1, 1, 1)
      [] matrix = BT709_ALT1_LIMITED -> Description(0, 1, 1, 1)
      [] OTHER -> [Description(1, 1, 1, 1) EXCEPT !.vui_parameters_present_flag = 0]

\* Mutant of Tagged: what is told stays as it was when the encoder told it.
TaggedIfMissing(sps, matrix) ==
    IF sps["video_signal_type_present_flag"] = 1 THEN sps
    ELSE [m \in DOMAIN sps |->
             IF m \in DOMAIN ColourOf(matrix) THEN ColourOf(matrix)[m] ELSE sps[m]]

Tagged(sps, matrix) ==
    [m \in DOMAIN sps |->
        IF m \in DOMAIN ColourOf(matrix) THEN ColourOf(matrix)[m] ELSE sps[m]]

WithColours(parameters, colours) ==
    [m \in DOMAIN parameters |-> IF m \in DOMAIN colours THEN colours[m] ELSE parameters[m]]

\* The parameters that a player should find: those of the encoder, with the
\* colours of the setting if it is one of the six.
Expected(parameters, matrix) ==
    IF matrix \in ColourMatrices THEN WithColours(parameters, ColourOf(matrix)) ELSE parameters

\* What add_vui makes of parameters has losses.  The code and H.264 agree on
\* the members of the profile.
SameProfile(parameters) ==
    parameters["profile_idc"] \in HighProfiles <=> parameters["profile_idc"] \in ChromaProfiles

\* There are not two HRDs, or they say the same.
SameHrds(parameters) ==
    parameters["nal_hrd_present_flag"] = 1 /\ parameters["vcl_hrd_present_flag"] = 1 =>
        \A h \in DOMAIN Nal : parameters[Nal[h]] = parameters[Vcl[h]]

\* Both HRDs come back as the second of them, for the code has one.
Shared(parameters) ==
    IF parameters["nal_hrd_present_flag"] = 1 /\ parameters["vcl_hrd_present_flag"] = 1
    THEN [m \in DOMAIN parameters |->
             IF \E h \in DOMAIN Nal : m = Nal[h]
             THEN parameters[Vcl[CHOOSE h \in DOMAIN Nal : m = Nal[h]]]
             ELSE parameters[m]]
    ELSE parameters

\* The parameters that add_vui writes: without a VUI for a seventh matrix.
Carried(parameters, matrix) == WithColours(Shared(parameters), ColourOf(matrix))

\* The bytes of the parameter set, as far as there is room for them.
add_vui(src, room, matrix) ==
    LET dst == WriteSps(Tagged(ReadSps(src), matrix))
    IN  SubSeq(dst, 1, IF Len(dst) <= room THEN Len(dst) ELSE room)
=============================================================================
