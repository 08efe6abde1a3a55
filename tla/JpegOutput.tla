------------------------------ MODULE JpegOutput ------------------------------
(***************************************************************************)
(* The output side of libjpeg's decompressor: the half of the coefficient  *)
(* controller that hands out iMCU rows (jdcoefct.c), the main buffer       *)
(* (jdmainct.c), the upsamplers (jdsample.c, jdmerge.c) and the            *)
(* postprocessor (jdpostct.c).  A line is its number in the picture.       *)
(*                                                                         *)
(* No upsampler of this version asks for context rows, so the main buffer  *)
(* is always the simple one.                                               *)
(***************************************************************************)
EXTENDS JpegInput

VARIABLES
  setting,              \* the parameters the application decompresses with
  idct_table,           \* the tables the inverse DCTs were built with
  decompress_data,      \* the method iMCU rows are handed out by
  output_iMCU_row,
  main,                 \* the main buffer: the iMCU row in it, and the row groups used up
  upsample,             \* the upsampler: a row group converted, or a spare row
  post,                 \* the postprocessor: a position in its strips, and its pass mode
  whole_image,          \* the lines stored by the first of two passes
  output_scanline,
  lines,                \* the lines given to the application in this pass
  shown                 \* what the iMCU rows of this pass were made from

outputVars == <<setting, idct_table, decompress_data, output_iMCU_row, main, upsample, post,
                whole_image, output_scanline, lines, shown>>

Smallest(S) == CHOOSE m \in S : \A n \in S : m <= n

-----------------------------------------------------------------------------
(* Dimensions. *)

\* The lines an inverse DCT makes of a block: the fewest that are enough for the scale asked for.
min_DCT_scaled_size ==
  LET enough == {n \in 1..16 : setting.scale_num * block_size <= setting.scale_denom * n}
  IN  IF enough = {} THEN 16 ELSE Smallest(enough)

\* Mutant: rounded down.
OutputHeightDown == (frame.height * min_DCT_scaled_size) \div block_size

output_height == jdiv_round_up(frame.height * min_DCT_scaled_size, block_size)

lines_per_iMCU_row == max_v_samp_factor * min_DCT_scaled_size

\* A component with fewer samples is scaled up by its inverse DCT, by a power of two, as far as
\* that goes; not by more than twice in one direction than in the other.
ScaledUp(samp, max_samp) ==
  LET limit == IF setting.do_fancy_upsampling THEN DCTSIZE ELSE DCTSIZE \div 2
      goesOn(s) == min_DCT_scaled_size * s <= limit /\ max_samp % (samp * s * 2) = 0
  IN  min_DCT_scaled_size * Smallest({s \in {1, 2, 4, 8, 16} : ~ goesOn(s)})

DCT_scaled_size(c) ==
  LET h == ScaledUp(frame.comps[c].h, max_h_samp_factor)
      v == ScaledUp(frame.comps[c].v, max_v_samp_factor)
  IN  [h |-> Smallest({h, 2 * v}), v |-> Smallest({v, 2 * h})]

\* Upsampling is merged with the conversion of colours where that is the box filter of both.
use_merged_upsample ==
  /\ ~ setting.do_fancy_upsampling
  /\ Len(frame.comps) = 3
  /\ frame.comps[1].h = 2 /\ frame.comps[1].v <= 2
  /\ \A c \in {2, 3} : frame.comps[c].h = 1 /\ frame.comps[c].v = 1
  /\ \A c \in Comps : DCT_scaled_size(c) = [h |-> min_DCT_scaled_size, v |-> min_DCT_scaled_size]

\* The samples of a component that become those of a row group must be a fraction of them.
FractionalSampling ==
  /\ ~ setting.raw_data_out /\ ~ use_merged_upsample
  /\ \E c \in Comps :
       \/ max_h_samp_factor % ((frame.comps[c].h * DCT_scaled_size(c).h) \div min_DCT_scaled_size) # 0
       \/ max_v_samp_factor % ((frame.comps[c].v * DCT_scaled_size(c).v) \div min_DCT_scaled_size) # 0

strip_height == max_v_samp_factor

-----------------------------------------------------------------------------
(* iMCU rows. *)

\* The iMCU row r, from the arrays or just decoded.
ShowRow(r) ==
  /\ output_iMCU_row' = r + 1
  /\ shown' = Append(shown, [c \in DOMAIN coef |-> [b \in BlockRows(c, r) |-> coef[c][b]]])

\* Input and output in step, when there are no arrays.
decompress_onepass(ret) ==
  \E r \in Retcodes :
    /\ DecodeRow(r)
    /\ IF r \in {"ROW_COMPLETED", "SCAN_COMPLETED"}
       THEN ret = "ROW_COMPLETED" /\ ShowRow(output_iMCU_row)
       ELSE ret = r /\ UNCHANGED <<output_iMCU_row, shown>>

\* Mutants: the row that is coming in may go out; smoothing does not wait for the row below.
AheadOfInputByARow ==
  IF decompress_data = "decompress_data"
  THEN \/ input_scan_number < output_scan_number
       \/ input_scan_number = output_scan_number /\ input_iMCU_row < output_iMCU_row
  ELSE /\ input_scan_number <= output_scan_number /\ ~ eoi_reached
       /\ input_scan_number = output_scan_number => input_iMCU_row <= output_iMCU_row

AheadOfInputUnsmoothed ==
  IF decompress_data = "decompress_data"
  THEN \/ input_scan_number < output_scan_number
       \/ input_scan_number = output_scan_number /\ input_iMCU_row <= output_iMCU_row
  ELSE /\ input_scan_number <= output_scan_number /\ ~ eoi_reached
       /\ input_scan_number = output_scan_number => input_iMCU_row <= output_iMCU_row

\* Whether output would get ahead of the input.
AheadOfInput ==
  IF decompress_data = "decompress_data"
  THEN \/ input_scan_number < output_scan_number
       \/ input_scan_number = output_scan_number /\ input_iMCU_row <= output_iMCU_row
  ELSE /\ input_scan_number <= output_scan_number /\ ~ eoi_reached
       /\ input_scan_number = output_scan_number =>
            input_iMCU_row <= output_iMCU_row + (IF scan.Ss = 0 THEN 1 ELSE 0)

\* From the arrays, once there is enough in them; smoothing needs the row below as well.
DecompressFromArrays(ret) ==
  IF AheadOfInput
  THEN \E r \in Retcodes :
         /\ ConsumeInput(r)
         /\ ret = IF r \in {"SUSPENDED", "ERROR"} THEN r ELSE "CONTINUE"
         /\ UNCHANGED <<output_iMCU_row, shown>>
  ELSE /\ ret = "ROW_COMPLETED"
       /\ ShowRow(output_iMCU_row)
       /\ UNCHANGED inputVars

DecompressData(ret) ==
  IF decompress_data = "decompress_onepass" THEN decompress_onepass(ret) ELSE DecompressFromArrays(ret)

\* Smoothing needs the tables and some DC of every component, and coefficients left to estimate.
smoothing_ok ==
  /\ progressive_mode
  /\ \A c \in Comps : quant_table[c] # None /\ "DC" \in coef_bits[c]
  /\ \E c \in Comps : "AC" \notin coef_bits[c]

\* The start of an output pass in the coefficient controller.
start_output_pass ==
  /\ decompress_data' = IF coef = <<>> THEN "decompress_onepass"
                        ELSE IF setting.do_block_smoothing /\ smoothing_ok THEN "decompress_smooth_data"
                        ELSE "decompress_data"
  /\ output_iMCU_row' = 0
  /\ shown' = <<>>

\* Builds the multipliers of the inverse DCTs that have none, if there is a table to build from.
start_pass_idct == idct_table' = [c \in Comps |-> IF idct_table[c] = None THEN quant_table[c] ELSE idct_table[c]]

-----------------------------------------------------------------------------
(* Upsampling: each takes the row group at hand, and the rows there is     *)
(* room for, to lines, a new state, and whether the row group is used up.  *)

Run(first, n) == [i \in 1..n |-> first + i - 1]

RowGroupLine == (main.iMCU_row * min_DCT_scaled_size + main.rowgroup_ctr) * max_v_samp_factor

start_pass_upsample ==
  upsample' = [rows_to_go |-> output_height, next_row_out |-> max_v_samp_factor, color_buf |-> 0,
               spare_full |-> FALSE, spare_row |-> 0]

\* Mutant: the bottom of the picture does not end the last row group.
UpsampleToTheEnd(room) ==
  LET empty == upsample.next_row_out >= max_v_samp_factor
      from == IF empty THEN 0 ELSE upsample.next_row_out
      group == IF empty THEN RowGroupLine ELSE upsample.color_buf
      n == Smallest({max_v_samp_factor - from, room})
  IN  [lines |-> Run(group + from, n),
       state |-> [upsample EXCEPT !.rows_to_go = @ - n, !.next_row_out = from + n, !.color_buf = group],
       consumed |-> from + n >= max_v_samp_factor]

sep_upsample(room) ==
  LET empty == upsample.next_row_out >= max_v_samp_factor
      from == IF empty THEN 0 ELSE upsample.next_row_out
      group == IF empty THEN RowGroupLine ELSE upsample.color_buf
      n == Smallest({max_v_samp_factor - from, upsample.rows_to_go, room})
  IN  [lines |-> Run(group + from, n),
       state |-> [upsample EXCEPT !.rows_to_go = @ - n, !.next_row_out = from + n, !.color_buf = group],
       consumed |-> from + n >= max_v_samp_factor]

merged_2v_upsample(room) ==
  IF upsample.spare_full
  THEN [lines |-> <<upsample.spare_row>>,
        state |-> [upsample EXCEPT !.rows_to_go = @ - 1, !.spare_full = FALSE],
        consumed |-> TRUE]
  ELSE LET n == Smallest({2, upsample.rows_to_go, room})
       IN  [lines |-> Run(RowGroupLine, n),
            state |-> [upsample EXCEPT !.rows_to_go = @ - n, !.spare_full = n <= 1,
                                       !.spare_row = RowGroupLine + 1],
            consumed |-> n > 1]

merged_1v_upsample == [lines |-> <<RowGroupLine>>, state |-> upsample, consumed |-> TRUE]

Upsampled(room) ==
  IF ~ use_merged_upsample THEN sep_upsample(room)
  ELSE IF max_v_samp_factor = 2 THEN merged_2v_upsample(room)
  ELSE merged_1v_upsample

-----------------------------------------------------------------------------
(* Postprocessing: what the application is given, of at most max_lines.    *)

Emit(out) == lines' = lines \o out /\ output_scanline' = output_scanline + Len(out)

\* The position in the strips after n more rows.
NextPosition(n) ==
  IF post.next_row + n >= strip_height
  THEN [post EXCEPT !.starting_row = @ + strip_height, !.next_row = 0]
  ELSE [post EXCEPT !.next_row = @ + n]

\* Uses a row group of the main buffer, and gives the buffer back after the last.
UseRowGroup(consumed) ==
  LET next == main.rowgroup_ctr + (IF consumed THEN 1 ELSE 0)
  IN  main' = IF next >= min_DCT_scaled_size THEN [main EXCEPT !.buffer_full = FALSE, !.rowgroup_ctr = 0]
              ELSE [main EXCEPT !.rowgroup_ctr = next]

\* Without quantization the application's buffer is the upsampler's; with it, a strip is.
post_process_1pass(max_lines) ==
  LET up == Upsampled(IF setting.quantize_colors THEN Smallest({max_lines, strip_height}) ELSE max_lines)
  IN  /\ upsample' = up.state
      /\ UseRowGroup(up.consumed)
      /\ Emit(up.lines)
      /\ UNCHANGED <<post, whole_image>>

\* The first of two passes stores its lines; none are given out, all are counted.
post_process_prepass ==
  LET up == Upsampled(strip_height - post.next_row)
      row == post.starting_row + post.next_row
  IN  /\ upsample' = up.state
      /\ UseRowGroup(up.consumed)
      /\ whole_image' = SubSeq(whole_image, 1, row) \o up.lines
      /\ post' = NextPosition(Len(up.lines))
      /\ output_scanline' = output_scanline + Len(up.lines)
      /\ UNCHANGED lines

\* The line in a row of the stored picture: anything, when none was stored there.
NoLine == -1
StoredLine(r) == IF r \in DOMAIN whole_image THEN whole_image[r] ELSE NoLine

\* The second pass gives out what the first stored.
post_process_2pass(max_lines) ==
  LET n == Smallest({strip_height - post.next_row, max_lines, output_height - post.starting_row})
      row == post.starting_row + post.next_row
  IN  /\ Emit([i \in 1..n |-> StoredLine(row + i)])
      /\ post' = NextPosition(n)
      /\ UNCHANGED <<main, upsample, whole_image>>

start_pass_dpost(mode) == post' = [starting_row |-> 0, next_row |-> 0, mode |-> mode]

start_pass_main == main' = [buffer_full |-> FALSE, rowgroup_ctr |-> 0, iMCU_row |-> 0]

\* A step of giving out lines: fill the main buffer, or postprocess what is in it.
ProcessData(ret, max_lines) ==
  IF post.mode = "JBUF_CRANK_DEST"
  THEN /\ ret = "LINES"
       /\ post_process_2pass(max_lines)
       /\ UNCHANGED <<inputVars, output_iMCU_row, shown>>
  ELSE IF main.buffer_full
  THEN /\ ret = "LINES"
       /\ IF post.mode = "JBUF_SAVE_AND_PASS" THEN post_process_prepass ELSE post_process_1pass(max_lines)
       /\ UNCHANGED <<inputVars, output_iMCU_row, shown>>
  ELSE \E r \in Retcodes :
         /\ DecompressData(r)
         /\ ret = IF r = "ROW_COMPLETED" THEN "CONTINUE" ELSE r
         /\ main' = IF r = "ROW_COMPLETED" THEN [main EXCEPT !.buffer_full = TRUE, !.iMCU_row = output_iMCU_row]
                    ELSE main
         /\ UNCHANGED <<upsample, post, whole_image, lines, output_scanline>>

NewUpsampler == [rows_to_go |-> 0, next_row_out |-> 0, color_buf |-> 0, spare_full |-> FALSE, spare_row |-> 0]

OutputInit ==
  /\ idct_table = <<>>
  /\ decompress_data = "none"
  /\ output_iMCU_row = 0
  /\ main = [buffer_full |-> FALSE, rowgroup_ctr |-> 0, iMCU_row |-> 0]
  /\ upsample = NewUpsampler
  /\ post = [starting_row |-> 0, next_row |-> 0, mode |-> "JBUF_PASS_THRU"]
  /\ whole_image = <<>>
  /\ output_scanline = 0
  /\ lines = <<>>
  /\ shown = <<>>
=============================================================================
