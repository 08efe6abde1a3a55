---------------------------- MODULE JpegDecompress ----------------------------
(***************************************************************************)
(* libjpeg's decompressor as an application sees it: the calls of          *)
(* jdapimin.c and jdapistd.c over the two sides of the decompressor, and   *)
(* the master control of jdmaster.c.                                       *)
(*                                                                         *)
(* A call starts with the application's action and goes on, step by step,  *)
(* until it returns; a call that ran out of data returns early, and is     *)
(* made again.  After an error the object is of no more use.               *)
(***************************************************************************)
EXTENDS JpegOutput

CONSTANTS
  Streams,              \* what a data source may hold
  Settings              \* the parameters an application may choose

\* What a source may hold: a marker with its parameters, or the data of an MCU row.  A frame without
\* lines or components is refused by get_sof, and one with factors that are not 1..4 by initial_setup,
\* before a scan is started.  A slot may be one that no table is ever put in.
ComponentParameters == [h : 1..4, v : 1..4, tq : SLOTS]
SofUnits == [t : {"SOF"}, kind : {"SOF0", "SOF1", "SOF2"}, height : Nat \ {0},
             comps : Seq(ComponentParameters) \ {<<>>}]
SosUnits == [t : {"SOS"}, comps : Seq(Nat), th : SLOTS, Ss : 0..255, Se : 0..255,
             Ah : 0..15, Al : 0..15]
Units == [t : {"SOI", "EOI", "MCU", "COM", "JPG"}]
           \cup [t : {"DQT", "DHT"}, slot : SLOTS, version : Nat \ {None}] \cup SofUnits \cup SosUnits

\* What may be set between the header and the start.
Parameters ==
  [buffered_image : BOOLEAN, raw_data_out : BOOLEAN, scale_num : Nat \ {0}, scale_denom : Nat \ {0},
   do_fancy_upsampling : BOOLEAN, do_block_smoothing : BOOLEAN,
   quantize_colors : BOOLEAN, two_pass_quantize : BOOLEAN, enable_quant : SUBSET {"1pass", "2pass"},
   jpeg_color_space : {"guessed", "YCbCr"}]

ASSUME SettingsAssumption == Settings \subseteq Parameters
ASSUME StreamsAssumption == \A s \in Streams : s \in Seq(Units)

VARIABLES
  global_state,
  call,                 \* the call in progress, or how far it has come
  max_lines,            \* its argument
  is_dummy_pass,        \* the pass only collects the statistics of colours
  colormap,             \* there is a colour map
  enable_quant,         \* the quantizers that were made
  premature             \* the pass was set up before the tables, or the scan, that it shows were known

control == <<global_state, call, max_lines>>
master == <<is_dummy_pass, colormap, enable_quant>>

decompressVars == <<inputVars, outputVars, control, master, premature>>

States == {"START", "INHEADER", "READY", "PRELOAD", "PRESCAN", "SCANNING", "RAW_OK",
           "BUFIMAGE", "BUFPOST", "STOPPING"}

NoCall == "none"
Calls == {NoCall, "jpeg_read_header", "jpeg_consume_input", "jpeg_start_decompress", "absorbed", "output_pass_setup",
          "jpeg_read_scanlines", "jpeg_read_raw_data", "jpeg_finish_output", "jpeg_finish_decompress"}

\* The parameters a picture gets from its header.
default_decompress_parms ==
  [buffered_image |-> FALSE, raw_data_out |-> FALSE, scale_num |-> 1, scale_denom |-> 1,
   do_fancy_upsampling |-> TRUE, do_block_smoothing |-> TRUE,
   quantize_colors |-> FALSE, two_pass_quantize |-> TRUE, enable_quant |-> {},
   jpeg_color_space |-> "guessed"]

Enter(fn) == call' = fn
Return == call' = NoCall
Idle == call = NoCall /\ error = NoError

\* A call that ends in an error of its own.
ErrorExit(e) ==
  /\ error' = e
  /\ Return
  /\ UNCHANGED <<source, reader, seen, tables, setup, pass, scans, progress, coef, outputVars,
                 global_state, max_lines, master, premature>>

-----------------------------------------------------------------------------
(* Headers. *)

\* A new datastream: everything about the last one is forgotten, but for the tables.
StartHeader(fn) ==
  /\ Idle
  /\ global_state = "START"
  /\ reset_input_controller
  /\ global_state' = "INHEADER"
  /\ Enter(fn)
  /\ UNCHANGED <<outputVars, max_lines, master, premature>>

ResumeHeader(fn) ==
  /\ Idle
  /\ global_state = "INHEADER"
  /\ Enter(fn)
  /\ UNCHANGED <<inputVars, outputVars, global_state, max_lines, master, premature>>

jpeg_read_header == StartHeader("jpeg_read_header") \/ ResumeHeader("jpeg_read_header")

ReadHeader ==
  /\ call = "jpeg_read_header" /\ ~ eoi_reached
  /\ \E ret \in Retcodes :
       /\ ConsumeInput(ret)
       /\ IF ret \in {"CONTINUE", "REACHED_EOI"} THEN UNCHANGED call ELSE Return
       /\ IF ret = "REACHED_SOS"
          THEN global_state' = "READY" /\ setting' = default_decompress_parms
          ELSE UNCHANGED <<global_state, setting>>
  /\ UNCHANGED <<idct_table, decompress_data, output_iMCU_row, main, upsample, post, whole_image,
                 output_scanline, lines, shown, max_lines, master, premature>>

\* jpeg_abort releases the picture's memory and keeps the object.
jpeg_abort == global_state' = "START"

\* A datastream of tables only, for an application that takes one.
EndOfTables(require_image) ==
  /\ call = "jpeg_read_header" /\ eoi_reached
  /\ IF require_image THEN ErrorExit("NO_IMAGE")
     ELSE /\ jpeg_abort
          /\ Return
          /\ UNCHANGED <<inputVars, outputVars, max_lines, master, premature>>

\* Between jpeg_read_header and jpeg_start_decompress the application may adjust the parameters.
AdjustParameters ==
  /\ Idle
  /\ global_state = "READY" /\ setting = default_decompress_parms
  /\ setting' \in Settings
  /\ UNCHANGED <<inputVars, idct_table, decompress_data, output_iMCU_row, main, upsample, post, whole_image,
                 output_scanline, lines, shown, control, master, premature>>

-----------------------------------------------------------------------------
(* Starting. *)

\* The quantizers there are: outside of buffered-image mode the one that was asked for.
Quantizers ==
  IF ~ setting.quantize_colors THEN {}
  ELSE LET chosen == IF Len(frame.comps) = 3 /\ setting.two_pass_quantize THEN "2pass" ELSE "1pass"
       IN  IF Len(frame.comps) # 3 THEN {"1pass"}
           ELSE {chosen} \cup (IF setting.buffered_image THEN setting.enable_quant ELSE {})

use_c_buffer == has_multiple_scans \/ setting.buffered_image

MasterError ==
  IF setting.quantize_colors /\ setting.raw_data_out THEN "NOTIMPL"
  ELSE IF setting.jpeg_color_space = "YCbCr" /\ Len(frame.comps) # 3 THEN "BAD_J_COLORSPACE"
  ELSE IF FractionalSampling THEN "FRACT_SAMPLE_NOTIMPL"
  ELSE ScanError(scan, quant_table)

\* Makes the modules, and starts the first scan.
master_selection ==
  /\ coef' = IF use_c_buffer
             THEN [c \in Comps |-> [b \in 0..(total_iMCU_rows * frame.comps[c].v - 1) |-> 0]]
             ELSE <<>>
  /\ start_input_pass(scan, quant_table, [c \in Comps |-> {}],
                      IF use_c_buffer THEN "consume_data" ELSE "dummy_consume_data")
  /\ idct_table' = [c \in Comps |-> None]
  /\ is_dummy_pass' = FALSE
  /\ colormap' = FALSE
  /\ enable_quant' = Quantizers
  /\ shown' = <<>>
  /\ UNCHANGED <<source, reader, seen, tables, block_size, has_multiple_scans, scans, progress, error,
                 setting, decompress_data, output_iMCU_row, main, upsample, post, whole_image,
                 output_scanline, lines, max_lines>>

jpeg_start_decompress ==
  /\ Idle
  /\ \/ /\ global_state = "READY"
        /\ IF MasterError # NoError THEN ErrorExit(MasterError)
           ELSE /\ master_selection
                /\ IF setting.buffered_image
                   THEN global_state' = "BUFIMAGE" /\ Return
                   ELSE global_state' = "PRELOAD" /\ Enter("jpeg_start_decompress")
                /\ premature' = FALSE
     \/ /\ global_state \in {"PRELOAD", "PRESCAN"}
        /\ Enter(IF global_state = "PRELOAD" THEN "jpeg_start_decompress" ELSE "output_pass_setup")
        /\ UNCHANGED <<inputVars, outputVars, global_state, max_lines, master, premature>>

\* All scans of a file of several go into the arrays first.
AbsorbScans ==
  /\ call = "jpeg_start_decompress" /\ has_multiple_scans
  /\ \E ret \in Retcodes :
       /\ ConsumeInput(ret)
       /\ call' = IF ret \in {"SUSPENDED", "ERROR"} THEN NoCall
                  ELSE IF ret = "REACHED_EOI" THEN "absorbed" ELSE call
  /\ UNCHANGED <<outputVars, global_state, max_lines, master, premature>>

Absorbed ==
  /\ call = "absorbed" \/ (call = "jpeg_start_decompress" /\ ~ has_multiple_scans)
  /\ output_scan_number' = input_scan_number
  /\ Enter("output_pass_setup")
  /\ UNCHANGED <<source, reader, seen, tables, setup, pass, scans, eoi_reached, coef, error, outputVars,
                 global_state, max_lines, master, premature>>

-----------------------------------------------------------------------------
(* Output passes. *)

\* In buffered-image mode the application says which scan to show.
jpeg_start_output(scan_number) ==
  LET n == IF scan_number <= 0 THEN 1
           ELSE IF eoi_reached /\ scan_number > input_scan_number THEN input_scan_number
           ELSE scan_number
  IN  /\ Idle
      /\ setting.buffered_image
      /\ global_state \in {"BUFIMAGE", "PRESCAN"}
      /\ output_scan_number' = n
      /\ IF global_state = "BUFIMAGE"
         THEN /\ premature' = (n > input_scan_number /\ \E c \in Comps : quant_table[c] = None)
              /\ shown' = <<>>
         ELSE /\ premature' = \/ premature
                              \/ n # output_scan_number /\ (shown # <<>> \/ \E c \in Comps : idct_table[c] = None)
              /\ UNCHANGED shown
      /\ Enter("output_pass_setup")
      /\ UNCHANGED <<source, reader, seen, tables, setup, pass, scans, eoi_reached, coef, error,
                     setting, idct_table, decompress_data, output_iMCU_row, main, upsample, post, whole_image,
                     output_scanline, lines, global_state, max_lines, master>>

\* The quantizer of a pass that needs a new colour map.
NewQuantizer ==
  IF ~ setting.quantize_colors \/ colormap THEN "same"
  ELSE IF setting.two_pass_quantize /\ "2pass" \in enable_quant THEN "2pass"
  ELSE IF "1pass" \in enable_quant THEN "1pass"
  ELSE "none"

\* The last of two passes only cranks the postprocessor.
PrepareLastPass ==
  /\ is_dummy_pass' = FALSE
  /\ start_pass_dpost("JBUF_CRANK_DEST")
  /\ UNCHANGED <<inputVars, setting, idct_table, decompress_data, output_iMCU_row, main, upsample, whole_image,
                 shown, enable_quant>>

\* Any other pass starts at the top.
PreparePass ==
  /\ is_dummy_pass' = (NewQuantizer = "2pass")
  /\ colormap' = (colormap \/ NewQuantizer = "1pass")
  /\ start_pass_idct
  /\ start_output_pass
  /\ IF setting.raw_data_out THEN UNCHANGED <<upsample, post, main>>
     ELSE /\ start_pass_upsample
          /\ start_pass_dpost(IF is_dummy_pass' THEN "JBUF_SAVE_AND_PASS" ELSE "JBUF_PASS_THRU")
          /\ start_pass_main
  /\ UNCHANGED <<inputVars, setting, whole_image, enable_quant>>

SetUpPass ==
  /\ call = "output_pass_setup" /\ global_state # "PRESCAN"
  /\ IF NewQuantizer = "none" THEN ErrorExit("MODE_CHANGE")
     ELSE /\ PreparePass
          /\ output_scanline' = 0 /\ lines' = <<>>
          /\ global_state' = "PRESCAN"
          /\ UNCHANGED <<call, max_lines, premature>>

DummyPass ==
  /\ call = "output_pass_setup" /\ global_state = "PRESCAN"
  /\ is_dummy_pass /\ output_scanline < output_height
  /\ \E ret \in Retcodes \cup {"LINES"} :
       /\ ProcessData(ret, 0)
       /\ IF ret = "CONTINUE" \/ (ret = "LINES" /\ output_scanline' > output_scanline)
          THEN UNCHANGED call ELSE Return
  /\ UNCHANGED <<setting, idct_table, decompress_data, global_state, max_lines, master, premature>>

\* The statistics are in: choose the colours, and set up the pass that is shown.
EndDummyPass ==
  /\ call = "output_pass_setup" /\ global_state = "PRESCAN"
  /\ is_dummy_pass /\ output_scanline >= output_height
  /\ colormap' = TRUE
  /\ PrepareLastPass
  /\ output_scanline' = 0
  /\ UNCHANGED <<lines, control, premature>>

OutputReady ==
  /\ call = "output_pass_setup" /\ global_state = "PRESCAN"
  /\ ~ is_dummy_pass
  /\ global_state' = IF setting.raw_data_out THEN "RAW_OK" ELSE "SCANNING"
  /\ Return
  /\ UNCHANGED <<inputVars, outputVars, max_lines, master, premature>>

jpeg_read_scanlines(n) ==
  /\ Idle
  /\ global_state = "SCANNING"
  /\ output_scanline < output_height
  /\ max_lines' = n
  /\ Enter("jpeg_read_scanlines")
  /\ UNCHANGED <<inputVars, outputVars, global_state, master, premature>>

ReadScanlines ==
  /\ call = "jpeg_read_scanlines"
  /\ \E ret \in Retcodes \cup {"LINES"} :
       /\ ProcessData(ret, max_lines)
       /\ IF ret = "CONTINUE" THEN UNCHANGED <<call, max_lines>> ELSE Return /\ max_lines' = 0
  /\ UNCHANGED <<setting, idct_table, decompress_data, global_state, master, premature>>

jpeg_read_raw_data ==
  /\ Idle
  /\ global_state = "RAW_OK"
  /\ output_scanline < output_height
  /\ Enter("jpeg_read_raw_data")
  /\ UNCHANGED <<inputVars, outputVars, global_state, max_lines, master, premature>>

ReadRawData ==
  /\ call = "jpeg_read_raw_data"
  /\ \E ret \in Retcodes :
       /\ DecompressData(ret)
       /\ IF ret = "CONTINUE" THEN UNCHANGED call ELSE Return
       /\ IF ret = "ROW_COMPLETED" THEN Emit(Run(output_iMCU_row * lines_per_iMCU_row, lines_per_iMCU_row))
                                   ELSE UNCHANGED <<lines, output_scanline>>
  /\ UNCHANGED <<setting, idct_table, decompress_data, main, upsample, post, whole_image,
                 global_state, max_lines, master, premature>>

jpeg_finish_output ==
  /\ Idle
  /\ \/ global_state \in {"SCANNING", "RAW_OK"} /\ setting.buffered_image
     \/ global_state = "BUFPOST"
  /\ global_state' = "BUFPOST"
  /\ Enter("jpeg_finish_output")
  /\ UNCHANGED <<inputVars, outputVars, max_lines, master, premature>>

\* The scan that was shown is read to its end, so that the next pass has something new.
FinishOutput ==
  /\ call = "jpeg_finish_output"
  /\ IF input_scan_number <= output_scan_number /\ ~ eoi_reached
     THEN /\ \E ret \in Retcodes :
               /\ ConsumeInput(ret)
               /\ IF ret \in {"SUSPENDED", "ERROR"} THEN Return ELSE UNCHANGED call
          /\ UNCHANGED global_state
     ELSE /\ global_state' = "BUFIMAGE"
          /\ Return
          /\ UNCHANGED inputVars
  /\ UNCHANGED <<outputVars, max_lines, master, premature>>

\* Between passes the application may ask for a new choice of colours.
ChangeQuantizer ==
  /\ Idle
  /\ global_state = "BUFIMAGE" /\ setting.quantize_colors
  /\ setting' = [setting EXCEPT !.two_pass_quantize = ~ @]
  /\ colormap' = FALSE
  /\ UNCHANGED <<inputVars, idct_table, decompress_data, output_iMCU_row, main, upsample, post, whole_image,
                 output_scanline, lines, shown, control, is_dummy_pass, enable_quant, premature>>

\* At any time data may be taken in ahead of need.
jpeg_consume_input ==
  \/ StartHeader("jpeg_consume_input")
  \/ ResumeHeader("jpeg_consume_input")
  \/ /\ Idle
     /\ global_state \notin {"START", "INHEADER", "READY"}
     /\ Enter("jpeg_consume_input")
     /\ UNCHANGED <<inputVars, outputVars, global_state, max_lines, master, premature>>

TakeInput ==
  /\ call = "jpeg_consume_input"
  /\ \E ret \in Retcodes :
       /\ ConsumeInput(ret)
       /\ IF ret = "CONTINUE" THEN UNCHANGED call ELSE Return
       /\ IF ret = "REACHED_SOS" /\ global_state = "INHEADER"
          THEN global_state' = "READY" /\ setting' = default_decompress_parms
          ELSE UNCHANGED <<global_state, setting>>
  /\ UNCHANGED <<idct_table, decompress_data, output_iMCU_row, main, upsample, post, whole_image,
                 output_scanline, lines, shown, max_lines, master, premature>>

-----------------------------------------------------------------------------
(* Finishing. *)

jpeg_finish_decompress ==
  /\ Idle
  /\ IF global_state \in {"SCANNING", "RAW_OK"} /\ ~ setting.buffered_image /\ output_scanline < output_height
     THEN ErrorExit("TOO_LITTLE_DATA")
     ELSE /\ \/ global_state \in {"SCANNING", "RAW_OK"} /\ ~ setting.buffered_image
             \/ global_state \in {"BUFIMAGE", "STOPPING"}
          /\ global_state' = "STOPPING"
          /\ Enter("jpeg_finish_decompress")
          /\ UNCHANGED <<inputVars, outputVars, max_lines, master, premature>>

FinishDecompress ==
  /\ call = "jpeg_finish_decompress"
  /\ IF ~ eoi_reached
     THEN /\ \E ret \in Retcodes :
               /\ ConsumeInput(ret)
               /\ IF ret \in {"SUSPENDED", "ERROR"} THEN Return ELSE UNCHANGED call
          /\ UNCHANGED global_state
     ELSE /\ jpeg_abort
          /\ Return
          /\ UNCHANGED inputVars
  /\ UNCHANGED <<outputVars, max_lines, master, premature>>

-----------------------------------------------------------------------------
(* The library, and an application that keeps to its documentation. *)

\* What goes on inside a call.
LibraryStep(require_image) ==
  \/ ReadHeader
  \/ EndOfTables(require_image)
  \/ TakeInput
  \/ AbsorbScans
  \/ Absorbed
  \/ SetUpPass
  \/ DummyPass
  \/ EndDummyPass
  \/ OutputReady
  \/ ReadScanlines
  \/ ReadRawData
  \/ FinishOutput
  \/ FinishDecompress

\* The states in which each call is legal.
LegalStates(fn) ==
  CASE fn = "jpeg_read_header" -> {"START", "INHEADER"}
    [] fn = "jpeg_start_decompress" -> {"READY", "PRELOAD", "PRESCAN"}
    [] fn = "jpeg_read_scanlines" -> {"SCANNING"}
    [] fn = "jpeg_finish_decompress" -> {"SCANNING", "RAW_OK", "BUFIMAGE", "STOPPING"}

BadState(fn) == Idle /\ global_state \notin LegalStates(fn) /\ ErrorExit("BAD_STATE")

DecompressInit ==
  /\ InputInit
  /\ OutputInit
  /\ setting = default_decompress_parms
  /\ global_state = "START"
  /\ call = NoCall /\ max_lines = 0
  /\ is_dummy_pass = FALSE /\ colormap = FALSE /\ enable_quant = {}
  /\ premature = FALSE

Application ==
  \/ jpeg_read_header
  \/ jpeg_consume_input
  \/ AdjustParameters
  \/ jpeg_start_decompress
  \/ \E n \in 0..(input_scan_number + 1) : jpeg_start_output(n)
  \/ \E n \in 1..3 : jpeg_read_scanlines(n)
  \/ jpeg_read_raw_data
  \/ jpeg_finish_output
  \/ ChangeQuantizer
  \/ jpeg_finish_decompress

Init ==
  /\ stream \in Streams
  /\ whole = FALSE
  /\ DecompressInit

Next == LibraryStep(FALSE) \/ Application

\* A call that was made is carried out; the application may stop calling.
Spec == Init /\ [][Next]_decompressVars /\ WF_decompressVars(LibraryStep(FALSE))

-----------------------------------------------------------------------------
(* Properties *)

\* The lines an application is given in a pass are those of the picture, each once and from the
\* top: output_scanline counts them, whatever the sizes of its buffers, the points at which data
\* ran out, the scale, and the upsampler, strip or stored picture that they come through.  (Not where
\* strips are taller than what is left of a picture that is quantized in two passes: there the second
\* pass runs over the bottom, see StopsAtTheBottom.)
LinesInOrder ==
  global_state \in {"SCANNING", "RAW_OK"} =>
    /\ lines = [i \in 1..output_scanline |-> i - 1]
    /\ setting.raw_data_out \/ output_scanline <= output_height

\* The second of two passes ends at the bottom of the picture; its upsampler has nothing to do with it.
StopsAtTheBottom == global_state = "SCANNING" => output_scanline <= output_height

\* When the last line was given out, the source's data has been read as well: what is left is for
\* the marker reader, and jpeg_finish_decompress never waits for data that only output could read.
StoppingCanFinish == global_state = "STOPPING" => consume_input # "dummy_consume_data"

\* Output never gets ahead of the input: an iMCU row goes out when the scan asked for has begun,
\* and if that scan is still coming in, when all of its blocks in that row have; to estimate
\* coefficients from the DC values around, those of the row below as well.
OutputKeepsBehindInput ==
  [][ output_iMCU_row' = output_iMCU_row + 1 /\ coef # <<>> =>
        /\ input_scan_number >= output_scan_number
        /\ input_scan_number = output_scan_number =>
             \A c \in ScanComps(scan) :
               /\ \A b \in BlockRows(c, output_iMCU_row) : coef[c][b] = input_scan_number
               /\ decompress_data = "decompress_smooth_data" /\ scan.Ss = 0 =>
                    \A b \in BlockRows(c, output_iMCU_row + 1) : coef[c][b] = input_scan_number
    ]_decompressVars

\* The test by which the loop of libjpeg.txt knows that a pass was the last one needed: the input
\* is complete and the scan shown is the last.
LastPassDone ==
  /\ global_state = "BUFIMAGE" /\ call = NoCall
  /\ eoi_reached /\ input_scan_number = output_scan_number
  /\ Len(shown) = total_iMCU_rows

\* All rows were made from the coefficients and tables that the picture ends up with.
ShowsFinalPicture ==
  /\ idct_table = quant_table
  /\ \A r \in DOMAIN shown, c \in Comps : \A b \in BlockRows(c, r - 1) : shown[r][c][b] = coef[c][b]

\* When that test says so, the pass showed the final picture, though it may have begun long before
\* the end, and even before the scan that it shows.  Two passes are left out, of which it is not
\* true (RequestedPassIsFinal): one asked for a scan to come while a component had no table yet, and
\* one for which jpeg_start_output, after it ran out of data, was called again for another scan
\* though rows had been shown or a component had no table.
InSyncPassIsFinal == LastPassDone /\ ~ premature => ShowsFinalPicture

\* What libjpeg.txt says of every pass: asking for a scan to come is like waiting for the whole file
\* (1967-1973, 2056-2058), and jddctmgr.c that a component without a table yet does no harm, for its
\* coefficients are zero (262-265).  But they need not be by the time that they are used.
RequestedPassIsFinal == LastPassDone => ShowsFinalPicture

\* The table saved for a component is the one that was in its slot when its first scan began, and
\* its inverse DCT is built with no other, whatever tables come between scans.
FirstTableKept ==
  [][ \A c \in DOMAIN quant_table : c \in DOMAIN quant_table' /\ quant_table[c] # None =>
        /\ quant_table'[c] = quant_table[c]
        /\ c \in DOMAIN idct_table' /\ idct_table'[c] # idct_table[c] => idct_table'[c] \in {None, quant_table[c]}
    ]_decompressVars

\* Every call returns: to wait for data it goes back to the application, and it does not wait for
\* a scan that the datastream does not have.
CallsReturn == (call # NoCall) ~> (call = NoCall)
=============================================================================
