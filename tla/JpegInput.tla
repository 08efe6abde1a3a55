------------------------------ MODULE JpegInput ------------------------------
(***************************************************************************)
(* The input side of libjpeg's decompressor: the marker reader             *)
(* (jdmarker.c), the input controller (jdinput.c) and the half of the      *)
(* coefficient controller that takes in data (jdcoefct.c).                 *)
(*                                                                         *)
(* A data source holds a sequence of units: a marker with its parameters,  *)
(* or the data of one MCU row.  Any read may find that the rest has not    *)
(* arrived yet.  Tables are told apart by a version, block rows by the     *)
(* last scan that was decoded into them.                                   *)
(***************************************************************************)
EXTENDS Integers, Sequences, FiniteSets

CONSTANT SLOTS      \* the slots of quantization tables, and of Huffman tables

VARIABLES
  stream,               \* what the data source holds
  whole,                \* all of it is there already
  pos,                  \* the unit to read next
  unread_marker,        \* its marker code has been read, its parameters have not
  saw_SOI, saw_SOF,
  quant_tbl, huff_tbl,  \* the tables read last into the slots: a version, or None
  frame,                \* the parameters of the SOF marker
  scan,                 \* the parameters of the SOS marker read last
  block_size,
  input_scan_number, output_scan_number,
  inheaders,            \* 1 before the first scan, 2 after a pseudo SOS, 0 later
  has_multiple_scans,
  eoi_reached,
  consume_input,        \* the method the input is read by
  quant_table,          \* the tables saved for the components
  coef_bits,            \* what scans have begun to bring of the components' coefficients
  coef,                 \* the scan decoded last into each block row of the components
  input_iMCU_row,
  MCU_vert_offset,      \* the MCU rows decoded of the current iMCU row
  error                 \* the code of the error that ended the last call

source == <<stream, whole>>
reader == <<pos, unread_marker>>
seen == <<saw_SOI, saw_SOF, frame>>
tables == <<quant_tbl, huff_tbl>>
setup == <<block_size, has_multiple_scans, quant_table>>
pass == <<consume_input, coef_bits, input_iMCU_row, MCU_vert_offset>>
scans == <<scan, input_scan_number, inheaders>>
progress == <<eoi_reached, output_scan_number>>

inputVars == <<source, reader, seen, tables, setup, pass, scans, progress, coef, error>>

None == 0
DCTSIZE == 8
NoFrame == [kind |-> "none", height |-> 0, comps |-> <<>>]
D_MAX_BLOCKS_IN_MCU == 10
MAX_COMPS_IN_SCAN == 4
NoScan == [comps |-> <<>>, th |-> 0, Ss |-> 0, Se |-> 0, Ah |-> 0, Al |-> 0]
NoError == "none"

\* What a step of reading input comes back with; CONTINUE is a step inside a call.
Retcodes == {"CONTINUE", "SUSPENDED", "REACHED_SOS", "REACHED_EOI", "ROW_COMPLETED", "SCAN_COMPLETED", "ERROR"}

-----------------------------------------------------------------------------
(* Dimensions. *)

jdiv_round_up(a, b) == (a + b - 1) \div b

Comps == DOMAIN frame.comps
Largest(S) == CHOOSE m \in S : \A n \in S : n <= m

max_h_samp_factor == Largest({frame.comps[c].h : c \in Comps})
max_v_samp_factor == Largest({frame.comps[c].v : c \in Comps})

progressive_mode == frame.kind = "SOF2"

\* The size of a block: 8, unless a marker's Se says that the blocks have fewer or more
\* coefficients; None when no size has that many.
BlockSize(sos) ==
  IF frame.kind = "SOF0" \/ (progressive_mode /\ sos.comps # <<>>) THEN DCTSIZE
  ELSE IF \E n \in 1..16 : n * n - 1 = sos.Se THEN CHOOSE n \in 1..16 : n * n - 1 = sos.Se
  ELSE None

total_iMCU_rows == jdiv_round_up(frame.height, max_v_samp_factor * block_size)

height_in_blocks(c) == jdiv_round_up(frame.height * frame.comps[c].v, max_v_samp_factor * block_size)

\* The block rows of component c in iMCU row r that are not padding.
BlockRows(c, r) ==
  {b \in 0..(height_in_blocks(c) - 1) : b \div frame.comps[c].v = r}

-----------------------------------------------------------------------------
(* The data source. *)

Unit == stream[pos]
HasUnit == pos <= Len(stream)
MaySuspend == ~ whole \/ ~ HasUnit
AtMarker == Unit.t # "MCU"

-----------------------------------------------------------------------------
(* Markers.  A handler reads its parameters and lets go of the marker. *)

Fail(ret, e) == ret = "ERROR" /\ error' = e /\ UNCHANGED <<source, reader, seen, tables, setup, pass, scans, progress, coef>>

PastMarker == pos' = pos + 1 /\ unread_marker' = FALSE

\* The marker that must come first.
first_marker(ret) ==
  /\ ~ unread_marker /\ ~ saw_SOI /\ HasUnit
  /\ IF Unit.t # "SOI" THEN Fail(ret, "NO_SOI")
     ELSE /\ ret = "CONTINUE"
          /\ unread_marker' = TRUE
          /\ UNCHANGED <<source, pos, seen, tables, setup, pass, scans, progress, coef, error>>

\* The next marker; data on the way to it is discarded for good.
next_marker(ret) ==
  /\ ~ unread_marker /\ saw_SOI /\ HasUnit
  /\ ret = "CONTINUE"
  /\ IF AtMarker THEN unread_marker' = TRUE /\ UNCHANGED pos
                 ELSE pos' = pos + 1 /\ UNCHANGED unread_marker
  /\ UNCHANGED <<source, seen, tables, setup, pass, scans, progress, coef, error>>

Reading(type) == unread_marker /\ HasUnit /\ Unit.t = type

get_soi(ret) ==
  /\ Reading("SOI")
  /\ IF saw_SOI THEN Fail(ret, "SOI_DUPLICATE")
     ELSE /\ ret = "CONTINUE"
          /\ PastMarker
          /\ saw_SOI' = TRUE
          /\ UNCHANGED <<source, saw_SOF, frame, tables, setup, pass, scans, progress, coef, error>>

get_sof(ret) ==
  /\ Reading("SOF")
  /\ IF saw_SOF THEN Fail(ret, "SOF_DUPLICATE")
     ELSE /\ ret = "CONTINUE"
          /\ PastMarker
          /\ saw_SOF' = TRUE
          /\ frame' = [kind |-> Unit.kind, height |-> Unit.height, comps |-> Unit.comps]
          /\ UNCHANGED <<source, saw_SOI, tables, setup, pass, scans, progress, coef, error>>

get_dqt(ret) ==
  /\ Reading("DQT")
  /\ ret = "CONTINUE"
  /\ PastMarker
  /\ quant_tbl' = [quant_tbl EXCEPT ![Unit.slot] = Unit.version]
  /\ UNCHANGED <<source, seen, huff_tbl, setup, pass, scans, progress, coef, error>>

get_dht(ret) ==
  /\ Reading("DHT")
  /\ ret = "CONTINUE"
  /\ PastMarker
  /\ huff_tbl' = [huff_tbl EXCEPT ![Unit.slot] = Unit.version]
  /\ UNCHANGED <<source, seen, quant_tbl, setup, pass, scans, progress, coef, error>>

skip_variable(ret) ==
  /\ Reading("COM")
  /\ ret = "CONTINUE"
  /\ PastMarker
  /\ UNCHANGED <<source, seen, tables, setup, pass, scans, progress, coef, error>>

\* A marker that is reserved, or of a process that is not supported.
UnknownMarker(ret) == Reading("JPG") /\ Fail(ret, "UNKNOWN_MARKER")

\* What is wrong with an SOS marker by itself.
SosError(sos) ==
  IF ~ saw_SOF THEN "SOS_NO_SOF"
  ELSE IF Len(sos.comps) > MAX_COMPS_IN_SCAN \/ (sos.comps = <<>> /\ ~ progressive_mode) THEN "BAD_LENGTH"
  ELSE IF \E i \in DOMAIN sos.comps : sos.comps[i] \notin Comps THEN "BAD_COMPONENT_ID"
  ELSE NoError

-----------------------------------------------------------------------------
(* The start of a scan. *)

ScanComps(sos) == {sos.comps[i] : i \in DOMAIN sos.comps}

\* The last coefficient of a block.
lim_Se == (IF block_size < DCTSIZE THEN block_size * block_size ELSE DCTSIZE * DCTSIZE) - 1

blocks_in_MCU(sos) ==
  LET upTo[i \in 0..Len(sos.comps)] ==
        IF i = 0 THEN 0 ELSE upTo[i - 1] + frame.comps[sos.comps[i]].h * frame.comps[sos.comps[i]].v
  IN  upTo[Len(sos.comps)]

\* The parameters of a progressive scan: DC alone, or a band of one component; a refinement brings
\* one more bit.
BadProgression(sos) ==
  \/ IF sos.Ss = 0 THEN sos.Se # 0 ELSE sos.Se < sos.Ss \/ sos.Se > lim_Se \/ Len(sos.comps) # 1
  \/ sos.Ah # 0 /\ sos.Al # sos.Ah - 1
  \/ sos.Al > 13

NeedsTable(sos) == ~ (progressive_mode /\ sos.Ss = 0 /\ sos.Ah # 0)

\* What keeps the data of a scan from being decoded.
ScanError(sos, saved) ==
  IF Len(sos.comps) > 1 /\ blocks_in_MCU(sos) > D_MAX_BLOCKS_IN_MCU THEN "BAD_MCU_SIZE"
  ELSE IF \E c \in ScanComps(sos) : saved[c] = None /\ quant_tbl[frame.comps[c].tq] = None THEN "NO_QUANT_TABLE"
  ELSE IF progressive_mode /\ BadProgression(sos) THEN "BAD_PROGRESSION"
  ELSE IF NeedsTable(sos) /\ huff_tbl[sos.th] = None THEN "NO_HUFF_TABLE"
  ELSE NoError

\* Mutant: the table is taken again by every scan.
LatchAgain(sos, saved) ==
  [c \in DOMAIN saved |-> IF c \in ScanComps(sos) THEN quant_tbl[frame.comps[c].tq] ELSE saved[c]]

\* Each component of the scan keeps the table it has, or takes the one its slot has now.
latch_quant_tables(sos, saved) ==
  [c \in DOMAIN saved |-> IF c \in ScanComps(sos) /\ saved[c] = None THEN quant_tbl[frame.comps[c].tq]
                          ELSE saved[c]]

Band(sos) == IF sos.Ss = 0 THEN "DC" ELSE "AC"

\* Starts the scan of an SOS marker, given the tables saved and the coefficients begun so far
\* and the method that will take in its data.
start_input_pass(sos, saved, bits, method) ==
  /\ quant_table' = latch_quant_tables(sos, saved)
  /\ coef_bits' = [c \in DOMAIN bits |-> IF c \in ScanComps(sos) THEN bits[c] \cup {Band(sos)} ELSE bits[c]]
  /\ input_iMCU_row' = 0
  /\ MCU_vert_offset' = 0
  /\ consume_input' = method

\* The end of the headers: the size of the picture in blocks.
initial_setup(sos) ==
  /\ block_size' = BlockSize(sos)
  /\ has_multiple_scans' = (Len(sos.comps) < Len(frame.comps) \/ progressive_mode)
  /\ quant_table' = [c \in Comps |-> None]

SosRead(sos) ==
  /\ PastMarker
  /\ scan' = [comps |-> sos.comps, th |-> sos.th, Ss |-> sos.Ss, Se |-> sos.Se, Ah |-> sos.Ah, Al |-> sos.Al]
  /\ input_scan_number' = input_scan_number + (IF sos.comps = <<>> THEN 0 ELSE 1)
  /\ UNCHANGED <<source, seen, tables, progress, coef, error>>

\* An SOS marker that comes before any data: the first scan, or a pseudo marker ahead of it.
\* The scan is started later, by jpeg_start_decompress.
FirstSos(ret) ==
  /\ Reading("SOS") /\ inheaders # 0
  /\ IF SosError(Unit) # NoError THEN Fail(ret, SosError(Unit))
     ELSE IF inheaders = 1 /\ BlockSize(Unit) = None THEN Fail(ret, "BAD_PROGRESSION")
     ELSE /\ SosRead(Unit)
          /\ IF inheaders = 1 THEN initial_setup(Unit) ELSE UNCHANGED setup
          /\ IF Unit.comps = <<>> THEN ret = "CONTINUE" /\ inheaders' = 2
                                  ELSE ret = "REACHED_SOS" /\ inheaders' = 0
          /\ UNCHANGED pass

\* A later one, which starts its scan at once.
LaterSos(ret) ==
  /\ Reading("SOS") /\ inheaders = 0
  /\ IF SosError(Unit) # NoError THEN Fail(ret, SosError(Unit))
     ELSE IF ~ has_multiple_scans THEN Fail(ret, "EOI_EXPECTED")
     ELSE IF Unit.comps = <<>>
     THEN /\ SosRead(Unit)
          /\ ret = "CONTINUE"
          /\ UNCHANGED <<inheaders, setup, pass>>
     ELSE IF ScanError(Unit, quant_table) # NoError THEN Fail(ret, ScanError(Unit, quant_table))
     ELSE /\ SosRead(Unit)
          /\ start_input_pass(Unit, quant_table, coef_bits, "consume_data")
          /\ ret = "REACHED_SOS"
          /\ UNCHANGED <<inheaders, block_size, has_multiple_scans>>

\* Mutant: a scan that does not come is still waited for.
ReachEoiUnclipped(ret) ==
  /\ Reading("EOI")
  /\ PastMarker
  /\ eoi_reached' = TRUE
  /\ IF inheaders # 0 /\ saw_SOF THEN ret = "ERROR" /\ error' = "SOF_NO_SOS"
                               ELSE ret = "REACHED_EOI" /\ UNCHANGED error
  /\ UNCHANGED <<source, seen, tables, setup, pass, scans, output_scan_number, coef>>

\* The end of the datastream.  No more than the scans that have come can be asked for.
ReachEoi(ret) ==
  /\ Reading("EOI")
  /\ PastMarker
  /\ eoi_reached' = TRUE
  /\ IF inheaders # 0 /\ saw_SOF
     THEN ret = "ERROR" /\ error' = "SOF_NO_SOS" /\ UNCHANGED output_scan_number
     ELSE /\ ret = "REACHED_EOI"
          /\ output_scan_number' = IF inheaders = 0 /\ output_scan_number > input_scan_number
                                   THEN input_scan_number ELSE output_scan_number
          /\ UNCHANGED error
  /\ UNCHANGED <<source, seen, tables, setup, pass, scans, coef>>

consume_markers(ret) ==
  IF eoi_reached THEN ret = "REACHED_EOI" /\ UNCHANGED inputVars
  ELSE \/ MaySuspend /\ ret = "SUSPENDED" /\ UNCHANGED inputVars
       \/ first_marker(ret)
       \/ next_marker(ret)
       \/ get_soi(ret)
       \/ get_sof(ret)
       \/ get_dqt(ret)
       \/ get_dht(ret)
       \/ skip_variable(ret)
       \/ UnknownMarker(ret)
       \/ FirstSos(ret)
       \/ LaterSos(ret)
       \/ ReachEoi(ret)

-----------------------------------------------------------------------------
(* The data of a scan. *)

MCU_height(c) == IF Len(scan.comps) = 1 THEN 1 ELSE frame.comps[c].v

\* A scan of one component has its blocks row by row, without the padding at the bottom.
MCU_rows_per_iMCU_row ==
  IF Len(scan.comps) > 1 THEN 1 ELSE Cardinality(BlockRows(scan.comps[1], input_iMCU_row))

\* The block rows of component c that the next MCU row fills.
FilledRows(c) == {b \in DOMAIN coef[c] :
  LET first == input_iMCU_row * frame.comps[c].v + MCU_vert_offset
  IN  first <= b /\ b < first + MCU_height(c)}

\* Counts an MCU row, or an iMCU row, or the scan, as done.
AdvanceRow(ret) ==
  LET inside == MCU_vert_offset + 1 < MCU_rows_per_iMCU_row
      last == input_iMCU_row + 1 = total_iMCU_rows
  IN  /\ MCU_vert_offset' = IF inside THEN MCU_vert_offset + 1 ELSE 0
      /\ input_iMCU_row' = IF inside THEN input_iMCU_row ELSE input_iMCU_row + 1
      /\ consume_input' = IF ~ inside /\ last THEN "consume_markers" ELSE consume_input
      /\ ret = IF inside THEN "CONTINUE" ELSE IF last THEN "SCAN_COMPLETED" ELSE "ROW_COMPLETED"

\* Mutant: data that a marker cut short is waited for.
DecodeRowWaits(ret) ==
  \/ /\ unread_marker \/ MaySuspend \/ (HasUnit /\ AtMarker)
     /\ ret = "SUSPENDED"
     /\ UNCHANGED inputVars
  \/ /\ ~ unread_marker /\ HasUnit /\ ~ AtMarker
     /\ pos' = pos + 1
     /\ AdvanceRow(ret)
     /\ coef' = [c \in DOMAIN coef |->
                  IF c \notin ScanComps(scan) THEN coef[c]
                  ELSE [b \in DOMAIN coef[c] |-> IF b \in FilledRows(c) THEN input_scan_number ELSE coef[c][b]]]
     /\ UNCHANGED <<source, unread_marker, seen, tables, setup, coef_bits, scans, progress, error>>

\* Decodes an MCU row into the components' arrays, if there are any.  Data that a marker cut
\* short is made up, and the marker is left for the marker reader.
DecodeRow(ret) ==
  \/ /\ ~ unread_marker /\ MaySuspend
     /\ ret = "SUSPENDED"
     /\ UNCHANGED inputVars
  \/ /\ HasUnit
     /\ IF unread_marker THEN UNCHANGED reader
        ELSE IF AtMarker THEN unread_marker' = TRUE /\ UNCHANGED pos
        ELSE pos' = pos + 1 /\ UNCHANGED unread_marker
     /\ AdvanceRow(ret)
     /\ coef' = [c \in DOMAIN coef |->
                  IF c \notin ScanComps(scan) THEN coef[c]
                  ELSE [b \in DOMAIN coef[c] |-> IF b \in FilledRows(c) THEN input_scan_number ELSE coef[c][b]]]
     /\ UNCHANGED <<source, seen, tables, setup, coef_bits, scans, progress, error>>

\* The method that stands in for the above when output has to decode the data itself.
dummy_consume_data(ret) == ret = "SUSPENDED" /\ UNCHANGED inputVars

\* One step of reading input, whatever comes next in it.
ConsumeInput(ret) ==
  \/ consume_input = "consume_markers" /\ consume_markers(ret)
  \/ consume_input = "consume_data" /\ DecodeRow(ret)
  \/ consume_input = "dummy_consume_data" /\ dummy_consume_data(ret)

-----------------------------------------------------------------------------
(* A new decompressor, and a new datastream. *)

InputInit ==
  /\ pos = 1 /\ unread_marker = FALSE
  /\ saw_SOI = FALSE /\ saw_SOF = FALSE
  /\ quant_tbl = [s \in SLOTS |-> None] /\ huff_tbl = [s \in SLOTS |-> None]
  /\ frame = NoFrame /\ scan = NoScan
  /\ block_size = None
  /\ input_scan_number = 0 /\ output_scan_number = 0
  /\ inheaders = 1
  /\ has_multiple_scans = FALSE /\ eoi_reached = FALSE
  /\ consume_input = "consume_markers"
  /\ quant_table = <<>> /\ coef_bits = <<>> /\ coef = <<>>
  /\ input_iMCU_row = 0 /\ MCU_vert_offset = 0
  /\ error = NoError

\* Before the first byte of a datastream is read; the tables of the slots stay.
reset_input_controller ==
  /\ unread_marker' = FALSE
  /\ saw_SOI' = FALSE /\ saw_SOF' = FALSE
  /\ frame' = NoFrame /\ scan' = NoScan
  /\ input_scan_number' = 0
  /\ inheaders' = 1
  /\ has_multiple_scans' = FALSE /\ eoi_reached' = FALSE
  /\ consume_input' = "consume_markers"
  /\ quant_table' = <<>> /\ coef_bits' = <<>> /\ coef' = <<>>
  /\ UNCHANGED <<source, pos, tables, block_size, output_scan_number, input_iMCU_row, MCU_vert_offset, error>>
=============================================================================
