------------------------- MODULE JpegDecompressProofs -------------------------
(***************************************************************************)
(* Proofs about JpegDecompress, for every data source, every choice of     *)
(* parameters and every order of calls:                                    *)
(*  - the quantization tables of the components (FirstTable);              *)
(*  - rows go out only behind the data they show (InputFirst);             *)
(*  - the last pass in step with the input is the final picture            *)
(*    (LastPassIsFinal);                                                   *)
(*  - after the last line, no data is left that only output could read     *)
(*    (CanFinish);                                                         *)
(*  - the lines given out are those of the picture, in order               *)
(*    (PictureInOrder).                                                    *)
(***************************************************************************)
EXTENDS JpegDecompress, FiniteSetTheorems, TLAPS

\* Tables are saved from the first scan on; before, no component has one.
NoTableBeforeScans == inheaders = 1 => DOMAIN quant_table = {}

\* The tables that components have stay, or are forgotten with the components.
TablesKept ==
  \A c \in DOMAIN quant_table : c \in DOMAIN quant_table' /\ quant_table[c] # None =>
    quant_table'[c] = quant_table[c]

\* What a step that reads input does to the tables.
TableStep == NoTableBeforeScans' /\ TablesKept

-----------------------------------------------------------------------------

\* No table is lost or saved by a step that leaves the set-up of the picture alone.
LEMMA TablesUnchanged ==
  ASSUME NoTableBeforeScans, UNCHANGED quant_table, UNCHANGED inheaders
  PROVE  TableStep
BY DEF NoTableBeforeScans, TableStep, TablesKept

\* Starting a scan saves tables only for components that have none.
LEMMA LatchKeeps ==
  ASSUME NoTableBeforeScans, NEW sos, quant_table' = latch_quant_tables(sos, quant_table), UNCHANGED inheaders
  PROVE  TableStep
<1>1. DOMAIN quant_table' = DOMAIN quant_table
  BY DEF latch_quant_tables
<1>2. \A c \in DOMAIN quant_table : quant_table[c] # None => quant_table'[c] = quant_table[c]
  BY DEF latch_quant_tables
<1> QED
  BY <1>1, <1>2 DEF NoTableBeforeScans, TableStep, TablesKept

\* An error leaves everything but its code alone.
LEMMA FailKeeps ==
  ASSUME NoTableBeforeScans, NEW ret, NEW e, Fail(ret, e)
  PROVE  TableStep
<1>1. UNCHANGED quant_table /\ UNCHANGED inheaders
  BY DEF Fail, setup, scans
<1> QED
  BY <1>1, TablesUnchanged

\* The first SOS marker makes room for the tables; it comes before any is saved.
LEMMA FirstSosKeeps ==
  ASSUME NoTableBeforeScans, NEW ret, FirstSos(ret)
  PROVE  TableStep
<1>1. CASE \E e : Fail(ret, e)
  BY <1>1, FailKeeps
<1>2. CASE inheaders = 1 /\ initial_setup(Unit) /\ inheaders' \in {0, 2}
  BY <1>2 DEF NoTableBeforeScans, TableStep, TablesKept
<1>3. CASE UNCHANGED quant_table /\ inheaders' \in {0, 2}
  BY <1>3 DEF NoTableBeforeScans, TableStep, TablesKept
<1> QED
  BY <1>1, <1>2, <1>3 DEF FirstSos, setup

\* A later one starts its scan, or is in error, or is a pseudo marker.
LEMMA LaterSosKeeps ==
  ASSUME NoTableBeforeScans, NEW ret, LaterSos(ret)
  PROVE  TableStep
<1>1. CASE \E e : Fail(ret, e)
  BY <1>1, FailKeeps
<1>2. CASE UNCHANGED <<inheaders, setup>>
  BY <1>2, TablesUnchanged DEF setup
<1>3. CASE quant_table' = latch_quant_tables(Unit, quant_table) /\ UNCHANGED inheaders
  BY <1>3, LatchKeeps
<1> QED
  BY <1>1, <1>2, <1>3 DEF LaterSos, start_input_pass

\* No step of the marker reader does more than that.
LEMMA MarkersKeep ==
  ASSUME NoTableBeforeScans, NEW ret, consume_markers(ret)
  PROVE  TableStep
<1>1. CASE UNCHANGED <<setup, scans>>
  BY <1>1, TablesUnchanged DEF setup, scans
<1>2. CASE \E e : Fail(ret, e)
  BY <1>2, FailKeeps
<1>3. CASE FirstSos(ret)
  BY <1>3, FirstSosKeeps
<1>4. CASE LaterSos(ret)
  BY <1>4, LaterSosKeeps
<1>5. CASE UNCHANGED inputVars
  BY <1>1, <1>5 DEF inputVars
<1>6. CASE first_marker(ret) \/ next_marker(ret) \/ UnknownMarker(ret)
  BY <1>1, <1>2, <1>6 DEF first_marker, next_marker, UnknownMarker
<1>7. CASE get_soi(ret) \/ get_sof(ret)
  BY <1>1, <1>2, <1>7 DEF get_soi, get_sof
<1>8. CASE get_dqt(ret) \/ get_dht(ret) \/ skip_variable(ret) \/ ReachEoi(ret)
  BY <1>1, <1>8 DEF get_dqt, get_dht, skip_variable, ReachEoi
<1> QED
  BY <1>3, <1>4, <1>5, <1>6, <1>7, <1>8 DEF consume_markers

\* Nor does the decoder of the data.
LEMMA DataKeeps ==
  ASSUME NoTableBeforeScans, NEW ret, DecodeRow(ret)
  PROVE  TableStep
<1>1. UNCHANGED <<setup, scans>>
  BY DEF DecodeRow, inputVars
<1> QED
  BY <1>1, TablesUnchanged DEF setup, scans

\* Every step that reads input keeps the tables.
LEMMA InputKeeps ==
  ASSUME NoTableBeforeScans, NEW ret, ConsumeInput(ret)
  PROVE  TableStep
<1>1. CASE UNCHANGED inputVars
  BY <1>1, TablesUnchanged DEF inputVars, setup, scans
<1> QED
  BY <1>1, MarkersKeep, DataKeeps DEF ConsumeInput, dummy_consume_data

\* So does every step that hands out an iMCU row.
LEMMA OutputKeeps ==
  ASSUME NoTableBeforeScans, NEW ret, DecompressData(ret)
  PROVE  TableStep
<1>1. CASE UNCHANGED inputVars
  BY <1>1, TablesUnchanged DEF inputVars, setup, scans
<1>2. CASE \E r \in Retcodes : DecodeRow(r)
  BY <1>2, DataKeeps
<1>3. CASE \E r \in Retcodes : ConsumeInput(r)
  BY <1>3, InputKeeps
<1> QED
  BY <1>1, <1>2, <1>3 DEF DecompressData, decompress_onepass, DecompressFromArrays

\* And every step that gives out lines.
LEMMA LinesKeep ==
  ASSUME NoTableBeforeScans, NEW ret, NEW n, ProcessData(ret, n)
  PROVE  TableStep
<1>1. CASE UNCHANGED inputVars
  BY <1>1, TablesUnchanged DEF inputVars, setup, scans
<1>2. CASE \E r \in Retcodes : DecompressData(r)
  BY <1>2, OutputKeeps
<1> QED
  BY <1>1, <1>2 DEF ProcessData

-----------------------------------------------------------------------------

\* What any step does to the tables and to the inverse DCTs that are built with them.
IdctStep ==
  \/ UNCHANGED idct_table
  \/ idct_table' = [c \in Comps |-> None]
  \/ idct_table' = [c \in Comps |-> IF idct_table[c] = None THEN quant_table[c] ELSE idct_table[c]]

\* A step inside a call keeps the tables, and builds inverse DCTs with no others.
LEMMA LibraryStepKeeps ==
  ASSUME NoTableBeforeScans, NEW require_image, LibraryStep(require_image)
  PROVE  TableStep /\ IdctStep
<1>1. CASE (\E ret \in Retcodes : ConsumeInput(ret)) /\ UNCHANGED idct_table
  BY <1>1, InputKeeps DEF IdctStep
<1>2. CASE UNCHANGED <<quant_table, inheaders>> /\ IdctStep
  BY <1>2, TablesUnchanged
<1>3. CASE \E e : ErrorExit(e)
  BY <1>2, <1>3 DEF ErrorExit, setup, scans, outputVars, IdctStep
<1>4. CASE ReadHeader \/ TakeInput \/ AbsorbScans \/ FinishOutput \/ FinishDecompress
  BY <1>1, <1>2, <1>4 DEF ReadHeader, TakeInput, AbsorbScans, FinishOutput, FinishDecompress, inputVars, outputVars,
     setup, scans, IdctStep
<1>5. CASE EndOfTables(require_image) \/ OutputReady
  BY <1>2, <1>3, <1>5 DEF EndOfTables, OutputReady, inputVars, outputVars, setup, scans, IdctStep
<1>6. CASE Absorbed
  BY <1>2, <1>6 DEF Absorbed, outputVars, setup, scans, IdctStep
<1>7. CASE SetUpPass
  BY <1>2, <1>3, <1>7 DEF SetUpPass, PreparePass, start_pass_idct, inputVars, setup, scans, IdctStep
<1>8. CASE EndDummyPass
  BY <1>2, <1>8 DEF EndDummyPass, PrepareLastPass, inputVars, setup, scans, IdctStep
<1>9. CASE DummyPass \/ ReadScanlines
  <2>1. (\E ret, n : ProcessData(ret, n)) /\ UNCHANGED idct_table
    BY <1>9 DEF DummyPass, ReadScanlines
  <2> QED
    BY <2>1, LinesKeep DEF IdctStep
<1>10. CASE ReadRawData
  <2>1. (\E ret : DecompressData(ret)) /\ UNCHANGED idct_table
    BY <1>10 DEF ReadRawData
  <2> QED
    BY <2>1, OutputKeeps DEF IdctStep
<1> QED
  BY <1>4, <1>5, <1>6, <1>7, <1>8, <1>9, <1>10 DEF LibraryStep

\* A new datastream forgets the components with their tables.
LEMMA StartHeaderKeeps ==
  ASSUME NoTableBeforeScans, NEW fn, StartHeader(fn)
  PROVE  TableStep /\ IdctStep
<1>1. quant_table' = <<>> /\ UNCHANGED idct_table
  BY DEF StartHeader, reset_input_controller, outputVars
<1>2. DOMAIN quant_table' = {}
  BY <1>1
<1> QED
  BY <1>1, <1>2 DEF TableStep, NoTableBeforeScans, TablesKept, IdctStep

\* The calls of the application keep them too.
LEMMA ApplicationKeeps ==
  ASSUME NoTableBeforeScans, Application
  PROVE  TableStep /\ IdctStep
<1>1. CASE UNCHANGED <<quant_table, inheaders, idct_table>>
  BY <1>1, TablesUnchanged DEF IdctStep
<1>2. CASE jpeg_read_header \/ jpeg_consume_input
  BY <1>1, <1>2, StartHeaderKeeps
     DEF jpeg_read_header, jpeg_consume_input, ResumeHeader, inputVars, outputVars, setup, scans
<1>3. CASE AdjustParameters \/ ChangeQuantizer
  BY <1>1, <1>3 DEF AdjustParameters, ChangeQuantizer, inputVars, setup, scans
<1>4. CASE jpeg_start_decompress
  <2>1. CASE master_selection
    <3>1. /\ quant_table' = latch_quant_tables(scan, quant_table)
          /\ UNCHANGED inheaders
          /\ idct_table' = [c \in Comps |-> None]
      BY <2>1 DEF master_selection, start_input_pass, scans
    <3> QED
      BY <3>1, LatchKeeps DEF IdctStep
  <2>2. CASE \E e : ErrorExit(e)
    BY <1>1, <2>2 DEF ErrorExit, setup, scans, outputVars
  <2>3. CASE UNCHANGED <<inputVars, outputVars>>
    BY <1>1, <2>3 DEF inputVars, outputVars, setup, scans
  <2> QED
    BY <1>4, <2>1, <2>2, <2>3 DEF jpeg_start_decompress
<1>5. CASE \E n \in 0..(input_scan_number + 1) : jpeg_start_output(n)
  BY <1>1, <1>5 DEF jpeg_start_output, outputVars, setup, scans
<1>6. CASE (\E n \in 1..3 : jpeg_read_scanlines(n)) \/ jpeg_read_raw_data \/ jpeg_finish_output
  BY <1>1, <1>6 DEF jpeg_read_scanlines, jpeg_read_raw_data, jpeg_finish_output, inputVars, outputVars, setup, scans
<1>7. CASE jpeg_finish_decompress
  BY <1>1, <1>7 DEF jpeg_finish_decompress, ErrorExit, inputVars, outputVars, setup, scans
<1> QED
  BY <1>2, <1>3, <1>4, <1>5, <1>6, <1>7 DEF Application

\* The table that a component's first scan found in its slot stays the component's, and is the only
\* one that its inverse DCT is built with, whatever tables the data brings between scans.
THEOREM FirstTable == Spec => FirstTableKept
<1> DEFINE Kept ==
      \A c \in DOMAIN quant_table : c \in DOMAIN quant_table' /\ quant_table[c] # None =>
        /\ quant_table'[c] = quant_table[c]
        /\ c \in DOMAIN idct_table' /\ idct_table'[c] # idct_table[c] => idct_table'[c] \in {None, quant_table[c]}
<1>1. Init => NoTableBeforeScans
  BY DEF Init, DecompressInit, InputInit, NoTableBeforeScans
<1>2. ASSUME NoTableBeforeScans, [Next]_decompressVars PROVE NoTableBeforeScans' /\ Kept
  <2>1. TableStep /\ IdctStep
    <3>1. CASE UNCHANGED decompressVars
      BY <1>2, <3>1, TablesUnchanged DEF decompressVars, inputVars, outputVars, setup, scans, IdctStep
    <3> QED
      BY <1>2, <3>1, LibraryStepKeeps, ApplicationKeeps DEF Next
  <2> QED
    BY <2>1 DEF TableStep, TablesKept, IdctStep
<1>3. NoTableBeforeScans /\ [Next]_decompressVars => NoTableBeforeScans' /\ [Kept]_decompressVars
  BY <1>2
<1>4. Init /\ [][Next]_decompressVars => [][Kept]_decompressVars
  BY <1>1, <1>3, PTL
<1> QED
  BY <1>4, PTL DEF Spec, FirstTableKept

-----------------------------------------------------------------------------
(* The picture: sizes, rows and their blocks. *)

\* The frame of a datastream that went past its headers, and the size of its blocks.
Sized ==
  /\ frame.height \in Nat \ {0}
  /\ frame.comps \in Seq(ComponentParameters) \ {<<>>}
  /\ block_size \in 1..16

\* Division rounds down.
LEMMA Division ==
  ASSUME NEW a \in Nat, NEW d \in Nat \ {0}
  PROVE  a \div d \in Nat /\ d * (a \div d) <= a /\ a < d * (a \div d) + d
OBVIOUS

\* A set of sampling factors has a largest.
LEMMA LargestFactor ==
  ASSUME NEW S \in SUBSET (1..4), S # {}
  PROVE  Largest(S) \in S /\ \A n \in S : n <= Largest(S)
<1>1. \E m \in S : \A n \in S : n <= m
  <2>1. CASE 4 \in S
    BY <2>1
  <2>2. CASE 4 \notin S /\ 3 \in S
    BY <2>2
  <2>3. CASE 4 \notin S /\ 3 \notin S /\ 2 \in S
    BY <2>3
  <2>4. CASE 4 \notin S /\ 3 \notin S /\ 2 \notin S
    <3>1. PICK m \in S : TRUE
      OBVIOUS
    <3>2. \A n \in S : n \in 1..4 /\ n # 2 /\ n # 3 /\ n # 4
      BY <2>4
    <3>3. \A n \in S : n = 1
      BY <3>2
    <3> QED
      BY <3>1, <3>3
  <2> QED
    BY <2>1, <2>2, <2>3, <2>4
<1> QED
  BY <1>1 DEF Largest

\* The iMCU rows of a picture have room for the block rows of every component.
LEMMA Dimensions ==
  ASSUME Sized
  PROVE  /\ max_v_samp_factor \in 1..4
         /\ total_iMCU_rows \in Nat \ {0}
         /\ \A c \in Comps : /\ frame.comps[c].v \in 1..max_v_samp_factor
                             /\ height_in_blocks(c) \in Nat
                             /\ height_in_blocks(c) <= total_iMCU_rows * frame.comps[c].v
<1> DEFINE V == max_v_samp_factor
           F == {frame.comps[c].v : c \in Comps}
           D == V * block_size
           H == frame.height
           t == total_iMCU_rows
<1>1. \A c \in Comps : frame.comps[c] \in ComponentParameters
  BY DEF Sized, Comps
<1>2. \A c \in Comps : frame.comps[c].v \in 1..4
  BY <1>1 DEF ComponentParameters
<1>3. 1 \in Comps
  BY DEF Sized, Comps
<1>4. V \in F /\ \A n \in F : n <= V
  <2>1. F \in SUBSET (1..4) /\ F # {}
    BY <1>2, <1>3
  <2> QED
    BY <2>1, LargestFactor DEF max_v_samp_factor
<1>5. V \in 1..4 /\ \A c \in Comps : frame.comps[c].v \in 1..V
  BY <1>2, <1>4
<1>6. D \in Nat \ {0} /\ H \in Nat \ {0}
  <2>1. V \in Nat \ {0} /\ block_size \in Nat \ {0}
    BY <1>5 DEF Sized
  <2> HIDE DEF V
  <2> QED
    BY <2>1 DEF Sized
<1>7. t = (H + D - 1) \div D
  BY DEF total_iMCU_rows, jdiv_round_up
<1>8. t \in Nat /\ H <= D * t
  <2>1. H + D - 1 \in Nat
    BY <1>6
  <2>2. t \in Nat /\ H + D - 1 < D * t + D
    BY <1>6, <1>7, <2>1, Division
  <2>3. D * t \in Nat
    BY <1>6, <2>2
  <2> QED
    BY <1>6, <2>2, <2>3
<1>9. t # 0
  BY <1>6, <1>8
<1>10. ASSUME NEW c \in Comps
       PROVE  height_in_blocks(c) \in Nat /\ height_in_blocks(c) <= t * frame.comps[c].v
  <2> DEFINE v == frame.comps[c].v
             hib == height_in_blocks(c)
  <2>1. v \in Nat \ {0}
    BY <1>2
  <2>2. hib = (H * v + D - 1) \div D
    BY DEF height_in_blocks, jdiv_round_up
  <2> HIDE DEF D, H, t, v, hib
  <2>3. H * v \in Nat /\ D * t \in Nat /\ t * v \in Nat
    BY <1>6, <1>8, <2>1
  <2>4. H * v + D - 1 \in Nat
    BY <1>6, <2>3
  <2>5. hib \in Nat /\ D * hib <= H * v + D - 1
    BY <1>6, <2>2, <2>4, Division
  <2>6. H * v <= (D * t) * v
    BY <1>6, <1>8, <2>1, <2>3
  <2>7. (D * t) * v = D * (t * v)
    BY <1>6, <1>8, <2>1
  <2>8. D * hib < D * (t * v) + D
    BY <1>6, <2>3, <2>5, <2>6, <2>7
  <2>9. D * (t * v) + D = D * (t * v + 1)
    BY <1>6, <2>3
  <2>10. hib < t * v + 1
    <3>1. SUFFICES ASSUME hib >= t * v + 1 PROVE FALSE
      BY <2>3, <2>5
    <3> DEFINE w == t * v + 1
    <3>2. w \in Nat
      BY <2>3
    <3> HIDE DEF w
    <3>3. D * hib >= D * w
      BY <3>1, <3>2, <2>5, <1>6 DEF w
    <3> QED
      BY <3>2, <3>3, <2>8, <2>9, <2>5, <1>6, <2>3 DEF w
  <2> QED
    BY <2>3, <2>5, <2>10 DEF hib, t, v
<1> QED
  BY <1>5, <1>8, <1>9, <1>10

\* A block row is below those of the iMCU rows that came after it.
LEMMA RowPlace ==
  ASSUME NEW v \in 1..4, NEW b \in Nat, NEW r \in Nat
  PROVE  (b \div v = r) <=> (r * v <= b /\ b < (r + 1) * v)
<1>1. CASE v = 1
  BY <1>1
<1>2. CASE v = 2
  BY <1>2
<1>3. CASE v = 3
  BY <1>3
<1>4. CASE v = 4
  BY <1>4
<1> QED
  BY <1>1, <1>2, <1>3, <1>4

\* An iMCU row has at least as many block rows as there are down to any one of them.
LEMMA RowsCounted ==
  ASSUME Sized, NEW c \in Comps, NEW r \in Nat, NEW b \in BlockRows(c, r)
  PROVE  /\ Cardinality(BlockRows(c, r)) \in Nat
         /\ Cardinality(BlockRows(c, r)) >= b - r * frame.comps[c].v + 1
<1> DEFINE v == frame.comps[c].v
           first == r * v
           hib == height_in_blocks(c)
<1>1. v \in 1..4 /\ hib \in Nat
  BY Dimensions
<1>2. BlockRows(c, r) \subseteq 0..(hib - 1)
  BY DEF BlockRows
<1>3. IsFiniteSet(0..(hib - 1))
  BY <1>1, FS_Interval
<1>4. IsFiniteSet(BlockRows(c, r))
  BY <1>2, <1>3, FS_Subset
<1>5. Cardinality(BlockRows(c, r)) \in Nat
  BY <1>4, FS_CardinalityType
<1>6. b \in 0..(hib - 1) /\ b \div v = r
  BY DEF BlockRows
<1>7. b \in Nat /\ first \in Nat
  BY <1>1, <1>6
<1>8. first <= b /\ b < (r + 1) * v
  BY <1>1, <1>6, <1>7, RowPlace
<1>9. \A x \in first..b : x \in BlockRows(c, r)
  <2> SUFFICES ASSUME NEW x \in first..b PROVE x \in BlockRows(c, r)
    OBVIOUS
  <2> HIDE DEF first, v, hib
  <2>1. x \in Nat /\ first <= x /\ x <= b
    BY <1>7
  <2>2. x \in 0..(hib - 1)
    BY <1>1, <1>6, <2>1
  <2>3. (r + 1) * v \in Nat
    BY <1>1
  <2>4. x < (r + 1) * v
    BY <1>7, <1>8, <2>1, <2>3
  <2>5. x \div v = r
    BY <1>1, <2>1, <2>4, RowPlace DEF first
  <2> QED
    BY <2>2, <2>5 DEF BlockRows, v, hib
<1>10. first..b \in SUBSET BlockRows(c, r)
  BY <1>9
<1>11. Cardinality(first..b) <= Cardinality(BlockRows(c, r))
  BY <1>4, <1>10, FS_Subset
<1>12. Cardinality(first..b) = b - first + 1
  <2> HIDE DEF first
  <2> QED
    BY <1>7, <1>8, FS_Interval
<1> QED
  BY <1>5, <1>7, <1>11, <1>12

-----------------------------------------------------------------------------
(* The reader: markers bring sizes, scans and empty arrays. *)

\* Scans are numbered from 1, or 0 before the first; rows count from 0.
Counters ==
  /\ pos \in Nat \ {0}
  /\ input_scan_number \in Nat /\ output_scan_number \in Nat
  /\ input_iMCU_row \in Nat /\ MCU_vert_offset \in Nat

\* What is known of the headers that were read.
Headers ==
  /\ stream \in Seq(Units)
  /\ inheaders \in {0, 1, 2}
  /\ saw_SOF => frame.height \in Nat \ {0} /\ frame.comps \in Seq(ComponentParameters) \ {<<>>}
  /\ inheaders # 1 => saw_SOF /\ block_size \in 1..16
  /\ scan.comps \in Seq(Nat)
  /\ inheaders = 0 => ScanComps(scan) \subseteq Comps /\ input_scan_number >= 1
  /\ consume_input \in {"consume_markers", "consume_data", "dummy_consume_data"}
  /\ eoi_reached => consume_input = "consume_markers"

\* The block rows that the scan under way has brought, and all of them when it is over.
Filled ==
  /\ consume_input = "consume_markers" => input_iMCU_row = total_iMCU_rows
  /\ Len(scan.comps) > 1 => MCU_vert_offset = 0
  /\ \A c \in ScanComps(scan) : \A b \in 0..(height_in_blocks(c) - 1) :
       b < input_iMCU_row * frame.comps[c].v + MCU_vert_offset => coef[c][b] = input_scan_number

\* Where all coefficients are kept: one array of whole iMCU rows for each component of the scan set-up.
Arrays ==
  coef # <<>> =>
    /\ inheaders = 0
    /\ DOMAIN coef = Comps
    /\ \A c \in Comps : DOMAIN coef[c] = 0..(total_iMCU_rows * frame.comps[c].v - 1)
    /\ consume_input # "dummy_consume_data"
    /\ eoi_reached => output_scan_number <= input_scan_number
    /\ Filled

\* What the reader and the arrays always satisfy.
InputInv == Counters /\ Headers /\ Arrays

\* What a step that reads input does.
InputStep(ret) ==
  /\ InputInv'
  /\ coef = <<>> => coef' = <<>>
  /\ ret = "REACHED_SOS" => inheaders' = 0 /\ ~ eoi_reached'

\* Sizes are those of the frame and its blocks.
LEMMA SizesStay ==
  ASSUME UNCHANGED <<frame, block_size>>
  PROVE  /\ Comps' = Comps
         /\ total_iMCU_rows' = total_iMCU_rows
         /\ \A c : height_in_blocks(c)' = height_in_blocks(c)
         /\ \A c : frame'.comps[c] = frame.comps[c]
         /\ \A c, r : BlockRows(c, r)' = BlockRows(c, r)
<1>1. max_v_samp_factor' = max_v_samp_factor
  BY DEF max_v_samp_factor, Comps
<1> QED
  BY <1>1 DEF Comps, total_iMCU_rows, height_in_blocks, BlockRows, jdiv_round_up

\* What the arrays hold is known as long as no data comes and no scan starts.
LEMMA FilledStays ==
  ASSUME Filled, UNCHANGED <<frame, block_size, scan, consume_input, input_iMCU_row, MCU_vert_offset, coef,
                             input_scan_number>>
  PROVE  Filled'
BY SizesStay DEF Filled, ScanComps

\* A step that leaves all of this alone.
LEMMA ReaderMoves ==
  ASSUME InputInv, NEW ret, ret # "REACHED_SOS", pos' \in Nat \ {0},
         UNCHANGED <<stream, saw_SOF, frame, block_size, scans, pass, progress, coef>>
  PROVE  InputStep(ret)
<1>1. Counters'
  BY DEF InputInv, Counters, scans, pass, progress
<1>2. Headers'
  BY SizesStay DEF InputInv, Headers, scans, pass, progress, ScanComps
<1>3. Arrays'
  BY SizesStay, FilledStays DEF InputInv, Arrays, scans, pass, progress
<1> QED
  BY <1>1, <1>2, <1>3 DEF InputInv, InputStep

\* The unit that is read is one that a source may hold.
LEMMA UnitRead ==
  ASSUME InputInv, HasUnit
  PROVE  Unit \in Units
<1>1. stream \in Seq(Units) /\ pos \in Nat \ {0}
  BY DEF InputInv, Headers, Counters
<1> QED
  BY <1>1 DEF HasUnit, Unit

\* A frame header brings what get_sof lets through.
LEMMA SofRead ==
  ASSUME InputInv, Reading("SOF")
  PROVE  Unit.height \in Nat \ {0} /\ Unit.comps \in Seq(ComponentParameters) \ {<<>>}
<1>1. Unit \in Units /\ Unit.t = "SOF"
  BY UnitRead DEF Reading
<1>2. Unit \in SofUnits
  BY <1>1 DEF Units, SosUnits
<1> QED
  BY <1>2 DEF SofUnits

\* A scan header names components.
LEMMA SosWasRead ==
  ASSUME InputInv, Reading("SOS")
  PROVE  Unit.comps \in Seq(Nat)
<1>1. Unit \in Units /\ Unit.t = "SOS"
  BY UnitRead DEF Reading
<1>2. Unit \in SosUnits
  BY <1>1 DEF Units, SofUnits
<1> QED
  BY <1>2 DEF SosUnits

\* A failed read leaves the scans and the arrays alone.
LEMMA FailStep ==
  ASSUME InputInv, NEW ret, NEW e, Fail(ret, e)
  PROVE  InputStep(ret)
<1>1. pos' \in Nat \ {0}
  BY DEF InputInv, Counters, Fail, reader
<1> QED
  BY <1>1, ReaderMoves DEF Fail, source, seen, setup

\* Markers that tell nothing of the scans.
LEMMA OtherMarkers ==
  ASSUME InputInv, NEW ret, first_marker(ret) \/ next_marker(ret) \/ get_soi(ret) \/ get_dqt(ret) \/ get_dht(ret)
                            \/ skip_variable(ret) \/ UnknownMarker(ret)
  PROVE  InputStep(ret)
<1>1. CASE \E e : Fail(ret, e)
  BY <1>1, FailStep
<1>2. CASE ret = "CONTINUE" /\ pos' \in {pos, pos + 1}
           /\ UNCHANGED <<stream, saw_SOF, frame, block_size, scans, pass, progress, coef>>
  <2>1. pos' \in Nat \ {0}
    BY <1>2 DEF InputInv, Counters
  <2> QED
    BY <1>2, <2>1, ReaderMoves
<1> QED
  BY <1>1, <1>2 DEF first_marker, next_marker, get_soi, get_dqt, get_dht, skip_variable,
     UnknownMarker, PastMarker,
     source, seen, setup

\* A frame comes before any scan.
LEMMA FrameStep ==
  ASSUME InputInv, NEW ret, get_sof(ret)
  PROVE  InputStep(ret)
<1>1. CASE \E e : Fail(ret, e)
  BY <1>1, FailStep
<1>2. CASE ~ \E e : Fail(ret, e)
  <2>1. /\ ~ saw_SOF /\ ret = "CONTINUE"
        /\ saw_SOF' = TRUE
        /\ pos' = pos + 1
        /\ frame' = [kind |-> Unit.kind, height |-> Unit.height, comps |-> Unit.comps]
        /\ UNCHANGED <<source, setup, pass, scans, progress, coef>>
    BY <1>2 DEF get_sof, PastMarker
  <2>2. inheaders = 1 /\ coef = <<>>
    BY <2>1 DEF InputInv, Headers, Arrays
  <2>3. Counters'
    BY <2>1 DEF InputInv, Counters, scans, pass, progress
  <2>4. frame'.height \in Nat \ {0} /\ frame'.comps \in Seq(ComponentParameters) \ {<<>>}
    BY <2>1, SofRead DEF get_sof
  <2>5. Headers'
    BY <2>1, <2>2, <2>4 DEF InputInv, Headers, scans, pass, progress, source
  <2>6. Arrays'
    BY <2>1, <2>2 DEF Arrays
  <2> QED
    BY <2>1, <2>2, <2>3, <2>5, <2>6 DEF InputInv, InputStep
<1> QED
  BY <1>1, <1>2

\* What the SOS marker of a scan leaves behind.
LEMMA ScanRead ==
  ASSUME InputInv, Reading("SOS"), SosError(Unit) = NoError, SosRead(Unit)
  PROVE  /\ saw_SOF /\ scan'.comps \in Seq(Nat) /\ scan'.comps = Unit.comps
         /\ ScanComps(scan') \subseteq Comps
         /\ input_scan_number' = IF Unit.comps = <<>> THEN input_scan_number ELSE input_scan_number + 1
         /\ pos' = pos + 1
         /\ UNCHANGED <<source, seen, tables, progress, coef, error>>
<1>1. scan'.comps = Unit.comps /\ pos' = pos + 1
  BY DEF SosRead, PastMarker
<1>2. Unit.comps \in Seq(Nat)
  BY SosWasRead
<1>3. saw_SOF /\ \A i \in DOMAIN Unit.comps : Unit.comps[i] \in Comps
  BY DEF SosError, NoError
<1>4. ScanComps(scan') \subseteq Comps
  BY <1>1, <1>3 DEF ScanComps
<1>5. input_scan_number' = IF Unit.comps = <<>> THEN input_scan_number ELSE input_scan_number + 1
  BY DEF SosRead, InputInv, Counters
<1> QED
  BY <1>1, <1>2, <1>3, <1>4, <1>5 DEF SosRead

\* The first SOS marker ends the headers; there are no arrays yet.
LEMMA FirstScanStep ==
  ASSUME InputInv, NEW ret, FirstSos(ret), ~ eoi_reached
  PROVE  InputStep(ret)
<1>1. CASE \E e : Fail(ret, e)
  BY <1>1, FailStep
<1>2. CASE ~ \E e : Fail(ret, e)
  <2>1. /\ SosError(Unit) = NoError /\ SosRead(Unit) /\ inheaders # 0
        /\ IF inheaders = 1 THEN BlockSize(Unit) # None /\ initial_setup(Unit) ELSE UNCHANGED setup
        /\ IF Unit.comps = <<>> THEN ret = "CONTINUE" /\ inheaders' = 2 ELSE ret = "REACHED_SOS" /\ inheaders' = 0
        /\ UNCHANGED pass
    BY <1>2 DEF FirstSos
  <2>2. coef = <<>> /\ coef' = <<>>
    BY <2>1 DEF InputInv, Arrays, SosRead
  <2>3. /\ saw_SOF /\ scan'.comps \in Seq(Nat)
        /\ ScanComps(scan') \subseteq Comps
        /\ input_scan_number' = IF Unit.comps = <<>> THEN input_scan_number ELSE input_scan_number + 1
        /\ pos' = pos + 1
        /\ UNCHANGED <<source, seen, tables, progress, coef, error>>
    BY <2>1, ScanRead DEF FirstSos
  <2>4. block_size' \in 1..16
    <3>1. CASE inheaders = 1
      <4>1. BlockSize(Unit) \in 1..16
        <5>1. (\E n \in 1..16 : n * n - 1 = Unit.Se) => (CHOOSE n \in 1..16 : n * n - 1 = Unit.Se) \in 1..16
          OBVIOUS
        <5> QED
          BY <2>1, <3>1 DEF BlockSize, DCTSIZE
      <4> QED
        BY <2>1, <3>1, <4>1 DEF initial_setup
    <3>2. CASE inheaders # 1
      BY <2>1, <3>2 DEF InputInv, Headers, setup
    <3> QED
      BY <3>1, <3>2
  <2>5. Counters'
    BY <2>1, <2>3 DEF InputInv, Counters, pass, progress
  <2>6. Comps' = Comps
    BY <2>3 DEF seen, Comps
  <2>7. Headers'
    <3>1. input_scan_number \in Nat
      BY DEF InputInv, Counters
    <3> QED
      BY <2>1, <2>3, <2>4, <2>6, <3>1 DEF InputInv, Headers, pass, progress, source, seen, ScanComps
  <2>8. Arrays'
    BY <2>2 DEF Arrays
  <2>9. ret = "REACHED_SOS" => inheaders' = 0 /\ ~ eoi_reached'
    BY <2>1, <2>3 DEF progress
  <2> QED
    BY <2>2, <2>5, <2>7, <2>8, <2>9 DEF InputInv, InputStep
<1> QED
  BY <1>1, <1>2

\* A later one starts its scan at the top.
LEMMA LaterScanStep ==
  ASSUME InputInv, NEW ret, LaterSos(ret), ~ eoi_reached
  PROVE  InputStep(ret)
<1>1. CASE \E e : Fail(ret, e)
  BY <1>1, FailStep
<1>2. CASE ~ \E e : Fail(ret, e)
  <2>1. /\ SosError(Unit) = NoError /\ SosRead(Unit) /\ inheaders = 0 /\ inheaders' = 0
        /\ UNCHANGED block_size
        /\ \/ Unit.comps = <<>> /\ UNCHANGED <<setup, pass>>
           \/ input_iMCU_row' = 0 /\ MCU_vert_offset' = 0 /\ consume_input' = "consume_data" /\ Unit.comps # <<>>
    BY <1>2 DEF LaterSos, start_input_pass, setup
  <2>2. /\ saw_SOF /\ scan'.comps \in Seq(Nat) /\ scan'.comps = Unit.comps
        /\ ScanComps(scan') \subseteq Comps
        /\ input_scan_number' = IF Unit.comps = <<>> THEN input_scan_number ELSE input_scan_number + 1
        /\ pos' = pos + 1
        /\ UNCHANGED <<source, seen, tables, progress, coef, error>>
    BY <2>1, ScanRead DEF LaterSos
  <2>3. Counters'
    BY <2>1, <2>2 DEF InputInv, Counters, pass, progress
  <2>4. UNCHANGED <<frame, block_size>>
    BY <2>1, <2>2 DEF seen
  <2>5. Headers'
    <3>1. input_scan_number \in Nat
      BY DEF InputInv, Counters
    <3> QED
      BY <2>1, <2>2, <2>4, <3>1, SizesStay DEF InputInv, Headers, pass, progress, source, seen,
         ScanComps
  <2>6. Arrays'
    <3>1. CASE coef = <<>>
      BY <2>2, <3>1 DEF Arrays
    <3>2. CASE coef # <<>>
      <4>1. CASE Unit.comps = <<>>
        <5>1. Len(scan'.comps) = 0 /\ ScanComps(scan') = {}
          BY <2>2, <4>1 DEF ScanComps
        <5>2. Filled'
          BY <2>1, <2>4, <3>2, <4>1, <5>1, SizesStay DEF InputInv, Arrays, Filled, pass
        <5> QED
          BY <2>1, <2>2, <2>4, <3>2, <4>1, <5>2, SizesStay DEF InputInv, Arrays, pass, progress
      <4>2. CASE Unit.comps # <<>>
        <5>1. input_iMCU_row' = 0 /\ MCU_vert_offset' = 0 /\ consume_input' = "consume_data"
          BY <2>1, <4>2
        <5>2. Sized
          BY <2>1 DEF InputInv, Headers, Sized
        <5>3. \A c \in ScanComps(scan') : frame.comps[c].v \in 1..4 /\ height_in_blocks(c) \in Nat
          BY <2>2, <5>2, Dimensions
        <5>4. Filled'
          BY <2>2, <2>4, <5>1, <5>3, SizesStay DEF Filled
        <5> QED
          BY <2>1, <2>2, <2>4, <3>2, <5>1, <5>4, SizesStay DEF InputInv, Arrays, progress
      <4> QED
        BY <4>1, <4>2
    <3> QED
      BY <3>1, <3>2
  <2>7. ~ eoi_reached' /\ (coef = <<>> => coef' = <<>>)
    BY <2>2 DEF progress
  <2> QED
    BY <2>1, <2>3, <2>5, <2>6, <2>7 DEF InputInv, InputStep
<1> QED
  BY <1>1, <1>2

\* At the end, no more is asked for than has come.
LEMMA EndStep ==
  ASSUME InputInv, NEW ret, ReachEoi(ret), consume_input = "consume_markers"
  PROVE  InputStep(ret)
<1>1. /\ pos' = pos + 1 /\ eoi_reached' = TRUE
      /\ ret # "REACHED_SOS"
      /\ UNCHANGED <<source, seen, tables, setup, pass, scans, coef>>
  BY DEF ReachEoi, PastMarker
<1>2. output_scan_number' \in Nat /\ (inheaders = 0 => output_scan_number' <= input_scan_number)
  <2>1. CASE inheaders # 0 /\ saw_SOF
    BY <2>1 DEF ReachEoi, InputInv, Counters
  <2>2. CASE ~ (inheaders # 0 /\ saw_SOF)
    BY <2>2 DEF ReachEoi, InputInv, Counters
  <2> QED
    BY <2>1, <2>2
<1>3. Counters'
  BY <1>1, <1>2 DEF InputInv, Counters, pass, scans
<1>4. UNCHANGED <<frame, block_size>>
  BY <1>1 DEF seen, setup
<1>5. Headers'
  BY <1>1, <1>4, SizesStay DEF InputInv, Headers, pass, scans, source, seen, setup, ScanComps
<1>6. Arrays'
  <2>1. Filled => Filled'
    BY <1>1, <1>4, FilledStays DEF pass, scans
  <2> QED
    BY <1>1, <1>2, <1>4, <2>1, SizesStay DEF InputInv, Arrays, pass, scans
<1> QED
  BY <1>1, <1>3, <1>5, <1>6 DEF InputInv, InputStep

-----------------------------------------------------------------------------
(* The data of a scan: row after row it fills the arrays. *)

\* How data advances a scan.
LEMMA RowStep ==
  ASSUME InputInv, NEW ret, AdvanceRow(ret)
  PROVE  /\ MCU_vert_offset' \in Nat /\ input_iMCU_row' \in Nat
         /\ consume_input' \in {consume_input, "consume_markers"}
         /\ ret \in {"CONTINUE", "SCAN_COMPLETED", "ROW_COMPLETED"}
         /\ ret = "SCAN_COMPLETED" => consume_input' = "consume_markers"
         /\ consume_input' = "consume_markers" =>
              consume_input = "consume_markers" \/ input_iMCU_row' = total_iMCU_rows
         /\ \/ /\ MCU_vert_offset + 1 < MCU_rows_per_iMCU_row
               /\ MCU_vert_offset' = MCU_vert_offset + 1 /\ input_iMCU_row' = input_iMCU_row
            \/ /\ ~ (MCU_vert_offset + 1 < MCU_rows_per_iMCU_row)
               /\ MCU_vert_offset' = 0 /\ input_iMCU_row' = input_iMCU_row + 1
BY DEF AdvanceRow, InputInv, Counters

\* Block rows are counted from one iMCU row to the next.
LEMMA NextRow ==
  ASSUME NEW r \in Nat, NEW v \in 1..4
  PROVE  (r + 1) * v = r * v + v
OBVIOUS

\* The block rows that a row of data fills follow those that the scan filled before.
LEMMA RowFills ==
  ASSUME InputInv, coef # <<>>, NEW ret, AdvanceRow(ret),
         NEW c \in ScanComps(scan), NEW b \in 0..(height_in_blocks(c) - 1),
         b < input_iMCU_row' * frame.comps[c].v + MCU_vert_offset'
  PROVE  \/ b < input_iMCU_row * frame.comps[c].v + MCU_vert_offset
         \/ b \in FilledRows(c)
<1> DEFINE v == frame.comps[c].v
           row == input_iMCU_row
           off == MCU_vert_offset
<1>1. Sized /\ c \in Comps
  BY DEF InputInv, Headers, Arrays, Sized
<1>2. /\ v \in 1..4
      /\ height_in_blocks(c) \in Nat
      /\ height_in_blocks(c) <= total_iMCU_rows * v
      /\ total_iMCU_rows \in Nat
  BY <1>1, Dimensions
<1>3. row \in Nat /\ off \in Nat
  BY DEF InputInv, Counters
<1>4. row' \in Nat /\ off' \in Nat
  BY RowStep
<1>5. b < row' * v + off'
  OBVIOUS
<1>6. b \in DOMAIN coef[c]
  <2>1. DOMAIN coef[c] = 0..(total_iMCU_rows * v - 1)
    BY <1>1 DEF InputInv, Arrays
  <2>2. total_iMCU_rows * v \in Nat
    BY <1>2
  <2> QED
    BY <1>2, <2>1, <2>2
<1>7. \/ b < row * v + off
      \/ row * v + off <= b /\ b < row * v + off + MCU_height(c)
  <2>1. b \in Nat /\ row * v \in Nat
    <3> HIDE DEF v, row
    <3>1. v \in Nat
      BY <1>2
    <3>2. row * v \in Nat
      BY <1>3, <3>1
    <3>3. b \in Nat
      BY <1>2
    <3> QED
      BY <3>2, <3>3
  <2>2. Len(scan.comps) \in Nat
    BY DEF InputInv, Headers
  <2> DEFINE n == Len(scan.comps)
  <2> HIDE DEF n
  <2>3. CASE Len(scan.comps) > 1
    <3>1. off = 0
      BY <2>3 DEF InputInv, Arrays, Filled
    <3>2. MCU_height(c) = v
      <4>1. n \in Nat /\ n > 1
        BY <2>2, <2>3 DEF n
      <4>2. n # 1
        BY <4>1
      <4> QED
        BY <4>2 DEF MCU_height, n
    <3>3. MCU_rows_per_iMCU_row = 1
      BY <2>3 DEF MCU_rows_per_iMCU_row
    <3>4. row' = row + 1 /\ off' = 0
      BY <3>1, <3>3, RowStep
    <3>5. (row + 1) * v = row * v + v
      BY <1>2, <1>3, NextRow
    <3>6. b < row * v + v
      BY <1>2, <1>5, <2>1, <3>4, <3>5
    <3> QED
      BY <1>2, <2>1, <3>1, <3>2, <3>6
  <2>4. CASE ~ (Len(scan.comps) > 1)
    <3>1. Len(scan.comps) = 1 /\ c = scan.comps[1]
      <4>1. scan.comps \in Seq(Nat) /\ c \in {scan.comps[i] : i \in DOMAIN scan.comps}
        BY DEF InputInv, Headers, ScanComps
      <4>2. PICK i \in DOMAIN scan.comps : c = scan.comps[i]
        BY <4>1
      <4>3. i \in 1..n /\ n \in Nat /\ ~ (n > 1)
        BY <2>2, <2>4, <4>1, <4>2 DEF n
      <4>4. n = 1 /\ i = 1
        BY <4>3
      <4> QED
        BY <4>2, <4>4 DEF n
    <3>2. MCU_height(c) = 1 /\ MCU_rows_per_iMCU_row = Cardinality(BlockRows(c, row))
      BY <3>1 DEF MCU_height, MCU_rows_per_iMCU_row
    <3>3. CASE off' = off + 1 /\ row' = row
      <4>1. b < row * v + (off + 1)
        BY <1>5, <3>3
      <4> QED
        BY <1>3, <2>1, <3>2, <4>1
    <3>4. CASE ~ (off + 1 < MCU_rows_per_iMCU_row) /\ off' = 0 /\ row' = row + 1
      <4>1. CASE b < row * v
        BY <1>3, <2>1, <4>1
      <4>2. CASE row * v <= b
        <5>1. (row + 1) * v \in Nat
          BY <1>2, <1>3
        <5>2. b < (row + 1) * v
          BY <1>5, <2>1, <3>4, <5>1
        <5>3. b \div v = row
          BY <1>2, <1>3, <2>1, <4>2, <5>2, RowPlace
        <5>4. b \in BlockRows(c, row)
          BY <5>3 DEF BlockRows
        <5>5. /\ Cardinality(BlockRows(c, row)) \in Nat
              /\ Cardinality(BlockRows(c, row)) >= b - row * v + 1
          BY <1>1, <1>3, <5>4, RowsCounted
        <5> HIDE DEF v, row, off
        <5>6. b - row * v + 1 <= off + 1
          BY <1>3, <2>1, <3>2, <3>4, <5>5
        <5> QED
          BY <1>3, <2>1, <3>2, <5>6
      <4> QED
        BY <2>1, <4>1, <4>2
    <3> QED
      BY <3>3, <3>4, RowStep
  <2> QED
    BY <2>3, <2>4
<1> QED
  BY <1>6, <1>7 DEF FilledRows

\* A row of data.  Output in step with the input takes it even if input would be at markers; then
\* there are no arrays.
LEMMA DataStep ==
  ASSUME InputInv, NEW ret, DecodeRow(ret), coef # <<>> => consume_input = "consume_data"
  PROVE  InputStep(ret)
<1>1. CASE ret = "SUSPENDED" /\ UNCHANGED inputVars
  <2>1. pos' \in Nat \ {0}
    BY <1>1 DEF InputInv, Counters, inputVars, reader
  <2> QED
    BY <1>1, <2>1, ReaderMoves DEF inputVars, source, seen, setup
<1>2. CASE ~ (ret = "SUSPENDED" /\ UNCHANGED inputVars)
  <2>1. /\ pos' \in {pos, pos + 1}
        /\ AdvanceRow(ret)
        /\ coef' = [c \in DOMAIN coef |->
                     IF c \notin ScanComps(scan) THEN coef[c]
                     ELSE [b \in DOMAIN coef[c] |-> IF b \in FilledRows(c) THEN input_scan_number ELSE coef[c][b]]]
        /\ UNCHANGED <<source, seen, tables, setup, coef_bits, scans, progress, error>>
    BY <1>2 DEF DecodeRow, reader
  <2>2. /\ MCU_vert_offset' \in Nat /\ input_iMCU_row' \in Nat
        /\ consume_input' \in {consume_input, "consume_markers"}
        /\ ret # "REACHED_SOS"
    BY <2>1, RowStep
  <2>3. Counters'
    BY <2>1, <2>2 DEF InputInv, Counters, scans, progress
  <2>4. UNCHANGED <<frame, block_size>>
    BY <2>1 DEF seen, setup
  <2>5. Headers'
    BY <2>1, <2>2, <2>4, SizesStay DEF InputInv, Headers, scans, progress, source, seen, ScanComps
  <2>6. coef = <<>> => coef' = <<>>
    BY <2>1
  <2>7. Arrays'
    <3>1. CASE coef = <<>>
      BY <2>6, <3>1 DEF Arrays
    <3>2. CASE coef # <<>>
      <4>1. consume_input = "consume_data"
        BY <3>2
      <4>2. DOMAIN coef' = DOMAIN coef /\ \A c \in DOMAIN coef : DOMAIN coef'[c] = DOMAIN coef[c]
        <5>1. DOMAIN coef' = DOMAIN coef
          BY <2>1
        <5>2. ASSUME NEW c \in DOMAIN coef PROVE DOMAIN coef'[c] = DOMAIN coef[c]
          <6>1. CASE c \notin ScanComps(scan)
            BY <2>1, <6>1
          <6>2. CASE c \in ScanComps(scan)
            <7>1. coef'[c] = [b \in DOMAIN coef[c] |-> IF b \in FilledRows(c) THEN input_scan_number ELSE coef[c][b]]
              BY <2>1, <6>2
            <7> QED
              BY <7>1
          <6> QED
            BY <6>1, <6>2
        <5> QED
          BY <5>1, <5>2
      <4>3. consume_input' = "consume_markers" => input_iMCU_row' = total_iMCU_rows
        BY <2>1, <4>1, RowStep
      <4>4. Len(scan.comps) > 1 => MCU_vert_offset' = 0
        <5> SUFFICES ASSUME Len(scan.comps) > 1 PROVE MCU_vert_offset' = 0
          OBVIOUS
        <5>1. MCU_vert_offset = 0 /\ MCU_rows_per_iMCU_row = 1
          BY <3>2 DEF InputInv, Arrays, Filled, MCU_rows_per_iMCU_row
        <5> QED
          BY <2>1, <5>1, RowStep
      <4>5. ASSUME NEW c \in ScanComps(scan), NEW b \in 0..(height_in_blocks(c) - 1),
                   b < input_iMCU_row' * frame.comps[c].v + MCU_vert_offset'
            PROVE  coef'[c][b] = input_scan_number
        <5>1. c \in DOMAIN coef
          BY <3>2 DEF InputInv, Arrays, Headers
        <5>2. b \in DOMAIN coef[c]
          <6>1. Sized /\ c \in Comps
            BY <3>2 DEF InputInv, Headers, Arrays, Sized
          <6>2. /\ DOMAIN coef[c] = 0..(total_iMCU_rows * frame.comps[c].v - 1)
                /\ height_in_blocks(c) \in Nat
                /\ height_in_blocks(c) <= total_iMCU_rows * frame.comps[c].v
                /\ total_iMCU_rows * frame.comps[c].v \in Nat
            <7>1. frame.comps[c].v \in Nat /\ total_iMCU_rows \in Nat
              BY <6>1, Dimensions
            <7>2. total_iMCU_rows * frame.comps[c].v \in Nat
              BY <7>1
            <7> QED
              BY <3>2, <6>1, <7>2, Dimensions DEF InputInv, Arrays
          <6> QED
            BY <6>2
        <5>3. coef'[c] = [x \in DOMAIN coef[c] |-> IF x \in FilledRows(c) THEN input_scan_number ELSE coef[c][x]]
          BY <2>1, <5>1
        <5>4. coef'[c][b] = IF b \in FilledRows(c) THEN input_scan_number ELSE coef[c][b]
          BY <5>2, <5>3
        <5>5. b < input_iMCU_row * frame.comps[c].v + MCU_vert_offset => coef[c][b] = input_scan_number
          BY <3>2 DEF InputInv, Arrays, Filled
        <5> QED
          BY <2>1, <3>2, <4>1, <4>5, <5>4, <5>5, RowFills
      <4>6. Filled'
        <5>1. UNCHANGED <<scan, input_scan_number>>
          BY <2>1 DEF scans
        <5> QED
          BY <2>4, <4>3, <4>4, <4>5, <5>1, SizesStay DEF Filled
      <4> QED
        BY <2>1, <2>2, <2>4, <3>2, <4>1, <4>2, <4>6, SizesStay DEF InputInv, Arrays, Headers,
           scans, progress
    <3> QED
      BY <3>1, <3>2
  <2> QED
    BY <2>2, <2>3, <2>5, <2>6, <2>7 DEF InputInv, InputStep
<1> QED
  BY <1>1, <1>2

\* Every step that reads input.
LEMMA ReadingStep ==
  ASSUME InputInv, NEW ret \in Retcodes, ConsumeInput(ret)
  PROVE  InputStep(ret)
<1>1. CASE UNCHANGED inputVars /\ (ret # "REACHED_SOS")
  <2>1. pos' \in Nat \ {0}
    BY <1>1 DEF InputInv, Counters, inputVars, reader
  <2> QED
    BY <1>1, <2>1, ReaderMoves DEF inputVars, source, seen, setup
<1>2. CASE consume_input = "consume_markers" /\ consume_markers(ret)
  <2>1. CASE eoi_reached
    BY <1>1, <1>2, <2>1 DEF consume_markers
  <2>2. CASE ~ eoi_reached
    BY <1>1, <1>2, <2>2, OtherMarkers, FrameStep, FirstScanStep, LaterScanStep, EndStep
       DEF consume_markers
  <2> QED
    BY <2>1, <2>2
<1>3. CASE consume_input = "consume_data" /\ DecodeRow(ret)
  BY <1>3, DataStep
<1>4. CASE consume_input = "dummy_consume_data" /\ dummy_consume_data(ret)
  BY <1>1, <1>4 DEF dummy_consume_data
<1> QED
  BY <1>2, <1>3, <1>4 DEF ConsumeInput

-----------------------------------------------------------------------------
(* Rows that go out: never before the data they show. *)

\* What is known of the calls that the application makes.
Phases ==
  /\ output_iMCU_row \in Nat
  /\ global_state = "READY" => call = NoCall /\ inheaders = 0 /\ ~ eoi_reached
  /\ call = "jpeg_read_scanlines" => global_state = "SCANNING"
  /\ call = "jpeg_read_raw_data" => global_state = "RAW_OK"
  /\ global_state \in {"PRESCAN", "SCANNING", "RAW_OK"} /\ coef # <<>> => decompress_data # "decompress_onepass"

\* What a row that goes out finds in the arrays.
RowHasCome(r) == \A c \in ScanComps(scan) : \A b \in BlockRows(c, r) : coef[c][b] = input_scan_number

\* What a step that gives out a row must find.
Behind ==
  output_iMCU_row' = output_iMCU_row + 1 /\ coef # <<>> =>
    /\ input_scan_number >= output_scan_number
    /\ input_scan_number = output_scan_number =>
         /\ RowHasCome(output_iMCU_row)
         /\ decompress_data = "decompress_smooth_data" /\ scan.Ss = 0 => RowHasCome(output_iMCU_row + 1)

\* Block rows grow with iMCU rows.
LEMMA ProductGrows ==
  ASSUME NEW a \in Nat, NEW b \in Nat, a <= b, NEW v \in 1..4
  PROVE  a * v <= b * v
<1>1. CASE v = 1
  BY <1>1
<1>2. CASE v = 2
  BY <1>2
<1>3. CASE v = 3
  BY <1>3
<1>4. CASE v = 4
  BY <1>4
<1> QED
  BY <1>1, <1>2, <1>3, <1>4

\* An iMCU row above the one that comes in, or any row when the scan is over, is there.
LEMMA PastRows ==
  ASSUME InputInv, coef # <<>>, NEW r \in Nat, r < input_iMCU_row \/ consume_input = "consume_markers"
  PROVE  RowHasCome(r)
<1> SUFFICES ASSUME NEW c \in ScanComps(scan), NEW b \in BlockRows(c, r)
             PROVE  coef[c][b] = input_scan_number
  BY DEF RowHasCome
<1> DEFINE v == frame.comps[c].v
<1>1. Sized /\ c \in Comps
  BY DEF InputInv, Headers, Arrays, Sized
<1>2. /\ v \in 1..4
      /\ height_in_blocks(c) \in Nat
      /\ height_in_blocks(c) <= total_iMCU_rows * v
      /\ total_iMCU_rows \in Nat
  BY <1>1, Dimensions
<1>3. b \in 0..(height_in_blocks(c) - 1) /\ b \in Nat /\ b \div v = r
  BY <1>2 DEF BlockRows
<1>4. input_iMCU_row \in Nat /\ MCU_vert_offset \in Nat
  BY DEF InputInv, Counters
<1>5. b < input_iMCU_row * v + MCU_vert_offset
  <2>1. input_iMCU_row * v \in Nat
    BY <1>2, <1>4
  <2>2. CASE r < input_iMCU_row
    <3>1. b < (r + 1) * v
      BY <1>2, <1>3, RowPlace
    <3>2. (r + 1) * v <= input_iMCU_row * v
      BY <1>2, <1>4, <2>2, ProductGrows
    <3>3. (r + 1) * v \in Nat
      BY <1>2
    <3> QED
      BY <1>3, <1>4, <2>1, <3>1, <3>2, <3>3
  <2>3. CASE consume_input = "consume_markers"
    <3>1. input_iMCU_row = total_iMCU_rows
      BY <2>3 DEF InputInv, Arrays, Filled
    <3> QED
      BY <1>2, <1>3, <1>4, <2>1, <3>1
  <2> QED
    BY <2>2, <2>3
<1> QED
  BY <1>3, <1>5 DEF InputInv, Arrays, Filled

\* A row goes out when output would not get ahead of the input.
LEMMA RowGoesOut ==
  ASSUME InputInv, coef # <<>>, output_iMCU_row \in Nat, ~ AheadOfInput
  PROVE  /\ input_scan_number >= output_scan_number
         /\ input_scan_number = output_scan_number =>
              /\ RowHasCome(output_iMCU_row)
              /\ decompress_data = "decompress_smooth_data" /\ scan.Ss = 0 => RowHasCome(output_iMCU_row + 1)
<1>1. /\ input_scan_number \in Nat /\ output_scan_number \in Nat /\ input_iMCU_row \in Nat
      /\ eoi_reached => output_scan_number <= input_scan_number /\ consume_input = "consume_markers"
  BY DEF InputInv, Counters, Headers, Arrays
<1>2. CASE eoi_reached /\ decompress_data # "decompress_data"
  BY <1>1, <1>2, PastRows
<1>3. CASE decompress_data = "decompress_data"
  <2>1. input_scan_number > output_scan_number
        \/ (input_scan_number = output_scan_number /\ output_iMCU_row < input_iMCU_row)
    BY <1>1, <1>3 DEF AheadOfInput
  <2> QED
    BY <1>1, <1>3, <2>1, PastRows
<1>4. CASE ~ eoi_reached /\ decompress_data # "decompress_data"
  <2>1. \/ input_scan_number > output_scan_number
        \/ /\ input_scan_number = output_scan_number
           /\ output_iMCU_row < input_iMCU_row
           /\ scan.Ss = 0 => output_iMCU_row + 1 < input_iMCU_row
    BY <1>1, <1>4 DEF AheadOfInput
  <2> QED
    BY <1>1, <2>1, PastRows
<1> QED
  BY <1>2, <1>3, <1>4

\* What a step of giving out data does.
OutputStep ==
  /\ InputInv'
  /\ coef = <<>> => coef' = <<>>
  /\ output_iMCU_row' \in Nat
  /\ Behind

\* Giving out a row, from the arrays or from one iMCU row that was just decoded.
LEMMA RowOut ==
  ASSUME InputInv, output_iMCU_row \in Nat, coef # <<>> => decompress_data # "decompress_onepass",
         NEW ret \in Retcodes, DecompressData(ret)
  PROVE  OutputStep
<1>1. CASE decompress_data = "decompress_onepass"
  <2>1. PICK r \in Retcodes : DecodeRow(r) /\ output_iMCU_row' \in {output_iMCU_row, output_iMCU_row + 1}
    BY <1>1 DEF DecompressData, decompress_onepass, ShowRow
  <2>2. coef = <<>>
    BY <1>1
  <2>3. InputStep(r)
    BY <2>1, <2>2, DataStep
  <2> QED
    BY <2>1, <2>2, <2>3 DEF InputStep, OutputStep, Behind
<1>2. CASE decompress_data # "decompress_onepass" /\ AheadOfInput
  <2>1. PICK r \in Retcodes : ConsumeInput(r) /\ UNCHANGED output_iMCU_row
    BY <1>2 DEF DecompressData, DecompressFromArrays
  <2>2. InputStep(r)
    BY <2>1, ReadingStep
  <2> QED
    BY <2>1, <2>2 DEF InputStep, OutputStep, Behind
<1>3. CASE decompress_data # "decompress_onepass" /\ ~ AheadOfInput
  <2>1. output_iMCU_row' = output_iMCU_row + 1 /\ UNCHANGED inputVars
    BY <1>3 DEF DecompressData, DecompressFromArrays, ShowRow
  <2>2. InputInv' /\ coef' = coef
    <3>1. pos' \in Nat \ {0}
      BY <2>1 DEF InputInv, Counters, inputVars, reader
    <3>2. InputStep("CONTINUE")
      BY <2>1, <3>1, ReaderMoves DEF inputVars, source, seen, setup
    <3> QED
      BY <2>1, <3>2 DEF InputStep, inputVars
  <2>3. coef # <<>> => Behind
    BY <1>3, RowGoesOut DEF Behind
  <2>4. Behind
    BY <2>3 DEF Behind
  <2> QED
    BY <2>1, <2>2, <2>4 DEF OutputStep
<1> QED
  BY <1>1, <1>2, <1>3

\* A step that leaves input and output alone.
LEMMA NothingRead ==
  ASSUME InputInv, UNCHANGED inputVars
  PROVE  InputInv' /\ UNCHANGED <<coef, inheaders, eoi_reached>>
<1>1. pos' \in Nat \ {0}
  BY DEF InputInv, Counters, inputVars, reader
<1>2. InputStep("CONTINUE")
  BY <1>1, ReaderMoves DEF inputVars, source, seen, setup
<1> QED
  BY <1>2 DEF InputStep, inputVars, scans, progress

\* Giving out lines, which takes a row now and then.
LEMMA LinesOut ==
  ASSUME InputInv, output_iMCU_row \in Nat, coef # <<>> => decompress_data # "decompress_onepass",
         NEW ret, NEW n, ProcessData(ret, n)
  PROVE  OutputStep
<1>1. CASE UNCHANGED inputVars /\ UNCHANGED output_iMCU_row
  BY <1>1, NothingRead DEF OutputStep, Behind
<1>2. CASE \E r \in Retcodes : DecompressData(r)
  BY <1>2, RowOut
<1> QED
  BY <1>1, <1>2 DEF ProcessData

-----------------------------------------------------------------------------

\* What any step keeps.
Keeping == InputInv' /\ Phases' /\ Behind

\* An error ends the datastream and touches no array.
LEMMA KeptByError ==
  ASSUME InputInv, Phases, NEW e, ErrorExit(e)
  PROVE  Keeping
<1>1. InputInv' /\ UNCHANGED <<coef, inheaders, eoi_reached, output_iMCU_row, decompress_data>>
  <2>1. pos' \in Nat \ {0}
    BY DEF InputInv, Counters, ErrorExit, reader
  <2>2. InputStep("CONTINUE")
    BY <2>1, ReaderMoves DEF ErrorExit, source, seen, setup
  <2> QED
    BY <2>2 DEF InputStep, ErrorExit, scans, progress, outputVars
<1> QED
  BY <1>1 DEF Keeping, Phases, Behind, ErrorExit, Return, NoCall

\* Setting up the first scan makes the arrays, if there are to be any.
LEMMA KeptBySelection ==
  ASSUME InputInv, Phases, global_state = "READY", master_selection, global_state' \in {"BUFIMAGE", "PRELOAD"},
         call' \in {NoCall, "jpeg_start_decompress"}
  PROVE  Keeping
<1>1. /\ inheaders = 0 /\ ~ eoi_reached
      /\ UNCHANGED <<source, reader, seen, block_size, scans, progress, output_iMCU_row>>
      /\ input_iMCU_row' = 0 /\ MCU_vert_offset' = 0
      /\ consume_input' = IF use_c_buffer THEN "consume_data" ELSE "dummy_consume_data"
  BY DEF Phases, master_selection, start_input_pass
<1>2. Sized
  BY <1>1 DEF InputInv, Headers, Sized
<1>3. UNCHANGED <<frame, block_size>>
  BY <1>1 DEF seen
<1>4. Counters'
  BY <1>1 DEF InputInv, Counters, reader, scans, progress
<1>5. Headers'
  BY <1>1, <1>3, SizesStay DEF InputInv, Headers, source, seen, scans, progress, ScanComps
<1>6. Arrays'
  <2> SUFFICES ASSUME coef' # <<>> PROVE Arrays'
    BY DEF Arrays
  <2>1. use_c_buffer
    BY DEF master_selection
  <2>2. coef' = [c \in Comps |-> [b \in 0..(total_iMCU_rows * frame.comps[c].v - 1) |-> 0]]
    BY <2>1 DEF master_selection
  <2>3. DOMAIN coef' = Comps /\ \A c \in Comps : DOMAIN coef'[c] = 0..(total_iMCU_rows * frame.comps[c].v - 1)
    BY <2>2
  <2>4. consume_input' = "consume_data"
    BY <1>1, <2>1
  <2>5. ScanComps(scan)' \subseteq Comps
    BY <1>1 DEF InputInv, Headers, scans, ScanComps
  <2>6. \A c \in Comps : frame.comps[c].v \in Nat /\ height_in_blocks(c) \in Nat
    BY <1>2, Dimensions
  <2>7. Filled'
    BY <1>1, <1>3, <2>4, <2>5, <2>6, SizesStay DEF Filled
  <2> QED
    BY <1>1, <1>3, <2>3, <2>4, <2>7, SizesStay DEF Arrays, scans, progress
<1>7. Phases'
  BY <1>1 DEF Phases, NoCall
<1>8. Behind
  BY <1>1 DEF Behind, Phases
<1> QED
  BY <1>4, <1>5, <1>6, <1>7, <1>8 DEF InputInv, Keeping

\* A step inside a call that reads input.
LEMMA KeptByReading ==
  ASSUME InputInv, Phases, call # NoCall, NEW ret \in Retcodes, ConsumeInput(ret),
         UNCHANGED <<output_iMCU_row, decompress_data>>, call' \in {call, NoCall, "absorbed"},
         \/ UNCHANGED global_state
         \/ global_state' = "READY" /\ ret = "REACHED_SOS" /\ call' = NoCall
  PROVE  Keeping
<1>1. InputStep(ret)
  BY ReadingStep
<1> QED
  BY <1>1 DEF InputStep, Keeping, Phases, Behind, NoCall

\* The steps inside a call.
LEMMA KeptByLibrary ==
  ASSUME InputInv, Phases, LibraryStep(FALSE)
  PROVE  Keeping
<1>1. CASE \E e : ErrorExit(e)
  BY <1>1, KeptByError
<1>3. CASE ReadHeader \/ TakeInput \/ AbsorbScans
  <2>1. PICK ret \in Retcodes : ConsumeInput(ret) /\ call' \in {call, NoCall, "absorbed"}
           /\ (\/ UNCHANGED global_state
               \/ global_state' = "READY" /\ ret = "REACHED_SOS" /\ call' = NoCall)
    BY <1>3 DEF ReadHeader, TakeInput, AbsorbScans, Return
  <2> QED
    BY <1>3, <2>1, KeptByReading DEF ReadHeader, TakeInput, AbsorbScans, outputVars, NoCall
<1>4. CASE (FinishOutput \/ FinishDecompress) /\ \E ret \in Retcodes : ConsumeInput(ret) /\ UNCHANGED global_state
           /\ call' \in {call, NoCall}
  BY <1>4, KeptByReading DEF FinishOutput, FinishDecompress, outputVars, NoCall
<1>5. CASE FinishOutput \/ FinishDecompress
  <2>1. CASE UNCHANGED inputVars
    <3>1. \/ /\ global_state' \in {"BUFIMAGE", "START"} /\ call' = NoCall
             /\ UNCHANGED <<output_iMCU_row, decompress_data>>
          \/ \E ret \in Retcodes : ConsumeInput(ret) /\ UNCHANGED global_state /\ call' \in {call, NoCall}
      BY <1>5 DEF FinishOutput, FinishDecompress, Return, jpeg_abort, outputVars
    <3> QED
      BY <1>4, <1>5, <2>1, <3>1, NothingRead DEF Keeping, Phases, Behind, NoCall
  <2>2. CASE ~ UNCHANGED inputVars
    BY <1>4, <1>5, <2>2 DEF FinishOutput, FinishDecompress, Return
  <2> QED
    BY <2>1, <2>2
<1>6. CASE EndOfTables(FALSE)
  <2>1. UNCHANGED <<inputVars, output_iMCU_row, decompress_data>> /\ global_state' = "START" /\ call' = NoCall
    BY <1>6 DEF EndOfTables, jpeg_abort, Return, outputVars
  <2> QED
    BY <2>1, NothingRead DEF Keeping, Phases, Behind, NoCall
<1>7. CASE Absorbed
  <2>1. /\ output_scan_number' = input_scan_number /\ call' = "output_pass_setup"
        /\ UNCHANGED <<source, reader, seen, setup, pass, scans, eoi_reached, coef, output_iMCU_row, decompress_data,
                       global_state>>
    BY <1>7 DEF Absorbed, Enter, outputVars
  <2>2. call # NoCall
    BY <1>7 DEF Absorbed, NoCall
  <2>3. UNCHANGED <<frame, block_size>>
    BY <2>1 DEF seen, setup
  <2>4. Counters'
    BY <2>1 DEF InputInv, Counters, reader, scans, pass
  <2>5. Headers'
    BY <2>1, <2>3, SizesStay DEF InputInv, Headers, source, seen, setup, scans, pass, ScanComps
  <2>6. Filled => Filled'
    BY <2>1, <2>3, FilledStays DEF scans, pass
  <2>7. Arrays'
    <3>1. input_scan_number \in Nat
      BY DEF InputInv, Counters
    <3> QED
      BY <2>1, <2>3, <2>6, <3>1, SizesStay DEF InputInv, Arrays, scans, pass
  <2> QED
    BY <2>1, <2>2, <2>4, <2>5, <2>7 DEF InputInv, Keeping, Phases, Behind, NoCall, scans
<1>8. CASE SetUpPass
  <2>1. CASE PreparePass /\ global_state' = "PRESCAN" /\ UNCHANGED call
    <3>1. /\ UNCHANGED inputVars /\ output_iMCU_row' = 0
          /\ coef # <<>> => decompress_data' # "decompress_onepass"
      BY <2>1 DEF PreparePass, start_output_pass
    <3>2. call = "output_pass_setup"
      BY <1>8 DEF SetUpPass
    <3> QED
      BY <2>1, <3>1, <3>2, NothingRead DEF Keeping, Phases, Behind
  <2> QED
    BY <1>1, <1>8, <2>1 DEF SetUpPass
<1>9. CASE DummyPass
  <2>1. PICK ret : ProcessData(ret, 0)
    BY <1>9 DEF DummyPass
  <2>2. OutputStep
    BY <1>9, <2>1, LinesOut DEF DummyPass, Phases
  <2>3. call' \in {call, NoCall} /\ UNCHANGED <<global_state, decompress_data>> /\ global_state = "PRESCAN"
    BY <1>9 DEF DummyPass, Return
  <2> QED
    BY <2>2, <2>3 DEF OutputStep, Keeping, Phases, NoCall
<1>10. CASE EndDummyPass \/ OutputReady
  <2>1. /\ UNCHANGED <<inputVars, output_iMCU_row, decompress_data>>
        /\ call = "output_pass_setup" /\ call' \in {call, NoCall}
        /\ global_state = "PRESCAN" /\ global_state' \in {"PRESCAN", "SCANNING", "RAW_OK"}
    BY <1>10 DEF EndDummyPass, PrepareLastPass, OutputReady, Return, outputVars, control
  <2> QED
    BY <2>1, NothingRead DEF Keeping, Phases, Behind, NoCall
<1>11. CASE ReadScanlines
  <2>1. PICK ret : ProcessData(ret, max_lines)
    BY <1>11 DEF ReadScanlines
  <2>2. global_state = "SCANNING"
    BY <1>11 DEF ReadScanlines, Phases
  <2>3. OutputStep
    BY <2>1, <2>2, LinesOut DEF Phases
  <2>4. call' \in {call, NoCall} /\ UNCHANGED <<global_state, decompress_data>>
    BY <1>11 DEF ReadScanlines, Return
  <2> QED
    BY <2>2, <2>3, <2>4 DEF OutputStep, Keeping, Phases, NoCall
<1>12. CASE ReadRawData
  <2>1. PICK ret \in Retcodes : DecompressData(ret)
    BY <1>12 DEF ReadRawData
  <2>2. global_state = "RAW_OK"
    BY <1>12 DEF ReadRawData, Phases
  <2>3. OutputStep
    BY <2>1, <2>2, RowOut DEF Phases
  <2>4. call' \in {call, NoCall} /\ UNCHANGED <<global_state, decompress_data>>
    BY <1>12 DEF ReadRawData, Return
  <2> QED
    BY <2>2, <2>3, <2>4 DEF OutputStep, Keeping, Phases, NoCall
<1> QED
  BY <1>3, <1>5, <1>6, <1>7, <1>8, <1>9, <1>10, <1>11, <1>12 DEF LibraryStep

\* A new datastream: nothing is known of it, and nothing of the last one is left.
LEMMA KeptByStart ==
  ASSUME InputInv, Phases, NEW fn \in {"jpeg_read_header", "jpeg_consume_input"}, StartHeader(fn)
  PROVE  Keeping
<1>1. /\ saw_SOF' = FALSE /\ scan'.comps = <<>> /\ input_scan_number' = 0 /\ inheaders' = 1
      /\ eoi_reached' = FALSE /\ consume_input' = "consume_markers" /\ coef' = <<>>
      /\ UNCHANGED <<stream, pos, output_scan_number, input_iMCU_row, MCU_vert_offset, output_iMCU_row>>
      /\ global_state' = "INHEADER" /\ call' = fn
  BY DEF StartHeader, reset_input_controller, NoScan, Enter, source, outputVars
<1>2. scan'.comps \in Seq(Nat)
  BY <1>1
<1>3. Counters'
  BY <1>1 DEF InputInv, Counters
<1>4. Headers'
  BY <1>1, <1>2 DEF InputInv, Headers
<1>5. Arrays'
  BY <1>1 DEF Arrays
<1>6. Phases' /\ Behind
  BY <1>1 DEF Phases, Behind
<1> QED
  BY <1>3, <1>4, <1>5, <1>6 DEF InputInv, Keeping

\* No call of the application breaks the invariant when it enters.
LEMMA KeptByApplication ==
  ASSUME InputInv, Phases, Application
  PROVE  Keeping
<1>1. CASE \E e : ErrorExit(e)
  BY <1>1, KeptByError
<1>2. CASE /\ UNCHANGED <<inputVars, output_iMCU_row, decompress_data, global_state>>
           /\ \/ call' \in {NoCall, call}
              \/ global_state # "READY" /\ call' \notin {"jpeg_read_scanlines", "jpeg_read_raw_data"}
  BY <1>2, NothingRead DEF Keeping, Phases, Behind, NoCall
<1>3. CASE jpeg_read_header
  <2>1. CASE ResumeHeader("jpeg_read_header")
    BY <1>2, <2>1 DEF ResumeHeader, Enter, outputVars
  <2> QED
    BY <1>3, <2>1, KeptByStart DEF jpeg_read_header
<1>4. CASE jpeg_consume_input
  <2>1. CASE ~ StartHeader("jpeg_consume_input")
    BY <1>2, <1>4, <2>1 DEF jpeg_consume_input, ResumeHeader, Enter, outputVars
  <2> QED
    BY <1>4, <2>1, KeptByStart
<1>5. CASE AdjustParameters \/ ChangeQuantizer
  BY <1>2, <1>5 DEF AdjustParameters, ChangeQuantizer, control
<1>6. CASE jpeg_start_decompress
  <2>1. CASE global_state = "READY" /\ master_selection
    <3>1. \/ global_state' \in {"BUFIMAGE", "PRELOAD"} /\ call' \in {NoCall, "jpeg_start_decompress"}
          \/ \E e : ErrorExit(e)
      BY <1>6, <2>1 DEF jpeg_start_decompress, Enter, Return
    <3> QED
      BY <1>1, <2>1, <3>1, KeptBySelection
  <2>2. CASE ~ (global_state = "READY" /\ master_selection)
    BY <1>1, <1>2, <1>6, <2>2 DEF jpeg_start_decompress, Enter, outputVars
  <2> QED
    BY <2>1, <2>2
<1>7. CASE \E n \in 0..(input_scan_number + 1) : jpeg_start_output(n)
  <2>1. PICK n \in 0..(input_scan_number + 1) : jpeg_start_output(n)
    BY <1>7
  <2>2. /\ input_scan_number \in Nat
        /\ coef # <<>> => input_scan_number >= 1
    BY DEF InputInv, Counters, Headers, Arrays
  <2>3. /\ output_scan_number' \in Nat
        /\ eoi_reached /\ coef # <<>> => output_scan_number' <= input_scan_number
        /\ call' = "output_pass_setup" /\ global_state # "READY"
        /\ UNCHANGED <<source, reader, seen, setup, pass, scans, eoi_reached, coef, output_iMCU_row, decompress_data,
                       global_state>>
    BY <2>1, <2>2 DEF jpeg_start_output, Enter, outputVars
  <2>4. UNCHANGED <<frame, block_size>>
    BY <2>3 DEF seen, setup
  <2>5. Counters'
    BY <2>3 DEF InputInv, Counters, reader, scans, pass
  <2>6. Headers'
    BY <2>3, <2>4, SizesStay DEF InputInv, Headers, source, seen, setup, scans, pass, ScanComps
  <2>7. Filled => Filled'
    BY <2>3, <2>4, FilledStays DEF scans, pass
  <2>8. Arrays'
    BY <2>3, <2>4, <2>7, SizesStay DEF InputInv, Arrays, scans, pass
  <2> QED
    BY <2>3, <2>5, <2>6, <2>8 DEF InputInv, Keeping, Phases, Behind, scans
<1>8. CASE (\E n \in 1..3 : jpeg_read_scanlines(n)) \/ jpeg_read_raw_data
  <2>1. /\ UNCHANGED <<inputVars, output_iMCU_row, decompress_data, global_state>>
        /\ \/ call' = "jpeg_read_scanlines" /\ global_state = "SCANNING"
           \/ call' = "jpeg_read_raw_data" /\ global_state = "RAW_OK"
    BY <1>8 DEF jpeg_read_scanlines, jpeg_read_raw_data, Enter, outputVars
  <2> QED
    BY <2>1, NothingRead DEF Keeping, Phases, Behind, NoCall
<1>9. CASE jpeg_finish_output \/ jpeg_finish_decompress
  <2>1. CASE /\ UNCHANGED <<inputVars, output_iMCU_row, decompress_data>>
             /\ global_state' \in {"BUFPOST", "STOPPING"}
             /\ call' \notin {"jpeg_read_scanlines", "jpeg_read_raw_data"}
    BY <2>1, NothingRead DEF Keeping, Phases, Behind
  <2> QED
    BY <1>1, <1>9, <2>1 DEF jpeg_finish_output, jpeg_finish_decompress, Enter, outputVars
<1> QED
  BY <1>3, <1>4, <1>5, <1>6, <1>7, <1>8, <1>9 DEF Application

\* A decompressor that was just created, with a source of data.
NewObject == DecompressInit /\ stream \in Seq(Units)

\* As an application finds it at the start.
LEMMA InitIsNew == Init => NewObject
BY StreamsAssumption DEF Init, NewObject

\* A new object has read nothing.
LEMMA InitialInput == NewObject => InputInv /\ Phases
<1> SUFFICES ASSUME NewObject PROVE InputInv /\ Phases
  OBVIOUS
<1>1. Counters
  BY DEF NewObject, DecompressInit, InputInit, Counters
<1>2. scan.comps \in Seq(Nat)
  BY DEF NewObject, DecompressInit, InputInit, NoScan
<1>3. Headers
  BY <1>2 DEF NewObject, DecompressInit, InputInit, Headers
<1>4. Arrays /\ Phases
  BY DEF NewObject, DecompressInit, InputInit, OutputInit, Arrays, Phases, NoCall
<1> QED
  BY <1>1, <1>3, <1>4 DEF InputInv

\* The invariant is inductive.
LEMMA InputStays ==
  ASSUME InputInv, Phases, [Next]_decompressVars
  PROVE  Keeping
<1>1. CASE UNCHANGED decompressVars
  BY <1>1, NothingRead DEF decompressVars, outputVars, control, Keeping, Phases, Behind
<1> QED
  BY <1>1, KeptByLibrary, KeptByApplication DEF Next

\* For every data source, every choice of parameters and every order of calls: a row goes out only
\* when the scan it is to show has brought it.
THEOREM InputFirst == Spec => OutputKeepsBehindInput
<1> DEFINE Body ==
      output_iMCU_row' = output_iMCU_row + 1 /\ coef # <<>> =>
        /\ input_scan_number >= output_scan_number
        /\ input_scan_number = output_scan_number =>
             \A c \in ScanComps(scan) :
               /\ \A b \in BlockRows(c, output_iMCU_row) : coef[c][b] = input_scan_number
               /\ decompress_data = "decompress_smooth_data" /\ scan.Ss = 0 =>
                    \A b \in BlockRows(c, output_iMCU_row + 1) : coef[c][b] = input_scan_number
           Inv == InputInv /\ Phases
<1>1. Inv /\ [Next]_decompressVars => Inv' /\ [Body]_decompressVars
  BY InputStays DEF Keeping, Behind, RowHasCome
<1>2. Init /\ [][Next]_decompressVars => [][Body]_decompressVars
  <2>1. Init => Inv
    BY InitIsNew, InitialInput
  <2> HIDE DEF Inv, Body
  <2> QED
    BY <1>1, <2>1, PTL
<1> QED
  BY <1>2, PTL DEF Spec, OutputKeepsBehindInput

-----------------------------------------------------------------------------
(* What a pass was made from. *)

\* The tables of the inverse DCTs are those of the components, as far as they were built.
SavedTables == inheaders # 1 => quant_table = [c \in Comps |-> quant_table[c]]
\* The inverse DCTs use the tables of their components, or have none yet.
Tables ==
  /\ SavedTables
  /\ coef # <<>> => idct_table = [c \in Comps |-> idct_table[c]] /\ \A c \in Comps : idct_table[c] \in {None, quant_table[c]}

\* Every row shown was complete, and is still what the arrays hold.
ShownIsKept ==
  \A r \in DOMAIN shown :
    /\ RowHasCome(r - 1)
    /\ \A c \in Comps : \A b \in BlockRows(c, r - 1) : shown[r][c][b] = coef[c][b]

\* Every component has its table.
AllTables == \A c \in Comps : quant_table[c] # None

\* As long as no scan began after the one that is shown.  Nothing is shown of a scan to come.
InSync ==
  ~ premature =>
    /\ output_scan_number >= input_scan_number => idct_table = quant_table
    /\ output_scan_number > input_scan_number => shown = <<>> /\ AllTables
    /\ input_scan_number = output_scan_number => ShownIsKept

\* While a pass is under way, or over but still the last.
Passing ==
  \/ global_state \in {"PRESCAN", "SCANNING", "RAW_OK", "BUFPOST"}
  \/ global_state = "BUFIMAGE" /\ shown # <<>>

\* The order of the calls of a pass.
PassOrder ==
  /\ call = "jpeg_start_decompress" => global_state = "PRELOAD"
  /\ call = "absorbed" => global_state = "PRELOAD"
  /\ global_state = "PRELOAD" => ~ premature /\ shown = <<>>
  /\ call = "jpeg_finish_output" => global_state = "BUFPOST"
  /\ call = "output_pass_setup" => global_state \in {"PRELOAD", "BUFIMAGE", "PRESCAN"}
  /\ call = "output_pass_setup" /\ global_state # "PRESCAN" =>
       shown = <<>> /\ (~ premature /\ output_scan_number > input_scan_number => AllTables)
  /\ global_state \in {"PRESCAN", "SCANNING", "RAW_OK"} => Len(shown) = output_iMCU_row
  /\ global_state \in {"BUFIMAGE", "BUFPOST"} => coef # <<>>
  /\ setting.buffered_image /\ global_state \notin {"START", "INHEADER", "READY"} => coef # <<>>
  /\ \E S : shown \in Seq(S)

\* What makes the last pass the final one.
PassInv ==
  /\ setting \in Parameters
  /\ Tables
  /\ PassOrder
  /\ Passing /\ coef # <<>> => InSync

\* What reading input does to the arrays and the tables.
Effect ==
  /\ SavedTables => SavedTables'
  /\ coef # <<>> => coef' # <<>>
  /\ coef # <<>> =>
     /\ UNCHANGED <<frame, block_size>>
     /\ input_scan_number' >= input_scan_number
     /\ output_scan_number' = output_scan_number
        \/ (output_scan_number' = input_scan_number' /\ output_scan_number > input_scan_number)
     /\ SavedTables => \A c \in Comps : quant_table'[c] = quant_table[c] \/ quant_table[c] = None
     /\ input_scan_number' = input_scan_number =>
          /\ quant_table' = quant_table
          /\ ScanComps(scan') \subseteq ScanComps(scan)
          /\ \A c \in Comps : \A b \in 0..(height_in_blocks(c) - 1) :
               \/ coef'[c][b] = coef[c][b]
               \/ c \in ScanComps(scan) /\ coef'[c][b] = input_scan_number

\* Most steps of the input bring nothing that a pass is made from.
LEMMA NoEffect ==
  ASSUME InputInv,
         UNCHANGED <<frame, block_size, scan, input_scan_number, output_scan_number, inheaders, quant_table, coef>>
  PROVE  Effect
<1>1. input_scan_number \in Nat
  BY DEF InputInv, Counters
<1> QED
  BY <1>1 DEF Effect, SavedTables, Comps, ScanComps

\* A marker brings no coefficients; only SOS begins a scan.
LEMMA MarkerEffect ==
  ASSUME InputInv, NEW ret, consume_markers(ret)
  PROVE  Effect
<1>1. CASE (\E e : Fail(ret, e)) \/ UNCHANGED inputVars
  BY <1>1, NoEffect DEF Fail, inputVars, seen, setup, scans, progress
<1>2. CASE first_marker(ret) \/ next_marker(ret) \/ get_soi(ret) \/ get_dqt(ret) \/ get_dht(ret)
           \/ skip_variable(ret) \/ UnknownMarker(ret)
  BY <1>1, <1>2, NoEffect DEF first_marker, next_marker, get_soi, get_dqt, get_dht, skip_variable,
     UnknownMarker,
     seen, setup, scans, progress
<1>3. CASE get_sof(ret)
  <2>1. CASE saw_SOF
    BY <1>1, <1>3, <2>1 DEF get_sof
  <2>2. CASE ~ saw_SOF
    <3>1. coef = <<>> /\ inheaders = 1
      BY <2>2 DEF InputInv, Headers, Arrays
    <3>2. inheaders' = 1
      BY <1>3, <2>2, <3>1 DEF get_sof, scans
    <3> QED
      BY <3>1, <3>2 DEF Effect, SavedTables
  <2> QED
    BY <2>1, <2>2
<1>4. CASE FirstSos(ret) /\ ~ \E e : Fail(ret, e)
  <2>1. coef = <<>>
    BY <1>4 DEF FirstSos, InputInv, Arrays
  <2>2. /\ UNCHANGED frame
        /\ \/ quant_table' = [c \in Comps |-> None]
           \/ inheaders # 1 /\ UNCHANGED quant_table
    BY <1>4 DEF FirstSos, initial_setup, SosRead, seen, setup
  <2>3. Comps' = Comps
    BY <2>2 DEF Comps
  <2> QED
    BY <2>1, <2>2, <2>3 DEF Effect, SavedTables
<1>5. CASE LaterSos(ret) /\ ~ \E e : Fail(ret, e)
  <2>1. /\ SosRead(Unit) /\ UNCHANGED block_size
        /\ \/ Unit.comps = <<>> /\ UNCHANGED setup
           \/ Unit.comps # <<>> /\ quant_table' = latch_quant_tables(Unit, quant_table)
    BY <1>5 DEF LaterSos, start_input_pass, setup
  <2>2. /\ UNCHANGED <<frame, block_size, output_scan_number, coef>>
        /\ scan'.comps = Unit.comps
        /\ input_scan_number' = input_scan_number + (IF Unit.comps = <<>> THEN 0 ELSE 1)
    BY <2>1 DEF SosRead, seen, progress
  <2>3. input_scan_number \in Nat
    BY DEF InputInv, Counters
  <2>4. CASE Unit.comps = <<>>
    <3>1. ScanComps(scan') = {} /\ input_scan_number' = input_scan_number /\ UNCHANGED <<quant_table, inheaders>>
      BY <1>5, <2>1, <2>2, <2>3, <2>4 DEF ScanComps, setup, LaterSos
    <3> QED
      BY <2>2, <2>3, <3>1 DEF Effect, SavedTables, Comps
  <2>5. CASE Unit.comps # <<>>
    <3>1. /\ quant_table' = latch_quant_tables(Unit, quant_table)
          /\ input_scan_number' > input_scan_number
          /\ inheaders = 0
      BY <1>5, <2>1, <2>2, <2>3, <2>5 DEF LaterSos
    <3>2. Comps' = Comps
      BY <2>2 DEF Comps
    <3>3. SavedTables => /\ SavedTables'
                         /\ \A c \in Comps : quant_table'[c] = quant_table[c] \/ quant_table[c] = None
      <4> SUFFICES ASSUME SavedTables
                   PROVE  /\ SavedTables'
                          /\ \A c \in Comps : quant_table'[c] = quant_table[c] \/ quant_table[c] = None
        OBVIOUS
      <4>1. DOMAIN quant_table = Comps
        BY <3>1 DEF SavedTables
      <4>2. quant_table' = [c \in Comps |-> IF c \in ScanComps(Unit) /\ quant_table[c] = None
                                           THEN quant_tbl[frame.comps[c].tq] ELSE quant_table[c]]
        BY <3>1, <4>1 DEF latch_quant_tables
      <4> QED
        BY <3>2, <4>2 DEF SavedTables
    <3> QED
      BY <2>2, <2>3, <3>1, <3>3 DEF Effect
  <2> QED
    BY <2>4, <2>5
<1>6. CASE ReachEoi(ret)
  <2>1. /\ UNCHANGED <<frame, block_size, quant_table, scan, input_scan_number, inheaders, coef>>
        /\ inheaders = 0 => \/ output_scan_number' = output_scan_number
                            \/ output_scan_number' = input_scan_number /\ output_scan_number > input_scan_number
    BY <1>6 DEF ReachEoi, seen, setup, scans
  <2>2. input_scan_number \in Nat /\ (coef # <<>> => inheaders = 0)
    BY DEF InputInv, Counters, Arrays
  <2> QED
    BY <2>1, <2>2 DEF Effect, SavedTables, Comps, ScanComps
<1> QED
  BY <1>1, <1>2, <1>3, <1>4, <1>5, <1>6 DEF consume_markers

\* The data of a row changes the arrays of its own scan's components only.
LEMMA DataEffect ==
  ASSUME InputInv, NEW ret, DecodeRow(ret)
  PROVE  Effect
<1>1. CASE UNCHANGED inputVars
  BY <1>1, NoEffect DEF inputVars, seen, setup, scans, progress
<1>2. CASE ~ UNCHANGED inputVars
  <2>1. /\ coef' = [c \in DOMAIN coef |->
                     IF c \notin ScanComps(scan) THEN coef[c]
                     ELSE [b \in DOMAIN coef[c] |-> IF b \in FilledRows(c) THEN input_scan_number ELSE coef[c][b]]]
        /\ UNCHANGED <<source, seen, tables, setup, coef_bits, scans, progress, error>>
    BY <1>2 DEF DecodeRow
  <2>2. UNCHANGED <<frame, block_size, quant_table, scan, inheaders, input_scan_number, output_scan_number>>
    BY <2>1 DEF seen, setup, scans, progress
  <2>3. input_scan_number \in Nat
    BY DEF InputInv, Counters
  <2>4. SavedTables => SavedTables'
    BY <2>2 DEF SavedTables, Comps
  <2>5. SUFFICES ASSUME coef # <<>> PROVE Effect
    BY <2>4 DEF Effect
  <2>6. Sized /\ DOMAIN coef = Comps
    BY <2>5 DEF InputInv, Headers, Arrays, Sized
  <2>7. coef' # <<>>
    <3>1. 1 \in Comps
      BY <2>6 DEF Sized, Comps
    <3>2. 1 \in DOMAIN coef'
      BY <2>1, <2>6, <3>1
    <3> QED
      BY <3>2
  <2>8. ASSUME NEW c \in Comps, NEW b \in 0..(height_in_blocks(c) - 1)
        PROVE  \/ coef'[c][b] = coef[c][b]
               \/ c \in ScanComps(scan) /\ coef'[c][b] = input_scan_number
    <3>1. CASE c \notin ScanComps(scan)
      BY <2>1, <2>6, <3>1
    <3>2. CASE c \in ScanComps(scan)
      <4>1. b \in DOMAIN coef[c]
        <5>1. /\ DOMAIN coef[c] = 0..(total_iMCU_rows * frame.comps[c].v - 1)
              /\ height_in_blocks(c) \in Nat
              /\ height_in_blocks(c) <= total_iMCU_rows * frame.comps[c].v
              /\ total_iMCU_rows * frame.comps[c].v \in Nat
          <6>1. frame.comps[c].v \in Nat /\ total_iMCU_rows \in Nat
            BY <2>6, Dimensions
          <6>2. total_iMCU_rows * frame.comps[c].v \in Nat
            BY <6>1
          <6> QED
            BY <2>5, <2>6, <6>2, Dimensions DEF InputInv, Arrays
        <5> QED
          BY <5>1
      <4>2. coef'[c] = [x \in DOMAIN coef[c] |-> IF x \in FilledRows(c) THEN input_scan_number ELSE coef[c][x]]
        BY <2>1, <2>6, <3>2
      <4> QED
        BY <3>2, <4>1, <4>2
    <3> QED
      BY <3>1, <3>2
  <2> QED
    BY <2>2, <2>3, <2>4, <2>7, <2>8 DEF Effect, ScanComps
<1> QED
  BY <1>1, <1>2

\* The two together: any step that reads.
LEMMA ReadingEffect ==
  ASSUME InputInv, NEW ret, ConsumeInput(ret)
  PROVE  Effect
<1>1. CASE UNCHANGED inputVars
  BY <1>1, NoEffect DEF inputVars, seen, setup, scans, progress
<1> QED
  BY <1>1, MarkerEffect, DataEffect DEF ConsumeInput, dummy_consume_data

\* Tables of the inverse DCTs stay good whatever is read.
LEMMA TablesStay ==
  ASSUME InputInv, Tables, Effect, coef = <<>> => coef' = <<>>, UNCHANGED idct_table
  PROVE  Tables'
<1>1. CASE coef = <<>>
  BY <1>1 DEF Tables, Effect
<1>2. CASE coef # <<>>
  <2>1. Comps' = Comps
    BY <1>2, SizesStay DEF Effect
  <2> QED
    BY <1>2, <2>1 DEF Effect, Tables
<1> QED
  BY <1>1, <1>2

\* Within the scan that is shown, what was shown stays what the arrays hold.
LEMMA LastScanStays ==
  ASSUME InputInv, InputInv', InSync, Effect, coef # <<>>, ~ premature,
         UNCHANGED <<idct_table, shown, input_scan_number, output_scan_number>>,
         input_scan_number = output_scan_number
  PROVE  (idct_table = quant_table)' /\ ShownIsKept'
<1>1. input_scan_number \in Nat /\ output_scan_number \in Nat
  BY DEF InputInv, Counters
<1>2. input_scan_number' = input_scan_number /\ input_scan_number = output_scan_number
  OBVIOUS
<1>3. idct_table = quant_table /\ ShownIsKept
  BY <1>1 DEF InSync
<1>4. /\ quant_table' = quant_table
      /\ ScanComps(scan') \subseteq ScanComps(scan)
      /\ \A c \in Comps : \A b \in 0..(height_in_blocks(c) - 1) :
           \/ coef'[c][b] = coef[c][b]
           \/ c \in ScanComps(scan) /\ coef'[c][b] = input_scan_number
      /\ UNCHANGED <<frame, block_size>>
  BY <1>2 DEF Effect
<1>5. ScanComps(scan) \subseteq Comps
  BY DEF InputInv, Headers, Arrays
<1>6. Comps' = Comps /\ \A c, r : BlockRows(c, r)' = BlockRows(c, r)
  BY <1>4, SizesStay
<1>7. ScanComps(scan)' = ScanComps(scan')
  BY DEF ScanComps
<1>8. ASSUME NEW r \in DOMAIN shown PROVE RowHasCome(r - 1)'
  <2> SUFFICES ASSUME NEW c \in ScanComps(scan'), NEW b \in BlockRows(c, r - 1)
               PROVE  coef'[c][b] = input_scan_number
    BY <1>2, <1>6, <1>7 DEF RowHasCome
  <2>1. c \in ScanComps(scan) /\ c \in Comps /\ b \in 0..(height_in_blocks(c) - 1)
    BY <1>4, <1>5 DEF BlockRows
  <2>2. coef[c][b] = input_scan_number
    BY <1>3, <2>1 DEF ShownIsKept, RowHasCome
  <2> QED
    BY <1>4, <2>1, <2>2
<1>9. ASSUME NEW r \in DOMAIN shown, NEW c \in Comps, NEW b \in BlockRows(c, r - 1)
       PROVE  shown[r][c][b] = coef'[c][b]
  <2>1. b \in 0..(height_in_blocks(c) - 1) /\ shown[r][c][b] = coef[c][b]
    BY <1>3 DEF BlockRows, ShownIsKept
  <2>2. c \in ScanComps(scan) => coef[c][b] = input_scan_number
    BY <1>3 DEF ShownIsKept, RowHasCome
  <2> QED
    BY <1>4, <2>1, <2>2
<1> QED
  BY <1>3, <1>4, <1>6, <1>8, <1>9 DEF ShownIsKept

\* What was shown stays what the arrays hold, as long as no other scan begins.
LEMMA InSyncStays ==
  ASSUME InputInv, InputInv', Tables, Tables', InSync, Effect, coef # <<>>, premature => premature',
         UNCHANGED <<idct_table, shown>>
  PROVE  InSync'
<1> SUFFICES ASSUME ~ premature, ~ premature', output_scan_number' >= input_scan_number'
             PROVE  /\ idct_table' = quant_table'
                    /\ output_scan_number' > input_scan_number' => shown' = <<>> /\ AllTables'
                    /\ input_scan_number' = output_scan_number' => ShownIsKept'
  <2>1. /\ input_scan_number' \in Nat /\ output_scan_number' \in Nat
    BY DEF InputInv, Counters
  <2>2. CASE output_scan_number' >= input_scan_number'
    BY <2>1, <2>2, Zenon DEF InSync
  <2>3. CASE output_scan_number' < input_scan_number'
    BY <2>1, <2>3 DEF InSync
  <2> QED
    BY <2>1, <2>2, <2>3
<1>1. input_scan_number \in Nat /\ output_scan_number \in Nat /\ input_scan_number' >= input_scan_number
      /\ input_scan_number' \in Nat /\ output_scan_number' \in Nat
  BY DEF InputInv, Counters, Effect
<1>2. output_scan_number' = output_scan_number
      \/ (output_scan_number' = input_scan_number' /\ output_scan_number > input_scan_number)
  BY DEF Effect
<1>3. UNCHANGED <<frame, block_size>> /\ Comps' = Comps
  BY SizesStay DEF Effect
<1>4. CASE output_scan_number > input_scan_number
  <2>1. idct_table = quant_table /\ shown = <<>> /\ AllTables
    BY <1>1, <1>4 DEF InSync
  <2>2. /\ quant_table = [c \in Comps |-> quant_table[c]]
        /\ quant_table' = [c \in Comps |-> quant_table'[c]]
    <3>1. inheaders # 1
      BY DEF InputInv, Arrays
    <3>2. coef' # <<>>
      BY DEF Effect
    <3>3. (inheaders # 1)'
      BY <3>2 DEF InputInv, Arrays
    <3> QED
      BY <1>3, <3>1, <3>3 DEF Tables, SavedTables
  <2>3. \A c \in Comps : quant_table'[c] = quant_table[c]
    BY <2>1 DEF AllTables, Tables, Effect
  <2>4. quant_table' = quant_table
    BY <2>2, <2>3
  <2>5. AllTables'
    BY <1>3, <2>1, <2>4 DEF AllTables
  <2>6. ShownIsKept'
    BY <2>1 DEF ShownIsKept
  <2> QED
    BY <2>1, <2>4, <2>5, <2>6
<1>5. CASE output_scan_number < input_scan_number
  BY <1>1, <1>2, <1>5
<1>6. CASE output_scan_number = input_scan_number
  <2>1. input_scan_number' = input_scan_number /\ output_scan_number' = output_scan_number
    BY <1>1, <1>2, <1>6
  <2> QED
    BY <1>1, <1>6, <2>1, LastScanStays
<1> QED
  BY <1>1, <1>4, <1>5, <1>6

-----------------------------------------------------------------------------
(* The last pass: no step spoils what it has shown. *)

\* Sequences of anything may be appended to.
LEMMA Appended ==
  ASSUME NEW s, NEW S, s \in Seq(S), NEW e
  PROVE  /\ \E R : Append(s, e) \in Seq(R)
         /\ Len(Append(s, e)) = Len(s) + 1
         /\ DOMAIN Append(s, e) = 1..(Len(s) + 1)
         /\ DOMAIN s = 1..Len(s) /\ Len(s) \in Nat
         /\ \A i \in 1..Len(s) : Append(s, e)[i] = s[i]
         /\ Append(s, e)[Len(s) + 1] = e
<1> DEFINE R == S \cup {e}
<1>1. s \in Seq(R) /\ e \in R
  OBVIOUS
<1>2. Append(s, e) \in Seq(R)
  BY <1>1
<1> QED
  BY <1>1, <1>2

\* A row that goes out was complete, if the scan it is for is the last.
LEMMA ShowStep ==
  ASSUME InputInv, PassInv, Len(shown) = output_iMCU_row, output_iMCU_row \in Nat, coef # <<>>, ~ AheadOfInput,
         InSync, ShowRow(output_iMCU_row), UNCHANGED inputVars, UNCHANGED <<idct_table, premature>>
  PROVE  InSync'
<1>1. PICK S : shown \in Seq(S)
  BY DEF PassInv, PassOrder
<1> DEFINE e == [c \in DOMAIN coef |-> [b \in BlockRows(c, output_iMCU_row) |-> coef[c][b]]]
           n == Len(shown)
<1>2. shown' = Append(shown, e)
  BY DEF ShowRow
<1> HIDE DEF e
<1>3. /\ n \in Nat /\ n = output_iMCU_row
      /\ DOMAIN shown' = 1..(n + 1) /\ DOMAIN shown = 1..n
      /\ \A i \in 1..n : shown'[i] = shown[i]
      /\ shown'[n + 1] = e
  BY <1>1, <1>2, Appended
<1>4. UNCHANGED <<frame, block_size, scan, input_scan_number, output_scan_number, quant_table, coef>>
  BY DEF inputVars, seen, setup, scans, progress
<1>5. Comps' = Comps /\ (\A c, r : BlockRows(c, r)' = BlockRows(c, r)) /\ ScanComps(scan)' = ScanComps(scan)
  BY <1>4, SizesStay DEF ScanComps
<1>6. SUFFICES ASSUME ~ premature, input_scan_number = output_scan_number PROVE ShownIsKept'
  <2>1. /\ input_scan_number \in Nat /\ output_scan_number \in Nat /\ input_scan_number >= output_scan_number
    BY RowGoesOut DEF InputInv, Counters
  <2> QED
    BY <1>4, <2>1 DEF InSync
<1>7. ShownIsKept /\ RowHasCome(output_iMCU_row)
  BY <1>6, RowGoesOut DEF InSync
<1>8. DOMAIN coef = Comps
  BY DEF InputInv, Arrays
<1>9. ASSUME NEW r \in 1..(n + 1)
      PROVE  /\ RowHasCome(r - 1)
             /\ \A c \in Comps : \A b \in BlockRows(c, r - 1) : shown'[r][c][b] = coef[c][b]
  <2>1. CASE r \in 1..n
    BY <1>3, <1>7, <2>1 DEF ShownIsKept
  <2>2. CASE r = n + 1
    <3>1. r - 1 = output_iMCU_row /\ shown'[r] = e
      BY <1>3, <2>2
    <3>2. \A c \in Comps : \A b \in BlockRows(c, output_iMCU_row) : e[c][b] = coef[c][b]
      BY <1>8 DEF e
    <3> QED
      BY <1>7, <3>1, <3>2
  <2> QED
    BY <1>3, <2>1, <2>2
<1>10. \A r : RowHasCome(r)' <=> RowHasCome(r)
  BY <1>4, <1>5 DEF RowHasCome
<1> QED
  BY <1>3, <1>4, <1>5, <1>9, <1>10 DEF ShownIsKept

\* The parameters that a picture starts with are some an application may choose.
LEMMA DefaultParameters == default_decompress_parms \in Parameters
BY DEF default_decompress_parms, Parameters

\* What a step does to the parameters.
SameSetting == setting' = setting \/ (global_state' = "READY" /\ setting' = default_decompress_parms)

\* A step inside a call that reads input.
LEMMA PassByReading ==
  ASSUME InputInv, InputInv', PassInv, NEW ret, ConsumeInput(ret), coef = <<>> => coef' = <<>>,
         UNCHANGED <<idct_table, premature, shown, output_iMCU_row>>, SameSetting,
         call \notin {"output_pass_setup", "absorbed"} \/ (global_state = "PRESCAN" /\ call' \in {call, NoCall}),
         call' \in {call, NoCall} \/ (call = "jpeg_start_decompress" /\ call' = "absorbed"),
         UNCHANGED global_state \/ (global_state' = "READY" /\ call' = NoCall)
  PROVE  PassInv'
<1>1. Effect
  BY ReadingEffect
<1>2. Tables'
  BY <1>1, TablesStay DEF PassInv
<1>3. coef # <<>> <=> coef' # <<>>
  BY <1>1 DEF Effect
<1>4. setting' \in Parameters
  BY DefaultParameters DEF PassInv, SameSetting
<1>5. PassOrder'
  BY <1>3 DEF PassInv, PassOrder, SameSetting, NoCall
<1>6. (Passing /\ coef # <<>> => InSync)'
  <2>1. CASE global_state' = "READY"
    BY <2>1 DEF Passing
  <2>2. CASE UNCHANGED global_state
    BY <1>1, <1>2, <1>3, <2>2, InSyncStays DEF PassInv, Passing
  <2> QED
    BY <2>1, <2>2
<1> QED
  BY <1>2, <1>4, <1>5, <1>6 DEF PassInv

\* A step inside a call that may give out a row.
LEMMA PassByRow ==
  ASSUME InputInv, InputInv', Phases, PassInv, NEW ret \in Retcodes, DecompressData(ret),
         global_state \in {"PRESCAN", "SCANNING", "RAW_OK"}, coef = <<>> => coef' = <<>>,
         UNCHANGED <<idct_table, premature, setting, global_state>>, call' \in {call, NoCall}
  PROVE  PassInv'
<1>1. CASE decompress_data # "decompress_onepass" /\ AheadOfInput
  <2>1. PICK r \in Retcodes : ConsumeInput(r) /\ UNCHANGED <<output_iMCU_row, shown>>
    BY <1>1 DEF DecompressData, DecompressFromArrays
  <2>2. call \notin {"output_pass_setup", "absorbed"} \/ (global_state = "PRESCAN" /\ call' \in {call, NoCall})
    BY DEF PassInv, PassOrder
  <2> QED
    BY <2>1, <2>2, PassByReading DEF SameSetting
<1>2. CASE decompress_data = "decompress_onepass" \/ ~ AheadOfInput
  <2>1. /\ \/ UNCHANGED <<output_iMCU_row, shown>> \/ ShowRow(output_iMCU_row)
        /\ UNCHANGED inputVars \/ (coef = <<>> /\ coef' = <<>> /\ Effect)
    <3>1. CASE decompress_data = "decompress_onepass"
      <4>1. PICK r \in Retcodes : /\ DecodeRow(r)
                                  /\ UNCHANGED <<output_iMCU_row, shown>> \/ ShowRow(output_iMCU_row)
        BY <3>1 DEF DecompressData, decompress_onepass
      <4>2. coef = <<>>
        BY <3>1 DEF Phases
      <4> QED
        BY <4>1, <4>2, DataEffect
    <3>2. CASE decompress_data # "decompress_onepass" /\ ~ AheadOfInput
      BY <3>2 DEF DecompressData, DecompressFromArrays
    <3> QED
      BY <1>2, <3>1, <3>2
  <2>2. Tables' /\ (coef # <<>> <=> coef' # <<>>)
    <3>1. CASE UNCHANGED inputVars
      BY <3>1 DEF PassInv, Tables, SavedTables, Comps, inputVars, seen, setup, scans
    <3>2. CASE coef = <<>> /\ coef' = <<>> /\ Effect
      BY <3>2, TablesStay DEF PassInv
    <3> QED
      BY <2>1, <3>1, <3>2
  <2>3. (\E S : shown \in Seq(S))' /\ Len(shown') = output_iMCU_row'
    <3>1. PICK S : shown \in Seq(S)
      BY DEF PassInv, PassOrder
    <3>2. Len(shown) = output_iMCU_row
      BY DEF PassInv, PassOrder
    <3>3. CASE UNCHANGED <<output_iMCU_row, shown>>
      BY <3>1, <3>2, <3>3
    <3>4. CASE ShowRow(output_iMCU_row)
      <4>1. PICK e : shown' = Append(shown, e)
        BY <3>4 DEF ShowRow
      <4>2. (\E R : Append(shown, e) \in Seq(R)) /\ Len(Append(shown, e)) = Len(shown) + 1
        BY <3>1, Appended
      <4> QED
        BY <3>2, <3>4, <4>1, <4>2 DEF ShowRow
    <3> QED
      BY <2>1, <3>3, <3>4
  <2>4. PassOrder'
    BY <2>2, <2>3 DEF PassInv, PassOrder, NoCall
  <2>5. (Passing /\ coef # <<>> => InSync)'
    <3> SUFFICES ASSUME coef' # <<>> PROVE InSync'
      OBVIOUS
    <3>1. coef # <<>> /\ InSync /\ UNCHANGED inputVars
      BY <2>1, <2>2 DEF PassInv, Passing
    <3>2. CASE UNCHANGED <<output_iMCU_row, shown>>
      <4>1. UNCHANGED <<frame, block_size, scan, input_scan_number, output_scan_number, inheaders, quant_table, coef>>
        BY <3>1 DEF inputVars, seen, setup, scans, progress
      <4>2. Effect
        BY <4>1, NoEffect
      <4> QED
        BY <2>2, <3>1, <3>2, <4>2, InSyncStays DEF PassInv
    <3>3. CASE ShowRow(output_iMCU_row)
      <4>1. Len(shown) = output_iMCU_row /\ output_iMCU_row \in Nat /\ decompress_data # "decompress_onepass"
        BY <3>1 DEF PassInv, PassOrder, Phases
      <4> QED
        BY <1>2, <3>1, <3>3, <4>1, ShowStep
    <3> QED
      BY <2>1, <3>2, <3>3
  <2> QED
    BY <2>2, <2>4, <2>5 DEF PassInv
<1> QED
  BY <1>1, <1>2

\* A step that only goes on with a call, or returns.
LEMMA PassStays ==
  ASSUME InputInv, PassInv, UNCHANGED <<inputVars, setting, idct_table, output_iMCU_row, shown, premature>>,
         PassOrder', Passing' => Passing
  PROVE  PassInv'
<1>1. UNCHANGED <<frame, block_size, scan, input_scan_number, output_scan_number, inheaders, quant_table, coef>>
  BY DEF inputVars, seen, setup, scans, progress
<1>2. Effect
  BY <1>1, NoEffect
<1>3. InputInv'
  BY NothingRead
<1>4. Tables'
  BY <1>1, <1>2, TablesStay DEF PassInv
<1>5. InSync /\ coef # <<>> => InSync'
  BY <1>2, <1>3, <1>4, InSyncStays DEF PassInv
<1> QED
  BY <1>1, <1>4, <1>5 DEF PassInv

\* Errors leave everything alone.
LEMMA PassByError ==
  ASSUME InputInv, InputInv', PassInv, NEW e, ErrorExit(e)
  PROVE  PassInv'
<1>1. /\ UNCHANGED <<frame, block_size, scan, input_scan_number, output_scan_number, inheaders, quant_table, coef>>
      /\ UNCHANGED <<setting, idct_table, output_iMCU_row, shown, premature, global_state>>
      /\ call' = NoCall
  BY DEF ErrorExit, Return, seen, setup, scans, progress, outputVars
<1>2. Effect
  BY <1>1, NoEffect
<1>3. Tables'
  BY <1>1, <1>2, TablesStay DEF PassInv
<1>4. InSync /\ coef # <<>> => InSync'
  BY <1>1, <1>2, <1>3, InSyncStays DEF PassInv
<1>5. PassOrder' /\ (Passing' => Passing)
  BY <1>1 DEF PassInv, PassOrder, Passing, NoCall
<1> QED
  BY <1>1, <1>3, <1>4, <1>5 DEF PassInv

\* No step inside a call breaks the invariant.
LEMMA PassByLibrary ==
  ASSUME InputInv, InputInv', Phases, PassInv, LibraryStep(FALSE)
  PROVE  PassInv'
<1>1. ASSUME NEW ret \in Retcodes, ConsumeInput(ret) PROVE coef = <<>> => coef' = <<>>
  BY <1>1, ReadingStep DEF InputStep
<1>2. CASE ReadHeader \/ TakeInput
  <2>1. PICK ret \in Retcodes : ConsumeInput(ret) /\ call' \in {call, NoCall}
           /\ (\/ UNCHANGED <<global_state, setting>>
               \/ global_state' = "READY" /\ setting' = default_decompress_parms /\ call' = NoCall)
    BY <1>2 DEF ReadHeader, TakeInput, Return
  <2>2. call \notin {"output_pass_setup", "absorbed"} /\ UNCHANGED <<idct_table, premature, shown, output_iMCU_row>>
    BY <1>2 DEF ReadHeader, TakeInput
  <2> QED
    BY <1>1, <2>1, <2>2, PassByReading DEF SameSetting
<1>3. CASE AbsorbScans
  <2>1. PICK ret \in Retcodes : ConsumeInput(ret) /\ (call' \in {NoCall, call} \/ call' = "absorbed")
    BY <1>3 DEF AbsorbScans
  <2>2. call = "jpeg_start_decompress" /\ UNCHANGED <<idct_table, premature, shown, output_iMCU_row, setting, global_state>>
    BY <1>3 DEF AbsorbScans, outputVars
  <2> QED
    BY <1>1, <2>1, <2>2, PassByReading DEF SameSetting
<1>4. CASE FinishOutput
  <2>1. CASE \E ret \in Retcodes : ConsumeInput(ret) /\ UNCHANGED global_state /\ call' \in {call, NoCall}
    <3>1. call = "jpeg_finish_output" /\ UNCHANGED <<idct_table, premature, shown, output_iMCU_row, setting>>
      BY <1>4 DEF FinishOutput, outputVars
    <3> QED
      BY <1>1, <2>1, <3>1, PassByReading DEF SameSetting
  <2>2. CASE UNCHANGED inputVars /\ global_state' = "BUFIMAGE" /\ call' = NoCall
    <3>1. global_state = "BUFPOST" /\ UNCHANGED <<setting, idct_table, premature, shown, output_iMCU_row>>
      BY <1>4 DEF FinishOutput, outputVars, PassInv, PassOrder
    <3>2. PassOrder'
      BY <2>2, <3>1 DEF PassInv, PassOrder, NoCall, inputVars
    <3> QED
      BY <2>2, <3>1, <3>2, PassStays DEF Passing
  <2> QED
    BY <1>4, <2>1, <2>2 DEF FinishOutput, Return
<1>5. CASE FinishDecompress
  <2>1. CASE \E ret \in Retcodes : ConsumeInput(ret) /\ UNCHANGED global_state /\ call' \in {call, NoCall}
    <3>1. call = "jpeg_finish_decompress" /\ UNCHANGED <<idct_table, premature, shown, output_iMCU_row, setting>>
      BY <1>5 DEF FinishDecompress, outputVars
    <3> QED
      BY <1>1, <2>1, <3>1, PassByReading DEF SameSetting
  <2>2. CASE UNCHANGED inputVars /\ global_state' = "START" /\ call' = NoCall
    <3>1. UNCHANGED <<setting, idct_table, premature, shown, output_iMCU_row>>
      BY <1>5 DEF FinishDecompress, outputVars
    <3>2. PassOrder'
      BY <2>2, <3>1 DEF PassInv, PassOrder, NoCall, inputVars
    <3> QED
      BY <2>2, <3>1, <3>2, PassStays DEF Passing
  <2> QED
    BY <1>5, <2>1, <2>2 DEF FinishDecompress, Return, jpeg_abort
<1>6. CASE EndOfTables(FALSE)
  <2>1. /\ UNCHANGED <<inputVars, setting, idct_table, premature, shown, output_iMCU_row>>
        /\ global_state' = "START" /\ call' = NoCall
    BY <1>6 DEF EndOfTables, jpeg_abort, Return, outputVars
  <2>2. PassOrder'
    BY <2>1 DEF PassInv, PassOrder, NoCall, inputVars
  <2> QED
    BY <2>1, <2>2, PassStays DEF Passing
<1>7. CASE Absorbed
  <2>1. /\ output_scan_number' = input_scan_number /\ call' = "output_pass_setup" /\ global_state = "PRELOAD"
        /\ UNCHANGED <<frame, quant_table, inheaders, input_scan_number, coef, setting, idct_table, premature, shown,
                       output_iMCU_row, global_state>>
    BY <1>7 DEF Absorbed, Enter, outputVars, seen, setup, scans, PassInv, PassOrder
  <2>2. Tables'
    BY <2>1 DEF PassInv, Tables, SavedTables, Comps
  <2>3. input_scan_number \in Nat
    BY DEF InputInv, Counters
  <2>4. PassOrder'
    BY <2>1, <2>3 DEF PassInv, PassOrder
  <2> QED
    BY <2>1, <2>2, <2>4 DEF PassInv, Passing
<1>8. CASE SetUpPass
  <2>1. CASE PreparePass /\ global_state' = "PRESCAN" /\ UNCHANGED <<call, premature>>
    <3>1. /\ UNCHANGED <<inputVars, setting>> /\ output_iMCU_row' = 0 /\ shown' = <<>>
          /\ idct_table' = [c \in Comps |-> IF idct_table[c] = None THEN quant_table[c] ELSE idct_table[c]]
      BY <2>1 DEF PreparePass, start_output_pass, start_pass_idct
    <3>2. call = "output_pass_setup" /\ global_state \in {"PRELOAD", "BUFIMAGE"}
      BY <1>8 DEF SetUpPass, PassInv, PassOrder
    <3>3. UNCHANGED <<frame, inheaders, quant_table, input_scan_number, output_scan_number, coef>>
      BY <3>1 DEF inputVars, seen, setup, scans, progress
    <3>4. Comps' = Comps
      BY <3>3 DEF Comps
    <3>5. coef # <<>> => idct_table' = quant_table
      <4> SUFFICES ASSUME coef # <<>> PROVE idct_table' = quant_table
        OBVIOUS
      <4>1. quant_table = [c \in Comps |-> quant_table[c]] /\ \A c \in Comps : idct_table[c] \in {None, quant_table[c]}
        BY DEF InputInv, Arrays, PassInv, Tables, SavedTables
      <4> QED
        BY <3>1, <4>1
    <3>6. Tables'
      BY <3>1, <3>3, <3>4, <3>5 DEF PassInv, Tables, SavedTables
    <3>7. shown' \in Seq({}) /\ Len(shown') = 0 /\ DOMAIN shown' = {}
      BY <3>1
    <3>8. PassOrder'
      BY <2>1, <3>1, <3>2, <3>3, <3>7 DEF PassInv, PassOrder
    <3>9. coef # <<>> => InSync'
      <4> SUFFICES ASSUME coef # <<>> PROVE InSync'
        OBVIOUS
      <4>1. idct_table' = quant_table' /\ ShownIsKept' /\ shown' = <<>>
        BY <3>1, <3>3, <3>5, <3>7 DEF ShownIsKept
      <4>2. ~ premature' /\ output_scan_number' > input_scan_number' => AllTables'
        BY <2>1, <3>2, <3>3, <3>4 DEF PassInv, PassOrder, AllTables
      <4> QED
        BY <4>1, <4>2 DEF InSync
    <3> QED
      BY <3>1, <3>3, <3>6, <3>8, <3>9 DEF PassInv
  <2> QED
    BY <1>8, <2>1, PassByError DEF SetUpPass
<1>9. ASSUME NEW ret, NEW n, ProcessData(ret, n), global_state \in {"PRESCAN", "SCANNING", "RAW_OK"},
             UNCHANGED <<idct_table, premature, setting, global_state>>, call' \in {call, NoCall}
      PROVE  PassInv'
  <2>1. CASE UNCHANGED inputVars /\ UNCHANGED <<output_iMCU_row, shown>>
    <3>1. PassOrder'
      BY <1>9, <2>1 DEF PassInv, PassOrder, NoCall, inputVars
    <3> QED
      BY <1>9, <2>1, <3>1, PassStays DEF Passing
  <2>2. CASE \E r \in Retcodes : DecompressData(r)
    <3>1. PICK r \in Retcodes : DecompressData(r)
      BY <2>2
    <3>2. coef = <<>> => coef' = <<>>
      BY <1>9, <3>1, RowOut DEF Phases, OutputStep
    <3> QED
      BY <1>9, <3>1, <3>2, PassByRow
  <2> QED
    BY <1>9, <2>1, <2>2 DEF ProcessData
<1>10. CASE DummyPass
  <2>1. PICK ret : ProcessData(ret, 0)
    BY <1>10 DEF DummyPass
  <2>2. global_state = "PRESCAN" /\ call' \in {call, NoCall} /\ UNCHANGED <<idct_table, premature, setting, global_state>>
    BY <1>10 DEF DummyPass, Return
  <2> QED
    BY <1>9, <2>1, <2>2
<1>11. CASE EndDummyPass \/ OutputReady
  <2>1. /\ UNCHANGED <<inputVars, setting, idct_table, premature, shown, output_iMCU_row>>
        /\ call = "output_pass_setup" /\ call' \in {call, NoCall}
        /\ global_state = "PRESCAN"
        /\ global_state' = "PRESCAN" \/ (global_state' \in {"SCANNING", "RAW_OK"} /\ call' = NoCall)
    BY <1>11 DEF EndDummyPass, PrepareLastPass, OutputReady, Return, outputVars, control
  <2>2. PassOrder'
    BY <2>1 DEF PassInv, PassOrder, NoCall, inputVars
  <2> QED
    BY <2>1, <2>2, PassStays DEF Passing
<1>12. CASE ReadScanlines
  <2>1. PICK ret : ProcessData(ret, max_lines)
    BY <1>12 DEF ReadScanlines
  <2>2. global_state = "SCANNING" /\ call' \in {call, NoCall} /\ UNCHANGED <<idct_table, premature, setting, global_state>>
    BY <1>12 DEF ReadScanlines, Return, Phases
  <2> QED
    BY <1>9, <2>1, <2>2
<1>13. CASE ReadRawData
  <2>1. PICK ret \in Retcodes : DecompressData(ret)
    BY <1>13 DEF ReadRawData
  <2>2. global_state = "RAW_OK" /\ call' \in {call, NoCall} /\ UNCHANGED <<idct_table, premature, setting, global_state>>
    BY <1>13 DEF ReadRawData, Return, Phases
  <2>3. coef = <<>> => coef' = <<>>
    BY <2>1, <2>2, RowOut DEF Phases, OutputStep
  <2> QED
    BY <2>1, <2>2, <2>3, PassByRow
<1> QED
  BY <1>2, <1>3, <1>4, <1>5, <1>6, <1>7, <1>8, <1>10, <1>11, <1>12, <1>13 DEF LibraryStep

\* A new datastream has no pass yet.
LEMMA PassByStart ==
  ASSUME PassInv, NEW fn \in {"jpeg_read_header", "jpeg_consume_input"}, StartHeader(fn)
  PROVE  PassInv'
<1>1. /\ inheaders' = 1 /\ coef' = <<>> /\ global_state' = "INHEADER" /\ call' = fn
      /\ UNCHANGED <<setting, shown>>
  BY DEF StartHeader, reset_input_controller, Enter, outputVars
<1> QED
  BY <1>1 DEF PassInv, Tables, SavedTables, PassOrder, Passing

\* Making the modules makes room for the tables, and arrays when there are to be any.
LEMMA PassBySelection ==
  ASSUME InputInv, Phases, PassInv, global_state = "READY", master_selection, premature' = FALSE,
         \/ setting.buffered_image /\ global_state' = "BUFIMAGE" /\ call' = NoCall
         \/ ~ setting.buffered_image /\ global_state' = "PRELOAD" /\ call' = "jpeg_start_decompress"
  PROVE  PassInv'
<1>1. /\ inheaders = 0
      /\ UNCHANGED <<frame, inheaders, setting>>
      /\ shown' = <<>>
      /\ idct_table' = [c \in Comps |-> None]
      /\ quant_table' = latch_quant_tables(scan, quant_table)
  BY DEF Phases, master_selection, start_input_pass, seen, scans
<1>2. Comps' = Comps
  BY <1>1 DEF Comps
<1>3. SavedTables'
  <2>1. DOMAIN quant_table = Comps
    BY <1>1 DEF PassInv, Tables, SavedTables
  <2>2. quant_table' = [c \in Comps |-> IF c \in ScanComps(scan) /\ quant_table[c] = None
                                       THEN quant_tbl[frame.comps[c].tq] ELSE quant_table[c]]
    BY <1>1, <2>1 DEF latch_quant_tables
  <2> QED
    BY <1>2, <2>2 DEF SavedTables
<1>4. Tables'
  BY <1>1, <1>2, <1>3 DEF Tables
<1>5. setting.buffered_image => coef' # <<>>
  <2> SUFFICES ASSUME setting.buffered_image PROVE coef' # <<>>
    OBVIOUS
  <2>1. DOMAIN coef' = Comps
    BY DEF master_selection, use_c_buffer
  <2>2. 1 \in Comps
    <3>1. Sized
      BY <1>1 DEF InputInv, Headers, Sized
    <3> QED
      BY <3>1 DEF Sized, Comps
  <2> QED
    BY <2>1, <2>2
<1>6. shown' \in Seq({})
  BY <1>1
<1>7. PassOrder'
  BY <1>1, <1>5, <1>6 DEF PassOrder, NoCall
<1> QED
  BY <1>1, <1>4, <1>7 DEF PassInv, Passing

\* No call of the application breaks it when it enters.
LEMMA PassByApplication ==
  ASSUME InputInv, InputInv', Phases, PassInv, Application
  PROVE  PassInv'
<1>1. CASE \E e : ErrorExit(e)
  BY <1>1, PassByError
<1>2. CASE /\ UNCHANGED <<inputVars, setting, idct_table, output_iMCU_row, shown, premature, global_state>>
           /\ call' \in {"jpeg_read_header", "jpeg_consume_input", "jpeg_read_scanlines", "jpeg_read_raw_data",
                         "jpeg_finish_decompress"}
              \/ (call' = "jpeg_start_decompress" /\ global_state = "PRELOAD")
              \/ (call' = "output_pass_setup" /\ global_state = "PRESCAN")
  <2>1. PassOrder'
    BY <1>2 DEF PassInv, PassOrder, inputVars
  <2> QED
    BY <1>2, <2>1, PassStays DEF Passing
<1>3. CASE jpeg_read_header
  <2>1. CASE ResumeHeader("jpeg_read_header")
    BY <1>2, <2>1 DEF ResumeHeader, Enter, outputVars
  <2> QED
    BY <1>3, <2>1, PassByStart DEF jpeg_read_header
<1>4. CASE jpeg_consume_input
  <2>1. CASE ~ StartHeader("jpeg_consume_input")
    BY <1>2, <1>4, <2>1 DEF jpeg_consume_input, ResumeHeader, Enter, outputVars
  <2> QED
    BY <1>4, <2>1, PassByStart
<1>5. CASE AdjustParameters
  <2>1. /\ UNCHANGED <<inputVars, idct_table, output_iMCU_row, shown, premature, global_state, call>>
        /\ global_state = "READY" /\ setting' \in Parameters
    BY <1>5, SettingsAssumption DEF AdjustParameters, control
  <2>2. UNCHANGED <<frame, inheaders, quant_table, coef>>
    BY <2>1 DEF inputVars, seen, setup, scans
  <2> QED
    BY <2>1, <2>2 DEF PassInv, Tables, SavedTables, Comps, PassOrder, Passing
<1>6. CASE ChangeQuantizer
  <2>1. /\ UNCHANGED <<inputVars, idct_table, output_iMCU_row, shown, premature, global_state, call>>
        /\ global_state = "BUFIMAGE" /\ setting' = [setting EXCEPT !.two_pass_quantize = ~ @]
    BY <1>6 DEF ChangeQuantizer, control
  <2>2. setting' \in Parameters
    BY <2>1 DEF PassInv, Parameters
  <2>3. UNCHANGED <<frame, block_size, scan, input_scan_number, output_scan_number, inheaders, quant_table, coef>>
    BY <2>1 DEF inputVars, seen, setup, scans, progress
  <2>4. Effect
    BY <2>3, NoEffect
  <2>5. Tables'
    BY <2>1, <2>3, <2>4, TablesStay DEF PassInv
  <2>6. InSync /\ coef # <<>> => InSync'
    BY <2>1, <2>4, <2>5, InSyncStays DEF PassInv
  <2>7. PassOrder'
    BY <2>1, <2>3 DEF PassInv, PassOrder, AllTables, Comps
  <2> QED
    BY <2>1, <2>2, <2>3, <2>5, <2>6, <2>7 DEF PassInv, Passing
<1>7. CASE jpeg_start_decompress
  <2>1. CASE global_state = "READY" /\ MasterError = NoError
    <3>1. /\ master_selection /\ premature' = FALSE
          /\ \/ setting.buffered_image /\ global_state' = "BUFIMAGE" /\ call' = NoCall
             \/ ~ setting.buffered_image /\ global_state' = "PRELOAD" /\ call' = "jpeg_start_decompress"
      BY <1>7, <2>1 DEF jpeg_start_decompress, Enter, Return
    <3> QED
      BY <2>1, <3>1, PassBySelection
  <2>2. CASE ~ (global_state = "READY" /\ MasterError = NoError)
    BY <1>1, <1>2, <1>7, <2>2 DEF jpeg_start_decompress, Enter, outputVars
  <2> QED
    BY <2>1, <2>2
<1>8. CASE \E n \in 0..(input_scan_number + 1) : jpeg_start_output(n)
  <2>1. PICK n \in Nat :
           /\ output_scan_number' = n
           /\ IF global_state = "BUFIMAGE"
              THEN /\ premature' = (n > input_scan_number /\ \E c \in Comps : quant_table[c] = None)
                   /\ shown' = <<>>
              ELSE /\ premature' = \/ premature
                                   \/ n # output_scan_number /\ (shown # <<>> \/ \E c \in Comps : idct_table[c] = None)
                   /\ UNCHANGED shown
    <3>1. input_scan_number \in Nat
      BY DEF InputInv, Counters
    <3>2. PICK m \in 0..(input_scan_number + 1) : jpeg_start_output(m)
      BY <1>8
    <3> DEFINE limited == IF m <= 0 THEN 1
                          ELSE IF eoi_reached /\ m > input_scan_number THEN input_scan_number
                          ELSE m
    <3>3. limited \in Nat
      BY <3>1
    <3>4. /\ output_scan_number' = limited
          /\ IF global_state = "BUFIMAGE"
             THEN /\ premature' = (limited > input_scan_number /\ \E c \in Comps : quant_table[c] = None)
                  /\ shown' = <<>>
             ELSE /\ premature' = \/ premature
                                  \/ /\ limited # output_scan_number
                                     /\ shown # <<>> \/ \E c \in Comps : idct_table[c] = None
                  /\ UNCHANGED shown
      BY <3>2, Zenon DEF jpeg_start_output
    <3> QED
      BY <3>3, <3>4, Zenon
  <2>2. /\ global_state \in {"BUFIMAGE", "PRESCAN"} /\ call' = "output_pass_setup"
        /\ UNCHANGED <<frame, block_size, scan, input_scan_number, inheaders, quant_table, coef,
                       setting, idct_table, output_iMCU_row, global_state>>
    BY <1>8 DEF jpeg_start_output, Enter, seen, setup, scans
  <2>3. Tables'
    BY <2>2 DEF PassInv, Tables, SavedTables, Comps
  <2>4. input_scan_number \in Nat /\ output_scan_number \in Nat
    BY DEF InputInv, Counters
  <2>5. CASE global_state = "BUFIMAGE"
    <3>1. shown' = <<>> /\ shown' \in Seq({})
          /\ premature' = (output_scan_number' > input_scan_number /\ \E c \in Comps : quant_table[c] = None)
      BY <2>1, <2>5
    <3>2. ~ premature' /\ output_scan_number' > input_scan_number' => AllTables'
      <4>1. input_scan_number' = input_scan_number /\ Comps' = Comps /\ quant_table' = quant_table
        BY <2>2 DEF Comps
      <4>2. ~ premature' /\ output_scan_number' > input_scan_number => AllTables
        BY <3>1, Zenon DEF AllTables
      <4> QED
        BY <4>1, <4>2 DEF AllTables
    <3>3. coef # <<>> /\ shown' = <<>>
      BY <2>5, <3>1 DEF PassInv, PassOrder
    <3>4. PassOrder'
      BY <2>2, <2>5, <3>1, <3>2, <3>3 DEF PassOrder
    <3> QED
      BY <2>2, <2>3, <2>5, <3>3, <3>4 DEF PassInv, Passing
  <2>6. CASE global_state = "PRESCAN"
    <3>1. /\ premature' = \/ premature
                          \/ /\ output_scan_number' # output_scan_number
                             /\ shown # <<>> \/ \E c \in Comps : idct_table[c] = None
          /\ UNCHANGED shown
      BY <2>1, <2>6, Zenon
    <3>2. PassOrder'
      BY <2>2, <2>6, <3>1 DEF PassInv, PassOrder
    <3>3. InSync /\ coef # <<>> => InSync'
      <4> SUFFICES ASSUME InSync, coef # <<>>, ~ premature' PROVE InSync'
        BY DEF InSync
      <4>1. ~ premature
        BY <3>1, Zenon
      <4>2. CASE output_scan_number' = output_scan_number
        <5>1. Effect
          BY <2>2, <4>2, NoEffect
        <5> QED
          BY <2>2, <2>3, <3>1, <4>1, <5>1, InSyncStays DEF PassInv
      <4>3. CASE output_scan_number' # output_scan_number
        <5>1. shown = <<>> /\ \A c \in Comps : idct_table[c] # None
          BY <3>1, <4>3, Zenon
        <5>2. \A c \in Comps : idct_table[c] = quant_table[c]
          BY <5>1 DEF PassInv, Tables
        <5>3. idct_table' = idct_table /\ quant_table' = quant_table /\ Comps' = Comps /\ shown' = shown
          BY <2>2, <3>1 DEF Comps
        <5>4. AllTables'
          BY <5>1, <5>2, <5>3 DEF AllTables
        <5>5. (idct_table = quant_table)'
          <6>1. /\ quant_table = [c \in Comps |-> quant_table[c]]
                /\ idct_table = [c \in Comps |-> idct_table[c]]
            BY DEF InputInv, Arrays, PassInv, Tables, SavedTables
          <6> QED
            BY <5>2, <5>3, <6>1
        <5>6. ShownIsKept'
          BY <5>1, <5>3 DEF ShownIsKept
        <5> QED
          BY <5>1, <5>3, <5>4, <5>5, <5>6 DEF InSync
      <4> QED
        BY <4>2, <4>3
    <3> QED
      BY <2>2, <2>3, <2>6, <3>2, <3>3 DEF PassInv, Passing
  <2> QED
    BY <2>2, <2>5, <2>6
<1>9. CASE (\E n \in 1..3 : jpeg_read_scanlines(n)) \/ jpeg_read_raw_data
  BY <1>2, <1>9 DEF jpeg_read_scanlines, jpeg_read_raw_data, Enter, outputVars
<1>10. CASE jpeg_finish_output
  <2>1. /\ UNCHANGED <<inputVars, setting, idct_table, output_iMCU_row, shown, premature>>
        /\ global_state' = "BUFPOST" /\ call' = "jpeg_finish_output"
        /\ (global_state \in {"SCANNING", "RAW_OK"} /\ setting.buffered_image) \/ global_state = "BUFPOST"
    BY <1>10 DEF jpeg_finish_output, Enter, outputVars
  <2>2. PassOrder'
    BY <2>1 DEF PassInv, PassOrder, inputVars
  <2> QED
    BY <2>1, <2>2, PassStays DEF Passing
<1>11. CASE jpeg_finish_decompress /\ ~ \E e : ErrorExit(e)
  <2>1. /\ UNCHANGED <<inputVars, setting, idct_table, output_iMCU_row, shown, premature>>
        /\ global_state' = "STOPPING" /\ call' = "jpeg_finish_decompress"
        /\ global_state \in {"SCANNING", "RAW_OK", "BUFIMAGE", "STOPPING"}
    BY <1>11 DEF jpeg_finish_decompress, Enter, outputVars
  <2>2. PassOrder'
    BY <2>1 DEF PassInv, PassOrder, inputVars
  <2> QED
    BY <2>1, <2>2, PassStays DEF Passing
<1> QED
  BY <1>1, <1>3, <1>4, <1>5, <1>6, <1>7, <1>8, <1>9, <1>10, <1>11 DEF Application

\* A new object has shown nothing.
LEMMA InitialPass == NewObject => PassInv
<1> SUFFICES ASSUME NewObject PROVE PassInv
  OBVIOUS
<1>1. setting \in Parameters
  BY DefaultParameters DEF NewObject, DecompressInit
<1>2. shown \in Seq({})
  BY DEF NewObject, DecompressInit, OutputInit
<1> QED
  BY <1>1, <1>2 DEF NewObject, DecompressInit, InputInit, OutputInit, PassInv, Tables, SavedTables, PassOrder, Passing,
     NoCall, default_decompress_parms

\* The invariant is inductive.
LEMMA PassInvStays ==
  ASSUME InputInv, Phases, PassInv, [Next]_decompressVars
  PROVE  InputInv' /\ Phases' /\ PassInv'
<1>1. InputInv' /\ Phases'
  BY InputStays DEF Keeping
<1>2. CASE UNCHANGED decompressVars
  <2>1. UNCHANGED <<inputVars, setting, idct_table, output_iMCU_row, shown, premature, global_state, call>>
    BY <1>2 DEF decompressVars, outputVars, control
  <2>2. PassOrder'
    BY <2>1 DEF PassInv, PassOrder, AllTables, Comps, inputVars, seen, setup, scans, progress
  <2> QED
    BY <1>1, <2>1, <2>2, PassStays DEF Passing
<1> QED
  BY <1>1, <1>2, PassByLibrary, PassByApplication DEF Next

\* When a pass ends in step with a complete input, it has shown the final picture.
THEOREM LastPassIsFinal == Spec => []InSyncPassIsFinal
<1> DEFINE Inv == InputInv /\ Phases /\ PassInv
<1>1. Init => Inv
  BY InitIsNew, InitialInput, InitialPass
<1>2. Inv /\ [Next]_decompressVars => Inv'
  BY PassInvStays
<1>3. Inv => InSyncPassIsFinal
  <2> SUFFICES ASSUME Inv, global_state = "BUFIMAGE", ~ premature, input_scan_number = output_scan_number,
                      Len(shown) = total_iMCU_rows
               PROVE  ShowsFinalPicture
    BY DEF InSyncPassIsFinal, LastPassDone
  <2>1. coef # <<>>
    BY DEF PassInv, PassOrder
  <2>2. Sized
    BY <2>1 DEF InputInv, Headers, Arrays, Sized
  <2>3. shown # <<>>
    BY <2>2, Dimensions
  <2> QED
    <3>1. input_scan_number \in Nat
      BY DEF InputInv, Counters
    <3>2. InSync
      BY <2>1, <2>3 DEF PassInv, Passing
    <3> QED
      BY <3>1, <3>2 DEF InSync, ShownIsKept, ShowsFinalPicture
<1> QED
  BY <1>1, <1>2, <1>3, PTL DEF Spec

-----------------------------------------------------------------------------
(* The lines of a pass, counted. *)

\* Between the header and the end of a picture.
Started == global_state \notin {"START", "INHEADER", "READY"}

\* A pass in which rows are upsampled, one that gives out what an earlier one stored, and one of raw data.
Upsampling ==
  global_state \in {"PRESCAN", "SCANNING"} /\ ~ setting.raw_data_out /\ post.mode # "JBUF_CRANK_DEST"
Cranking ==
  global_state \in {"PRESCAN", "SCANNING"} /\ ~ setting.raw_data_out /\ post.mode = "JBUF_CRANK_DEST"
Raw == global_state \in {"PRESCAN", "RAW_OK"} /\ setting.raw_data_out

\* A dummy pass stores its lines, any other gives them out; the application asks for some while there are any.
Modes ==
  /\ Started => inheaders = 0 /\ ~ (setting.quantize_colors /\ setting.raw_data_out)
  /\ global_state = "PRESCAN" =>
       IF is_dummy_pass THEN ~ setting.raw_data_out /\ post.mode = "JBUF_SAVE_AND_PASS"
       ELSE setting.raw_data_out \/ post.mode \in {"JBUF_PASS_THRU", "JBUF_CRANK_DEST"}
  /\ global_state = "SCANNING" => ~ setting.raw_data_out /\ post.mode \in {"JBUF_PASS_THRU", "JBUF_CRANK_DEST"}
  /\ global_state = "RAW_OK" => setting.raw_data_out
  /\ call = "jpeg_read_scanlines" => max_lines \in Nat \ {0} /\ output_scanline < output_height

\* The state of the main buffer, the upsampler and the postprocessor.
Buffers ==
  /\ main \in [buffer_full : BOOLEAN, rowgroup_ctr : Int, iMCU_row : Int]
  /\ upsample \in [rows_to_go : Int, next_row_out : Int, color_buf : Int, spare_full : BOOLEAN, spare_row : Int]
  /\ post \in [starting_row : Int, next_row : Int, mode : {"JBUF_PASS_THRU", "JBUF_SAVE_AND_PASS", "JBUF_CRANK_DEST"}]
  /\ lines \in Seq(Int) /\ whole_image \in Seq(Int)

\* The lines that were made of the row group at hand.
LinesOfGroup ==
  IF ~ use_merged_upsample THEN IF upsample.next_row_out < max_v_samp_factor THEN upsample.next_row_out ELSE 0
  ELSE IF max_v_samp_factor = 2 /\ upsample.spare_full THEN 1 ELSE 0

\* A row group is used up line by line, and what is left of it is kept in the upsampler.
Grouped ==
  /\ use_merged_upsample => max_v_samp_factor <= 2
  /\ upsample.next_row_out >= 1
  /\ main.rowgroup_ctr \in 0..(min_DCT_scaled_size - 1)
  /\ main.buffer_full => main.iMCU_row \in Nat /\ output_iMCU_row = main.iMCU_row + 1
  /\ ~ main.buffer_full => main.rowgroup_ctr = 0 /\ LinesOfGroup = 0
  /\ main.buffer_full /\ use_merged_upsample /\ max_v_samp_factor = 2 /\ upsample.spare_full =>
       upsample.spare_row = RowGroupLine + 1
  /\ main.buffer_full /\ ~ use_merged_upsample /\ upsample.next_row_out < max_v_samp_factor =>
       upsample.color_buf = RowGroupLine

\* The number of the line that comes next.
NextLine == IF main.buffer_full THEN RowGroupLine + LinesOfGroup ELSE output_iMCU_row * lines_per_iMCU_row

\* All lines of a pass so far came from the iMCU rows of the pass, one after the other.
LinesCounted ==
  /\ output_scanline = NextLine
  /\ output_scanline <= output_height
  /\ (use_merged_upsample => max_v_samp_factor = 2) => upsample.rows_to_go = output_height - output_scanline
  /\ Grouped

\* The first n of a sequence of lines are the first n of the picture.
Ordered(s, n) == n <= Len(s) /\ \A i \in 1..n : s[i] = i - 1

\* The position in the strips is that of the lines.
InStrips ==
  /\ post.next_row \in 0..(strip_height - 1)
  /\ output_scanline = post.starting_row + post.next_row

InOrder == Len(lines) = output_scanline /\ Ordered(lines, output_scanline)

LineInv ==
  /\ Modes
  /\ Buffers
  /\ Upsampling =>
       /\ LinesCounted
       /\ IF post.mode = "JBUF_PASS_THRU" THEN InOrder
          ELSE lines = <<>> /\ InStrips /\ Ordered(whole_image, output_scanline)
  /\ Cranking =>
       /\ Ordered(whole_image, output_height)
       /\ Len(lines) = output_scanline /\ InStrips
       /\ max_v_samp_factor <= 2 => InOrder /\ output_scanline <= output_height
  /\ Raw => output_scanline = output_iMCU_row * lines_per_iMCU_row /\ InOrder

\* While input and output go in step, lines are left for every iMCU row that is to come.
OnePass ==
  consume_input = "dummy_consume_data" =>
    /\ coef = <<>> /\ ~ setting.buffered_image /\ ~ has_multiple_scans
    /\ global_state \in {"PRELOAD", "PRESCAN", "SCANNING", "RAW_OK"}
    /\ input_iMCU_row < total_iMCU_rows
    /\ global_state = "PRELOAD" => input_iMCU_row = 0
    /\ global_state # "PRELOAD" =>
         /\ output_iMCU_row = input_iMCU_row /\ decompress_data = "decompress_onepass"
         /\ ~ Cranking

\* A set of numbers from 1 to 16 has a smallest.
LEMMA SmallestNumber ==
  ASSUME NEW S \in SUBSET (1..16), S # {}
  PROVE  Smallest(S) \in S /\ \A n \in S : Smallest(S) <= n
<1> DEFINE Has == \E m \in S : \A n \in S : m <= n
<1> SUFFICES ASSUME ~ Has PROVE FALSE
  BY DEF Smallest
<1>1. \A n \in S : n > 1
  OBVIOUS
<1>2. \A n \in S : n > 2
  BY <1>1
<1>3. \A n \in S : n > 3
  BY <1>2
<1>4. \A n \in S : n > 4
  BY <1>3
<1>5. \A n \in S : n > 5
  BY <1>4
<1>6. \A n \in S : n > 6
  BY <1>5
<1>7. \A n \in S : n > 7
  BY <1>6
<1>8. \A n \in S : n > 8
  BY <1>7
<1>9. \A n \in S : n > 9
  BY <1>8
<1>10. \A n \in S : n > 10
  BY <1>9
<1>11. \A n \in S : n > 11
  BY <1>10
<1>12. \A n \in S : n > 12
  BY <1>11
<1>13. \A n \in S : n > 13
  BY <1>12
<1>14. \A n \in S : n > 14
  BY <1>13
<1>15. \A n \in S : n > 15
  BY <1>14
<1>16. \A n \in S : n > 16
  BY <1>15
<1>17. PICK n \in S : n \in 1..16
  OBVIOUS
<1> QED
  BY <1>16, <1>17

LEMMA SmallestOfTwo ==
  ASSUME NEW a \in Int, NEW b \in Int
  PROVE  Smallest({a, b}) = IF a <= b THEN a ELSE b
BY DEF Smallest

LEMMA SmallestOfThree ==
  ASSUME NEW a \in Int, NEW b \in Int, NEW c \in Int
  PROVE  /\ Smallest({a, b, c}) \in {a, b, c}
         /\ Smallest({a, b, c}) <= a /\ Smallest({a, b, c}) <= b /\ Smallest({a, b, c}) <= c
<1>1. \E m \in {a, b, c} : \A n \in {a, b, c} : m <= n
  <2>1. CASE a <= b /\ a <= c
    BY <2>1
  <2>2. CASE b <= a /\ b <= c
    BY <2>2
  <2>3. CASE c <= a /\ c <= b
    BY <2>3
  <2> QED
    BY <2>1, <2>2, <2>3
<1> QED
  BY <1>1 DEF Smallest

\* Row groups of an iMCU row follow each other, and the next iMCU row follows its last.
LEMMA GroupPlace ==
  ASSUME NEW r \in Nat, NEW g \in Nat, NEW d \in Nat, NEW v \in Nat
  PROVE  /\ (r * d + (g + 1)) * v = (r * d + g) * v + v
         /\ (r * d + d) * v = (r + 1) * (v * d)
         /\ (r * d + 0) * v = r * (v * d)
         /\ (r * d + g) * v \in Nat /\ r * (v * d) \in Nat
         /\ g <= d => (r * d + g) * v <= (r * d + d) * v
<1>1. r * d \in Nat
  OBVIOUS
<1>2. ASSUME NEW p \in Nat PROVE (p + (g + 1)) * v = (p + g) * v + v /\ (p + g) * v \in Nat
  OBVIOUS
<1>3. (r * d + d) * v = (r + 1) * (v * d)
  OBVIOUS
<1>4. (r * d + 0) * v = r * (v * d) /\ r * (v * d) \in Nat
  OBVIOUS
<1>5. ASSUME NEW p \in Nat, g <= d PROVE (p + g) * v <= (p + d) * v
  <2>1. PICK k \in Nat : d = g + k
    BY <1>5
  <2>2. (p + (g + k)) * v = (p + g) * v + k * v /\ k * v \in Nat /\ (p + g) * v \in Nat
    OBVIOUS
  <2> QED
    BY <2>1, <2>2
<1> QED
  BY <1>1, <1>2, <1>3, <1>4, <1>5

\* Products grow with their factors.
LEMMA Monotone ==
  ASSUME NEW a \in Nat, NEW b \in Nat, a <= b, NEW c \in Nat
  PROVE  a * c <= b * c /\ c * a <= c * b /\ a * c \in Nat /\ c * a \in Nat
<1>1. PICK k \in Nat : b = a + k
  OBVIOUS
<1>2. (a + k) * c = a * c + k * c /\ k * c \in Nat /\ a * c \in Nat /\ c * a = a * c /\ c * (a + k) = (a + k) * c
  OBVIOUS
<1> QED
  BY <1>1, <1>2

\* Every iMCU row has a line of the picture: h rows of samples, in blocks of B that become D lines, make T
\* iMCU rows of V block rows, and H lines.
LEMMA LastRowHasLines ==
  ASSUME NEW h \in Nat \ {0}, NEW B \in Nat \ {0}, NEW D \in Nat \ {0}, NEW V \in Nat \ {0},
         NEW T \in Nat, (V * B) * T < h + V * B,
         NEW H \in Nat, h * D <= B * H,
         NEW r \in Nat, r < T
  PROVE  r * (V * D) < H
<1> DEFINE w == V * B
<1>1. w \in Nat
  OBVIOUS
<1>2. w * r + w <= w * T
  <2>1. w * (r + 1) <= w * T
    BY <1>1, Monotone
  <2>2. w * (r + 1) = w * r + w
    BY <1>1
  <2> QED
    BY <2>1, <2>2
<1>3. w * r \in Nat /\ w * T \in Nat
  BY <1>1
<1>4. w * r <= h - 1
  BY <1>1, <1>2, <1>3
<1>5. (w * r) * D <= (h - 1) * D
  BY <1>3, <1>4, Monotone
<1>6. (h - 1) * D = h * D - D /\ h * D \in Nat
  OBVIOUS
<1>7. (w * r) * D = B * (r * (V * D))
  OBVIOUS
<1>8. r * (V * D) \in Nat
  OBVIOUS
<1>9. CASE H <= r * (V * D)
  <2>1. B * H <= B * (r * (V * D)) /\ B * H \in Nat
    BY <1>8, <1>9, Monotone
  <2> HIDE DEF w
  <2> QED
    BY <1>5, <1>6, <1>7, <2>1
<1> QED
  BY <1>8, <1>9

LEMMA RoundedUp ==
  ASSUME NEW a \in Nat, NEW d \in Nat \ {0}
  PROVE  /\ jdiv_round_up(a, d) \in Nat
         /\ a <= d * jdiv_round_up(a, d) /\ d * jdiv_round_up(a, d) < a + d
<1> DEFINE q == (a + d - 1) \div d
<1>1. a + d - 1 \in Nat
  OBVIOUS
<1>2. q \in Nat /\ d * q <= a + d - 1 /\ a + d - 1 < d * q + d
  BY <1>1, Division
<1>3. d * q \in Nat
  BY <1>2
<1> QED
  BY <1>2, <1>3 DEF jdiv_round_up

\* The sizes of what is given out.
LEMMA Heights ==
  ASSUME Sized, setting \in Parameters
  PROVE  /\ max_v_samp_factor \in 1..4 /\ min_DCT_scaled_size \in 1..16
         /\ lines_per_iMCU_row = max_v_samp_factor * min_DCT_scaled_size
         /\ output_height \in Nat \ {0} /\ total_iMCU_rows \in Nat \ {0}
         /\ \A r \in Nat : r < total_iMCU_rows => r * lines_per_iMCU_row < output_height
<1> DEFINE V == max_v_samp_factor
           D == min_DCT_scaled_size
           B == block_size
           h == frame.height
           T == total_iMCU_rows
           H == output_height
<1>1. V \in 1..4 /\ T \in Nat \ {0}
  BY Dimensions
<1>2. B \in 1..16 /\ h \in Nat \ {0}
  BY DEF Sized
<1>3. D \in 1..16
  <2> DEFINE enough == {n \in 1..16 : setting.scale_num * block_size <= setting.scale_denom * n}
  <2>1. D = IF enough = {} THEN 16 ELSE Smallest(enough)
    BY DEF min_DCT_scaled_size
  <2>2. enough \in SUBSET (1..16)
    OBVIOUS
  <2>3. enough # {} => Smallest(enough) \in 1..16
    BY <2>2, SmallestNumber
  <2> HIDE DEF enough
  <2> QED
    BY <2>1, <2>3
<1>4. T = jdiv_round_up(h, V * B) /\ H = jdiv_round_up(h * D, B)
  BY DEF total_iMCU_rows, output_height
<1> HIDE DEF V, D, B, h, T, H
<1>5. V * B \in Nat \ {0} /\ h * D \in Nat \ {0}
  <2>1. V * B >= 1
    <3>1. V * B >= 1 * B
      BY <1>1, <1>2, Monotone
    <3> QED
      BY <1>1, <1>2, <3>1
  <2>2. h * D >= 1
    <3>1. h * D >= 1 * D
      BY <1>2, <1>3, Monotone
    <3> QED
      BY <1>2, <1>3, <3>1
  <2> QED
    BY <1>1, <1>2, <1>3, <2>1, <2>2
<1>6. (V * B) * T < h + V * B
  BY <1>2, <1>4, <1>5, RoundedUp
<1>7. H \in Nat /\ h * D <= B * H
  <2>1. PICK n \in Nat : n = h * D
    BY <1>5
  <2>2. H = jdiv_round_up(n, B)
    BY <1>4, <2>1
  <2>3. B \in Nat \ {0}
    BY <1>2
  <2>4. jdiv_round_up(n, B) \in Nat /\ n <= B * jdiv_round_up(n, B)
    BY <2>3, RoundedUp
  <2> QED
    BY <2>1, <2>2, <2>4
<1>8. H # 0
  BY <1>2, <1>5, <1>7
<1>9. \A r \in Nat : r < T => r * (V * D) < H
  BY <1>1, <1>2, <1>3, <1>6, <1>7, LastRowHasLines
<1> QED
  BY <1>1, <1>3, <1>7, <1>8, <1>9 DEF V, D, T, H, lines_per_iMCU_row

\* They stay while the frame and the parameters do.
LEMMA HeightsStay ==
  ASSUME UNCHANGED <<frame, block_size, setting>>
  PROVE  /\ max_v_samp_factor' = max_v_samp_factor /\ min_DCT_scaled_size' = min_DCT_scaled_size
         /\ lines_per_iMCU_row' = lines_per_iMCU_row /\ output_height' = output_height
         /\ strip_height' = strip_height /\ (use_merged_upsample' <=> use_merged_upsample)
         /\ total_iMCU_rows' = total_iMCU_rows
<1>1. max_v_samp_factor' = max_v_samp_factor /\ max_h_samp_factor' = max_h_samp_factor /\ Comps' = Comps
  BY DEF max_v_samp_factor, max_h_samp_factor, Comps
<1>2. min_DCT_scaled_size' = min_DCT_scaled_size
  BY DEF min_DCT_scaled_size
<1>3. \A s, m : ScaledUp(s, m)' = ScaledUp(s, m)
  BY <1>2 DEF ScaledUp
<1>4. \A c : DCT_scaled_size(c)' = DCT_scaled_size(c)
  BY <1>1, <1>3 DEF DCT_scaled_size
<1>5. use_merged_upsample' = use_merged_upsample
  BY <1>1, <1>2, <1>4 DEF use_merged_upsample
<1> QED
  BY <1>1, <1>2, <1>5, SizesStay DEF lines_per_iMCU_row, output_height, strip_height, jdiv_round_up

-----------------------------------------------------------------------------
(* A row group on its way through the upsampler. *)

\* The state of an upsampler.
UpsampleStates == [rows_to_go : Int, next_row_out : Int, color_buf : Int, spare_full : BOOLEAN, spare_row : Int]

\* What the upsampler makes of its row group: the next n lines; and the group is used up with its last line.
GroupStep(up, n) ==
  /\ n \in Nat \ {0} /\ n <= output_height - output_scanline
  /\ up.lines = Run(output_scanline, n)
  /\ up.consumed => LinesOfGroup + n = max_v_samp_factor /\ LinesOfGroup' = 0
  /\ ~ up.consumed => LinesOfGroup' = LinesOfGroup + n
  /\ upsample' \in UpsampleStates /\ upsample'.next_row_out >= 1
  /\ (use_merged_upsample => max_v_samp_factor = 2) => upsample'.rows_to_go = upsample.rows_to_go - n
  /\ use_merged_upsample /\ max_v_samp_factor = 2 /\ upsample'.spare_full =>
       upsample'.spare_row = RowGroupLine + 1 /\ ~ up.consumed
  /\ ~ use_merged_upsample /\ upsample'.next_row_out < max_v_samp_factor =>
       upsample'.color_buf = RowGroupLine /\ ~ up.consumed

\* Lines that follow one another are counted by their number.
LEMMA RunLength ==
  ASSUME NEW a \in Int, NEW n \in Nat
  PROVE  Len(Run(a, n)) = n /\ Run(a, n) \in Seq(Int) /\ \A i \in 1..n : Run(a, n)[i] = a + i - 1
<1> DEFINE s == [i \in 1..n |-> a + i - 1]
<1>1. s \in Seq(Int) /\ Len(s) = n
  <2>1. \A i \in 1..n : a + i - 1 \in Int
    OBVIOUS
  <2>2. s \in [1..n -> Int]
    BY <2>1
  <2> QED
    BY <2>2
<1> QED
  BY <1>1 DEF Run

LEMMA SingleLine ==
  ASSUME NEW a \in Int
  PROVE  <<a>> = Run(a, 1)
<1>1. [i \in 1..1 |-> a + i - 1] = <<a>>
  OBVIOUS
<1> QED
  BY <1>1 DEF Run

\* Upsampling without merging keeps the converted row group until its last row is out.
LEMMA SeparateStep ==
  ASSUME Sized, setting \in Parameters, Buffers, LinesCounted, main.buffer_full,
         output_scanline \in Nat, output_scanline < output_height,
         NEW room \in Nat \ {0}, ~ use_merged_upsample,
         UNCHANGED <<frame, block_size, setting>>, upsample' = sep_upsample(room).state
  PROVE  \E n \in 1..room : GroupStep(sep_upsample(room), n)
<1> DEFINE V == max_v_samp_factor
           from == IF upsample.next_row_out >= V THEN 0 ELSE upsample.next_row_out
           group == IF upsample.next_row_out >= V THEN RowGroupLine ELSE upsample.color_buf
           n == Smallest({V - from, upsample.rows_to_go, room})
           up == sep_upsample(room)
<1>1. V \in 1..4 /\ output_height \in Nat /\ V' = V /\ (use_merged_upsample' <=> use_merged_upsample)
  BY Heights, HeightsStay
<1>2. upsample \in UpsampleStates
  BY DEF Buffers, UpsampleStates
<1>3. from \in 0..(V - 1) /\ from = LinesOfGroup /\ upsample.next_row_out \in Nat \ {0}
  BY <1>1, <1>2 DEF LinesCounted, Grouped, LinesOfGroup, UpsampleStates
<1>4. group = RowGroupLine /\ output_scanline = RowGroupLine + from
  <2>1. upsample.next_row_out < V => upsample.color_buf = RowGroupLine
    BY DEF LinesCounted, Grouped
  <2>2. upsample.next_row_out >= V \/ upsample.next_row_out < V
    BY <1>1, <1>3
  <2>3. output_scanline = RowGroupLine + LinesOfGroup
    BY DEF LinesCounted, NextLine
  <2> QED
    BY <1>3, <2>1, <2>2, <2>3
<1>5. upsample.rows_to_go = output_height - output_scanline
  BY DEF LinesCounted
<1>6. n \in {V - from, upsample.rows_to_go, room} /\ n <= V - from /\ n <= upsample.rows_to_go /\ n <= room
  <2> DEFINE left == V - from
             height == upsample.rows_to_go
  <2>1. left \in Int /\ height \in Int
    BY <1>1, <1>3, <1>5
  <2> HIDE DEF left, height
  <2>2. /\ Smallest({left, height, room}) \in {left, height, room}
        /\ Smallest({left, height, room}) <= left /\ Smallest({left, height, room}) <= height
        /\ Smallest({left, height, room}) <= room
    BY <2>1, SmallestOfThree
  <2> QED
    BY <2>2 DEF left, height
<1>7. /\ up.lines = Run(group + from, n)
      /\ up.state = [upsample EXCEPT !.rows_to_go = @ - n, !.next_row_out = from + n, !.color_buf = group]
      /\ up.consumed = (from + n >= V)
  BY DEF sep_upsample
<1> HIDE DEF V, from, group, n, up
<1>8. n \in 1..room /\ n <= output_height - output_scanline
  BY <1>1, <1>3, <1>5, <1>6
<1>9. RowGroupLine \in Int
  <2>1. main.rowgroup_ctr \in Nat /\ main.iMCU_row \in Nat /\ min_DCT_scaled_size \in Nat
    BY Heights DEF LinesCounted, Grouped
  <2> QED
    BY <1>1, <2>1 DEF RowGroupLine, V
<1>10. /\ upsample' \in UpsampleStates
       /\ upsample'.next_row_out = from + n /\ upsample'.color_buf = RowGroupLine
       /\ upsample'.rows_to_go = upsample.rows_to_go - n
  <2>1. upsample.rows_to_go - n \in Int /\ from + n \in Int /\ group \in Int
    BY <1>2, <1>3, <1>4, <1>8, <1>9 DEF UpsampleStates
  <2>2. upsample' = [upsample EXCEPT !.rows_to_go = @ - n, !.next_row_out = from + n, !.color_buf = group]
    BY <1>7 DEF up
  <2> QED
    BY <1>2, <1>4, <2>1, <2>2 DEF UpsampleStates
<1>11. LinesOfGroup' = IF from + n < V THEN from + n ELSE 0
  BY <1>1, <1>10 DEF LinesOfGroup, V
<1>12. GroupStep(up, n)
  <2>1. /\ up.lines = Run(output_scanline, n) /\ n \in Nat \ {0}
        /\ upsample'.next_row_out >= 1
    BY <1>3, <1>4, <1>7, <1>8, <1>10
  <2>2. CASE from + n >= V
    <3>1. from + n = V
      BY <1>1, <1>3, <1>6, <1>8, <2>2
    <3>2. up.consumed
      BY <1>7, <2>2
    <3>3. LinesOfGroup' = 0 /\ ~ (upsample'.next_row_out < V) /\ LinesOfGroup + n = V
      BY <1>1, <1>3, <1>10, <1>11, <3>1
    <3> QED
      BY <1>8, <1>10, <2>1, <3>2, <3>3 DEF GroupStep, V
  <2>3. CASE ~ (from + n >= V)
    <3>1. ~ up.consumed
      BY <1>7, <2>3
    <3>2. LinesOfGroup' = LinesOfGroup + n
      BY <1>1, <1>3, <1>8, <1>11, <2>3
    <3> QED
      BY <1>8, <1>10, <2>1, <3>1, <3>2 DEF GroupStep
  <2> QED
    BY <2>2, <2>3
<1> QED
  BY <1>8, <1>12 DEF up

\* Merged upsampling makes two lines at once, and keeps the second if there is room for one.
LEMMA MergedStep ==
  ASSUME Sized, setting \in Parameters, Buffers, LinesCounted, main.buffer_full,
         output_scanline \in Nat, output_scanline < output_height,
         NEW room \in Nat \ {0}, use_merged_upsample, max_v_samp_factor = 2,
         UNCHANGED <<frame, block_size, setting>>, upsample' = merged_2v_upsample(room).state
  PROVE  \E n \in 1..room : GroupStep(merged_2v_upsample(room), n)
<1> DEFINE up == merged_2v_upsample(room)
<1>1. output_height \in Nat /\ max_v_samp_factor' = 2 /\ use_merged_upsample'
  BY Heights, HeightsStay
<1>2. upsample \in UpsampleStates /\ upsample.next_row_out >= 1
  BY DEF Buffers, UpsampleStates, LinesCounted, Grouped
<1>3. upsample.rows_to_go = output_height - output_scanline
  BY DEF LinesCounted
<1>4. RowGroupLine \in Int
  <2>1. main.rowgroup_ctr \in Nat /\ main.iMCU_row \in Nat /\ min_DCT_scaled_size \in Nat
    BY Heights DEF LinesCounted, Grouped
  <2> QED
    BY <2>1 DEF RowGroupLine
<1>5. CASE upsample.spare_full
  <2>1. up = [lines |-> <<upsample.spare_row>>,
              state |-> [upsample EXCEPT !.rows_to_go = @ - 1, !.spare_full = FALSE],
              consumed |-> TRUE]
    BY <1>5 DEF merged_2v_upsample
  <2>2. LinesOfGroup = 1 /\ output_scanline = RowGroupLine + 1 /\ upsample.spare_row = output_scanline
    BY <1>5 DEF LinesOfGroup, LinesCounted, Grouped, NextLine
  <2>3. /\ upsample' \in UpsampleStates /\ ~ upsample'.spare_full
        /\ upsample'.next_row_out = upsample.next_row_out /\ upsample'.rows_to_go = upsample.rows_to_go - 1
    <3>1. upsample' = [upsample EXCEPT !.rows_to_go = @ - 1, !.spare_full = FALSE]
      BY <2>1
    <3>2. upsample.rows_to_go - 1 \in Int
      BY <1>2 DEF UpsampleStates
    <3> QED
      BY <1>2, <3>1, <3>2 DEF UpsampleStates
  <2>4. LinesOfGroup' = 0
    BY <1>1, <2>3 DEF LinesOfGroup
  <2>5. up.lines = Run(output_scanline, 1) /\ up.consumed
    BY <2>1, <2>2, SingleLine
  <2>6. 1 <= output_height - output_scanline /\ LinesOfGroup + 1 = 2
    BY <1>1, <2>2
  <2>7. GroupStep(up, 1)
    BY <1>2, <2>3, <2>4, <2>5, <2>6 DEF GroupStep
  <2> QED
    BY <2>7
<1>6. CASE ~ upsample.spare_full
  <2> DEFINE n == Smallest({2, upsample.rows_to_go, room})
  <2>1. up = [lines |-> Run(RowGroupLine, n),
              state |-> [upsample EXCEPT !.rows_to_go = @ - n, !.spare_full = n <= 1,
                                         !.spare_row = RowGroupLine + 1],
              consumed |-> n > 1]
    BY <1>6 DEF merged_2v_upsample
  <2>2. n \in {2, upsample.rows_to_go, room} /\ n <= 2 /\ n <= upsample.rows_to_go /\ n <= room
    <3>1. PICK k \in Int : upsample.rows_to_go = k
      BY <1>1, <1>3
    <3>2. ASSUME NEW two \in Int
          PROVE  /\ Smallest({two, k, room}) \in {two, k, room}
                 /\ Smallest({two, k, room}) <= two /\ Smallest({two, k, room}) <= k
                 /\ Smallest({two, k, room}) <= room
      <4>1. k \in Int /\ room \in Int
        BY <3>1
      <4> QED
        BY <4>1, SmallestOfThree
    <3> QED
      BY <3>1, <3>2
  <2> HIDE DEF n
  <2>3. n \in 1..room /\ n \in {1, 2} /\ n <= output_height - output_scanline
    BY <1>1, <1>3, <2>2
  <2>4. LinesOfGroup = 0 /\ output_scanline = RowGroupLine
    BY <1>4, <1>6 DEF LinesOfGroup, LinesCounted, Grouped, NextLine
  <2>5. /\ upsample' \in UpsampleStates
        /\ (upsample'.spare_full <=> n <= 1) /\ upsample'.spare_row = RowGroupLine + 1
        /\ upsample'.next_row_out = upsample.next_row_out /\ upsample'.rows_to_go = upsample.rows_to_go - n
    <3>1. (n <= 1) \in BOOLEAN /\ upsample.rows_to_go - n \in Int /\ RowGroupLine + 1 \in Int
      BY <1>3, <1>4, <1>1, <2>3
    <3>2. upsample' = [upsample EXCEPT !.rows_to_go = @ - n, !.spare_full = n <= 1, !.spare_row = RowGroupLine + 1]
      BY <2>1
    <3> HIDE DEF up
    <3> QED
      BY <1>2, <3>1, <3>2 DEF UpsampleStates
  <2>6. (n = 1 => LinesOfGroup' = 1) /\ (n = 2 => LinesOfGroup' = 0)
    <3>1. CASE n = 1
      <4>1. upsample'.spare_full
        BY <2>5, <3>1
      <4> QED
        BY <1>1, <3>1, <4>1 DEF LinesOfGroup
    <3>2. CASE n = 2
      <4>1. ~ upsample'.spare_full
        BY <2>5, <3>2
      <4> QED
        BY <1>1, <3>2, <4>1 DEF LinesOfGroup
    <3> QED
      BY <2>3, <3>1, <3>2
  <2>7. (up.consumed <=> n > 1) /\ up.lines = Run(output_scanline, n)
    <3>1. up.consumed = (n > 1) /\ up.lines = Run(RowGroupLine, n)
      BY <2>1
    <3> HIDE DEF up
    <3>2. up.consumed <=> n > 1
      BY <3>1
    <3> QED
      BY <2>4, <3>1, <3>2
  <2>8. GroupStep(up, n)
    <3> HIDE DEF up
    <3>1. CASE n = 1
      <4>1. ~ up.consumed /\ LinesOfGroup' = LinesOfGroup + 1 /\ upsample'.spare_row = RowGroupLine + 1
        BY <2>4, <2>5, <2>6, <2>7, <3>1
      <4> QED
        BY <1>2, <2>3, <2>5, <2>7, <3>1, <4>1 DEF GroupStep
    <3>2. CASE n = 2
      <4>1. up.consumed /\ LinesOfGroup' = 0 /\ LinesOfGroup + 2 = 2 /\ ~ upsample'.spare_full
        BY <2>4, <2>5, <2>6, <2>7, <3>2
      <4> QED
        BY <1>2, <2>3, <2>5, <2>7, <3>2, <4>1 DEF GroupStep
    <3> QED
      BY <2>3, <3>1, <3>2
  <2> QED
    BY <2>3, <2>8
<1> QED
  BY <1>5, <1>6

\* Without a second line to make, a row group is a line.
LEMMA SingleStep ==
  ASSUME Sized, setting \in Parameters, Buffers, LinesCounted, main.buffer_full,
         output_scanline \in Nat, output_scanline < output_height,
         use_merged_upsample, max_v_samp_factor # 2,
         UNCHANGED <<frame, block_size, setting>>, upsample' = merged_1v_upsample.state
  PROVE  GroupStep(merged_1v_upsample, 1)
<1>1. /\ output_height \in Nat /\ max_v_samp_factor = 1 /\ max_v_samp_factor' = 1
      /\ use_merged_upsample' /\ use_merged_upsample
  BY Heights, HeightsStay DEF LinesCounted, Grouped
<1>2. upsample \in UpsampleStates /\ upsample.next_row_out >= 1
  BY DEF Buffers, UpsampleStates, LinesCounted, Grouped
<1>3. LinesOfGroup = 0 /\ output_scanline = RowGroupLine /\ LinesOfGroup' = 0
  <2>1. LinesOfGroup = 0 /\ LinesOfGroup' = 0
    BY <1>1 DEF LinesOfGroup
  <2>2. output_scanline = RowGroupLine + 0
    BY <2>1 DEF LinesCounted, NextLine
  <2>3. RowGroupLine \in Int
    <3>1. main.rowgroup_ctr \in Nat /\ main.iMCU_row \in Nat /\ min_DCT_scaled_size \in Nat
      BY Heights DEF LinesCounted, Grouped
    <3> QED
      BY <1>1, <3>1 DEF RowGroupLine
  <2> QED
    BY <2>1, <2>2, <2>3
<1>4. /\ merged_1v_upsample.lines = <<output_scanline>> /\ merged_1v_upsample.consumed = TRUE
      /\ upsample' = upsample
  BY <1>3 DEF merged_1v_upsample
<1>5. merged_1v_upsample.lines = Run(output_scanline, 1)
  BY <1>4, SingleLine
<1>6. 1 <= output_height - output_scanline /\ LinesOfGroup + 1 = max_v_samp_factor
  BY <1>1, <1>3
<1> QED
  BY <1>1, <1>2, <1>3, <1>4, <1>5, <1>6 DEF GroupStep

\* Whichever upsampler there is makes the lines that come next.
LEMMA AnyStep ==
  ASSUME Sized, setting \in Parameters, Buffers, LinesCounted, main.buffer_full,
         output_scanline \in Nat, output_scanline < output_height,
         NEW room \in Nat \ {0},
         UNCHANGED <<frame, block_size, setting>>, upsample' = Upsampled(room).state
  PROVE  \E n \in 1..room : GroupStep(Upsampled(room), n)
<1>1. CASE ~ use_merged_upsample
  BY <1>1, SeparateStep DEF Upsampled
<1>2. CASE use_merged_upsample /\ max_v_samp_factor = 2
  BY <1>2, MergedStep DEF Upsampled
<1>3. CASE use_merged_upsample /\ max_v_samp_factor # 2
  <2>1. Upsampled(room) = merged_1v_upsample
    BY <1>3 DEF Upsampled
  <2>2. GroupStep(merged_1v_upsample, 1)
    BY <1>3, <2>1, SingleStep
  <2> QED
    BY <2>1, <2>2
<1> QED
  BY <1>1, <1>2, <1>3

MainStates == [buffer_full : BOOLEAN, rowgroup_ctr : Int, iMCU_row : Int]

\* After its last row group, an iMCU row is followed by the next.
LEMMA MainStep ==
  ASSUME Sized, setting \in Parameters, Buffers, LinesCounted, main.buffer_full,
         UNCHANGED <<frame, block_size, setting, output_iMCU_row>>, NEW consumed, UseRowGroup(consumed)
  PROVE  /\ main' \in MainStates
         /\ main'.rowgroup_ctr \in 0..(min_DCT_scaled_size - 1) /\ main'.iMCU_row = main.iMCU_row
         /\ ~ main'.buffer_full => main'.rowgroup_ctr = 0
         /\ ~ consumed => main'.buffer_full /\ RowGroupLine' = RowGroupLine
         /\ consumed => (IF main'.buffer_full THEN RowGroupLine' ELSE output_iMCU_row * lines_per_iMCU_row)
                          = RowGroupLine + max_v_samp_factor
         /\ RowGroupLine \in Nat
<1> DEFINE V == max_v_samp_factor
           D == min_DCT_scaled_size
           g == main.rowgroup_ctr
           r == main.iMCU_row
<1>1. /\ V \in Nat /\ D \in Nat /\ V' = V /\ D' = D /\ lines_per_iMCU_row = V * D
      /\ main \in MainStates /\ g \in 0..(D - 1) /\ r \in Nat /\ output_iMCU_row = r + 1
  <2>1. V \in Nat /\ D \in Nat /\ V' = V /\ D' = D /\ lines_per_iMCU_row = V * D
    BY Heights, HeightsStay
  <2>2. main \in MainStates
    BY DEF Buffers, MainStates
  <2>3. g \in 0..(D - 1) /\ r \in Nat /\ output_iMCU_row = r + 1
    BY DEF LinesCounted, Grouped
  <2> QED
    BY <2>1, <2>2, <2>3
<1>2. RowGroupLine = (r * D + g) * V /\ RowGroupLine' = (main'.iMCU_row * D + main'.rowgroup_ctr) * V
  BY <1>1 DEF RowGroupLine
<1>3. RowGroupLine \in Nat
  BY <1>1, <1>2, GroupPlace
<1>4. CASE ~ consumed
  <2>1. main' = [main EXCEPT !.rowgroup_ctr = g]
    BY <1>1, <1>4 DEF UseRowGroup
  <2>2. main' \in MainStates /\ main'.iMCU_row = r /\ main'.rowgroup_ctr = g /\ main'.buffer_full = main.buffer_full
    BY <1>1, <2>1 DEF MainStates
  <2> QED
    BY <1>1, <1>2, <1>3, <1>4, <2>2
<1>5. CASE consumed /\ g + 1 < D
  <2>1. main' = [main EXCEPT !.rowgroup_ctr = g + 1]
    BY <1>1, <1>5 DEF UseRowGroup
  <2>2. main' \in MainStates /\ main'.iMCU_row = r /\ main'.rowgroup_ctr = g + 1
    BY <1>1, <2>1 DEF MainStates
  <2>3. main'.buffer_full
    BY <1>1, <2>1 DEF MainStates
  <2>4. (r * D + (g + 1)) * V = (r * D + g) * V + V
    BY <1>1, GroupPlace
  <2> QED
    BY <1>1, <1>2, <1>3, <1>5, <2>2, <2>3, <2>4
<1>6. CASE consumed /\ g + 1 = D
  <2>1. main' = [main EXCEPT !.buffer_full = FALSE, !.rowgroup_ctr = 0]
    BY <1>1, <1>6 DEF UseRowGroup
  <2>2. main' \in MainStates
    <3> DEFINE m == [main EXCEPT !.buffer_full = FALSE]
    <3>1. m \in MainStates
      BY <1>1 DEF MainStates
    <3>2. main' = [m EXCEPT !.rowgroup_ctr = 0]
      BY <2>1
    <3> HIDE DEF m
    <3> QED
      BY <3>1, <3>2 DEF MainStates
  <2>3. ~ main'.buffer_full /\ main'.iMCU_row = r /\ main'.rowgroup_ctr = 0
    BY <1>1, <2>1 DEF MainStates
  <2>4. (r * D + (g + 1)) * V = (r * D + g) * V + V /\ (r * D + D) * V = (r + 1) * (V * D)
    BY <1>1, GroupPlace
  <2>5. output_iMCU_row * lines_per_iMCU_row = RowGroupLine + V
    BY <1>1, <1>2, <1>6, <2>4
  <2> QED
    BY <1>1, <1>3, <1>6, <2>2, <2>3, <2>5
<1> QED
  BY <1>1, <1>4, <1>5, <1>6

\* Lines that an upsampler makes are counted as the picture has them.
LEMMA UpsampledStep ==
  ASSUME Sized, setting \in Parameters, Buffers, LinesCounted, main.buffer_full,
         output_scanline \in Nat, output_scanline < output_height,
         NEW room \in Nat \ {0},
         UNCHANGED <<frame, block_size, setting, output_iMCU_row>>,
         upsample' = Upsampled(room).state, UseRowGroup(Upsampled(room).consumed),
         output_scanline' = output_scanline + Len(Upsampled(room).lines)
  PROVE  /\ main' \in MainStates /\ upsample' \in UpsampleStates
         /\ LinesCounted'
         /\ \E n \in 1..room :
              /\ Upsampled(room).lines = Run(output_scanline, n) /\ output_scanline' = output_scanline + n
              /\ output_scanline' <= output_height
<1>1. PICK n \in 1..room : GroupStep(Upsampled(room), n)
  BY AnyStep
<1> DEFINE up == Upsampled(room)
<1>2. UseRowGroup(up.consumed)
  OBVIOUS
<1> HIDE DEF up
<1>3. /\ main' \in MainStates
      /\ main'.rowgroup_ctr \in 0..(min_DCT_scaled_size - 1) /\ main'.iMCU_row = main.iMCU_row
      /\ ~ main'.buffer_full => main'.rowgroup_ctr = 0
      /\ ~ up.consumed => main'.buffer_full /\ RowGroupLine' = RowGroupLine
      /\ up.consumed => (IF main'.buffer_full THEN RowGroupLine' ELSE output_iMCU_row * lines_per_iMCU_row)
                          = RowGroupLine + max_v_samp_factor
      /\ RowGroupLine \in Nat
  BY <1>2, MainStep
<1>4. GroupStep(up, n) /\ n \in 1..room
  BY <1>1 DEF up
<1>5. up.lines = Run(output_scanline, n) /\ Len(up.lines) = n
  <2>1. Len(Run(output_scanline, n)) = n
    BY RunLength
  <2> QED
    BY <1>4, <2>1 DEF GroupStep
<1>6. output_scanline' = output_scanline + n
  BY <1>5 DEF up
<1>7. /\ output_height \in Nat /\ output_height' = output_height /\ max_v_samp_factor' = max_v_samp_factor
      /\ min_DCT_scaled_size' = min_DCT_scaled_size /\ (use_merged_upsample' <=> use_merged_upsample)
      /\ lines_per_iMCU_row' = lines_per_iMCU_row /\ max_v_samp_factor \in Nat
  BY Heights, HeightsStay
<1>8. LinesOfGroup \in Nat /\ output_scanline = RowGroupLine + LinesOfGroup
  <2>1. output_scanline = RowGroupLine + LinesOfGroup
    BY DEF LinesCounted, NextLine
  <2>2. LinesOfGroup \in Nat
    <3>1. upsample.next_row_out \in Nat
      BY DEF Buffers, LinesCounted, Grouped
    <3> QED
      BY <3>1 DEF LinesOfGroup
  <2> QED
    BY <2>1, <2>2
<1>9. output_scanline' = NextLine'
  <2>1. CASE ~ up.consumed
    <3>1. LinesOfGroup' = LinesOfGroup + n
      BY <1>4, <2>1 DEF GroupStep
    <3> QED
      BY <1>3, <1>6, <1>8, <2>1, <3>1 DEF NextLine
  <2>2. CASE up.consumed
    <3>1. LinesOfGroup' = 0 /\ LinesOfGroup + n = max_v_samp_factor
      BY <1>4, <2>2 DEF GroupStep
    <3>2. output_scanline + n = RowGroupLine + max_v_samp_factor
      BY <1>3, <1>8, <3>1
    <3>3. CASE main'.buffer_full
      BY <1>3, <1>6, <1>7, <2>2, <3>1, <3>2, <3>3 DEF NextLine
    <3>4. CASE ~ main'.buffer_full
      BY <1>3, <1>6, <1>7, <2>2, <3>2, <3>4 DEF NextLine
    <3> QED
      BY <3>3, <3>4
  <2> QED
    BY <2>1, <2>2
<1>10. output_scanline' <= output_height'
  BY <1>4, <1>6, <1>7 DEF GroupStep
<1>11. (use_merged_upsample' => max_v_samp_factor' = 2) => upsample'.rows_to_go = output_height' - output_scanline'
  <2>1. (use_merged_upsample => max_v_samp_factor = 2) => upsample.rows_to_go = output_height - output_scanline
    BY DEF LinesCounted
  <2>2. (use_merged_upsample => max_v_samp_factor = 2) => upsample'.rows_to_go = upsample.rows_to_go - n
    BY <1>4 DEF GroupStep
  <2>3. output_height' - output_scanline' = (output_height - output_scanline) - n
    <3>1. n \in Int
      BY <1>4 DEF GroupStep
    <3> QED
      BY <1>6, <1>7, <3>1
  <2>4. (use_merged_upsample' => max_v_samp_factor' = 2) <=> (use_merged_upsample => max_v_samp_factor = 2)
    BY <1>7
  <2> QED
    BY <2>1, <2>2, <2>3, <2>4
<1>12. Grouped'
  <2>1. /\ use_merged_upsample => max_v_samp_factor <= 2
        /\ main.iMCU_row \in Nat /\ output_iMCU_row = main.iMCU_row + 1
    BY DEF LinesCounted, Grouped
  <2>2. ~ main'.buffer_full => LinesOfGroup' = 0
    BY <1>3, <1>4 DEF GroupStep
  <2>3. use_merged_upsample /\ max_v_samp_factor = 2 /\ upsample'.spare_full =>
          upsample'.spare_row = RowGroupLine + 1 /\ ~ up.consumed
    BY <1>4 DEF GroupStep
  <2>4. ~ use_merged_upsample /\ upsample'.next_row_out < max_v_samp_factor =>
          upsample'.color_buf = RowGroupLine /\ ~ up.consumed
    BY <1>4 DEF GroupStep
  <2>5. upsample'.next_row_out >= 1
    BY <1>4 DEF GroupStep
  <2> QED
    BY <1>3, <1>7, <2>1, <2>2, <2>3, <2>4, <2>5 DEF Grouped
<1>13. upsample' \in UpsampleStates
  BY <1>4 DEF GroupStep
<1> QED
  BY <1>3, <1>5, <1>6, <1>7, <1>9, <1>10, <1>11, <1>12, <1>13 DEF LinesCounted, up

-----------------------------------------------------------------------------
(* Lines on their way through the postprocessor. *)

\* Lines in order are followed by those that come next.
LEMMA OrderedGrows ==
  ASSUME NEW s \in Seq(Int), NEW k \in Nat, NEW m \in Nat, Len(s) = k, Ordered(s, k)
  PROVE  /\ s \o Run(k, m) \in Seq(Int)
         /\ Len(s \o Run(k, m)) = k + m /\ Ordered(s \o Run(k, m), k + m)
<1>1. Len(Run(k, m)) = m /\ Run(k, m) \in Seq(Int) /\ \A i \in 1..m : Run(k, m)[i] = k + i - 1
  BY RunLength
<1> DEFINE r == Run(k, m)
<1>2. r \in Seq(Int) /\ Len(r) = m /\ \A i \in 1..m : r[i] = k + i - 1
  BY <1>1
<1> HIDE DEF r
<1>3. s \o r \in Seq(Int) /\ Len(s \o r) = k + m
  BY <1>2
<1>4. ASSUME NEW i \in 1..(k + m) PROVE (s \o r)[i] = i - 1
  <2>1. CASE i <= k
    <3>1. (s \o r)[i] = s[i] /\ i \in 1..k
      BY <1>2, <2>1
    <3> QED
      BY <3>1 DEF Ordered
  <2>2. CASE i > k
    <3>1. (s \o r)[i] = r[i - k] /\ i - k \in 1..m
      BY <1>2, <2>2
    <3> QED
      BY <1>2, <3>1
  <2>3. i <= k \/ i > k
    OBVIOUS
  <2> QED
    BY <2>1, <2>2, <2>3
<1> QED
  BY <1>3, <1>4 DEF Ordered, r

\* The second of two sequences follows the first.
LEMMA AfterTheFirst ==
  ASSUME NEW s \in Seq(Int), NEW t \in Seq(Int), NEW j \in Len(s) + 1..Len(s) + Len(t)
  PROVE  (s \o t)[j] = t[j - Len(s)] /\ j - Len(s) \in 1..Len(t)
OBVIOUS

\* Stored lines are overwritten from the row on that comes next.
LEMMA StoredGrows ==
  ASSUME NEW s \in Seq(Int), NEW k \in Nat, NEW m \in Nat, Ordered(s, k)
  PROVE  /\ SubSeq(s, 1, k) \o Run(k, m) \in Seq(Int)
         /\ Ordered(SubSeq(s, 1, k) \o Run(k, m), k + m)
<1> DEFINE t == SubSeq(s, 1, k)
<1>1. k <= Len(s)
  BY DEF Ordered
<1>2. t \in Seq(Int) /\ Len(t) = k /\ \A i \in 1..k : t[i] = s[i]
  BY <1>1
<1> HIDE DEF t
<1>3. Ordered(t, k)
  <2>1. \A i \in 1..k : t[i] = i - 1
    BY <1>2 DEF Ordered
  <2> QED
    BY <1>2, <2>1 DEF Ordered
<1> QED
  BY <1>2, <1>3, OrderedGrows DEF t

PostStates == [starting_row : Int, next_row : Int, mode : {"JBUF_PASS_THRU", "JBUF_SAVE_AND_PASS", "JBUF_CRANK_DEST"}]

\* Rows fill a strip, and then the next.
LEMMA StripStep ==
  ASSUME post \in PostStates, InStrips, strip_height \in Nat \ {0}, strip_height' = strip_height,
         output_scanline \in Nat,
         NEW n \in Nat, n <= strip_height - post.next_row,
         post' = NextPosition(n), output_scanline' = output_scanline + n
  PROVE  post' \in PostStates /\ post'.mode = post.mode /\ InStrips'
<1>1. post.next_row \in 0..(strip_height - 1) /\ output_scanline = post.starting_row + post.next_row
      /\ post.starting_row \in Int
  BY DEF InStrips, PostStates
<1>2. CASE post.next_row + n >= strip_height
  <2>1. post' = [post EXCEPT !.starting_row = @ + strip_height, !.next_row = 0]
    BY <1>2 DEF NextPosition
  <2> DEFINE p == [post EXCEPT !.starting_row = @ + strip_height]
  <2>2. p \in PostStates /\ p.mode = post.mode /\ p.starting_row = post.starting_row + strip_height
    BY <1>1 DEF PostStates
  <2>3. post' = [p EXCEPT !.next_row = 0]
    BY <2>1
  <2> HIDE DEF p
  <2>4. post' \in PostStates /\ post'.mode = post.mode
    BY <2>2, <2>3 DEF PostStates
  <2>5. post'.next_row = 0 /\ post'.starting_row = post.starting_row + strip_height
    BY <2>2, <2>3 DEF PostStates
  <2>6. post.next_row + n = strip_height
    BY <1>1, <1>2
  <2> QED
    BY <1>1, <2>4, <2>5, <2>6 DEF InStrips
<1>3. CASE ~ (post.next_row + n >= strip_height)
  <2>1. post' = [post EXCEPT !.next_row = @ + n]
    BY <1>3 DEF NextPosition
  <2>2. post' \in PostStates /\ post'.mode = post.mode
    BY <1>1, <2>1 DEF PostStates
  <2>3. post'.next_row = post.next_row + n /\ post'.starting_row = post.starting_row
    BY <2>1 DEF PostStates
  <2> QED
    BY <1>1, <1>3, <2>2, <2>3 DEF InStrips
<1> QED
  BY <1>2, <1>3

\* The lines there are to count.
LEMMA LinesAreCounted ==
  ASSUME Sized, setting \in Parameters, Buffers, LinesCounted, output_iMCU_row \in Nat
  PROVE  output_scanline \in Nat
<1> DEFINE V == max_v_samp_factor
           D == min_DCT_scaled_size
           g == main.rowgroup_ctr
           r == main.iMCU_row
<1>1. V \in Nat /\ D \in Nat /\ lines_per_iMCU_row = V * D
  BY Heights
<1>2. LinesOfGroup \in Nat
  <2>1. upsample.next_row_out \in Nat
    BY DEF Buffers, LinesCounted, Grouped
  <2> QED
    BY <2>1 DEF LinesOfGroup
<1>3. CASE main.buffer_full
  <2>1. r \in Nat /\ g \in Nat
    BY <1>1, <1>3 DEF LinesCounted, Grouped
  <2>2. (r * D + g) * V \in Nat
    BY <1>1, <2>1, GroupPlace
  <2> QED
    BY <1>2, <1>3, <2>2 DEF LinesCounted, NextLine, RowGroupLine
<1>4. CASE ~ main.buffer_full
  <2>1. output_iMCU_row * (V * D) \in Nat
    BY <1>1, GroupPlace
  <2> QED
    BY <1>1, <1>4, <2>1 DEF LinesCounted, NextLine
<1> QED
  BY <1>3, <1>4

\* The first of two passes stores the picture from the top.
LEMMA StoringStep ==
  ASSUME Sized, setting \in Parameters, Buffers, LinesCounted, main.buffer_full,
         output_scanline \in Nat, output_scanline < output_height,
         InStrips, Ordered(whole_image, output_scanline),
         UNCHANGED <<frame, block_size, setting, output_iMCU_row>>,
         post_process_prepass
  PROVE  /\ Buffers' /\ LinesCounted' /\ post'.mode = post.mode
         /\ InStrips' /\ Ordered(whole_image', output_scanline') /\ lines' = lines
<1> DEFINE room == strip_height - post.next_row
           up == Upsampled(room)
<1>1. post \in PostStates /\ whole_image \in Seq(Int) /\ lines \in Seq(Int)
  BY DEF Buffers, PostStates
<1>2. strip_height \in Nat \ {0} /\ strip_height' = strip_height
  BY Heights, HeightsStay DEF strip_height
<1>3. room \in Nat \ {0} /\ post.starting_row + post.next_row = output_scanline
  BY <1>1, <1>2 DEF InStrips, PostStates
<1>4. /\ upsample' = up.state /\ UseRowGroup(up.consumed)
      /\ whole_image' = SubSeq(whole_image, 1, output_scanline) \o up.lines
      /\ post' = NextPosition(Len(up.lines)) /\ output_scanline' = output_scanline + Len(up.lines)
      /\ lines' = lines
  BY <1>3 DEF post_process_prepass
<1> HIDE DEF room
<1>5. /\ main' \in MainStates /\ upsample' \in UpsampleStates /\ LinesCounted'
      /\ \E n \in 1..room :
           /\ up.lines = Run(output_scanline, n) /\ output_scanline' = output_scanline + n
           /\ output_scanline' <= output_height
  BY <1>3, <1>4, UpsampledStep
<1>6. PICK n \in 1..room : up.lines = Run(output_scanline, n) /\ output_scanline' = output_scanline + n
  BY <1>5
<1> HIDE DEF up
<1>7. Len(up.lines) = n /\ n \in Nat /\ n <= room
  <2>1. n \in Nat /\ n <= room
    BY <1>3, <1>6
  <2> QED
    BY <1>6, <2>1, RunLength
<1>8. post' \in PostStates /\ post'.mode = post.mode /\ InStrips'
  BY <1>1, <1>2, <1>4, <1>6, <1>7, StripStep DEF room
<1>9. whole_image' \in Seq(Int) /\ Ordered(whole_image', output_scanline')
  BY <1>1, <1>4, <1>6, <1>7, StoredGrows
<1> QED
  BY <1>1, <1>4, <1>5, <1>8, <1>9 DEF Buffers, MainStates, UpsampleStates, PostStates

\* A single pass gives the lines out as they are made.
LEMMA PassingStep ==
  ASSUME Sized, setting \in Parameters, Buffers, LinesCounted, main.buffer_full,
         output_scanline \in Nat, output_scanline < output_height, InOrder,
         UNCHANGED <<frame, block_size, setting, output_iMCU_row>>,
         NEW n \in Nat \ {0}, post_process_1pass(n)
  PROVE  Buffers' /\ LinesCounted' /\ post' = post /\ InOrder'
<1> DEFINE room == IF setting.quantize_colors THEN Smallest({n, strip_height}) ELSE n
           up == Upsampled(room)
<1>1. post \in PostStates /\ whole_image \in Seq(Int) /\ lines \in Seq(Int)
  BY DEF Buffers, PostStates
<1>2. room \in Nat \ {0}
  <2>1. strip_height \in Nat \ {0}
    BY Heights DEF strip_height
  <2>2. Smallest({n, strip_height}) \in {n, strip_height}
    <3>1. \A k \in Nat \ {0} : Smallest({n, k}) \in {n, k}
      BY SmallestOfTwo
    <3> QED
      BY <2>1, <3>1
  <2> QED
    BY <2>1, <2>2
<1>3. /\ upsample' = up.state /\ UseRowGroup(up.consumed)
      /\ lines' = lines \o up.lines /\ output_scanline' = output_scanline + Len(up.lines)
      /\ UNCHANGED <<post, whole_image>>
  BY DEF post_process_1pass, Emit
<1> HIDE DEF room
<1>4. /\ main' \in MainStates /\ upsample' \in UpsampleStates /\ LinesCounted'
      /\ \E m \in 1..room : up.lines = Run(output_scanline, m) /\ output_scanline' = output_scanline + m
  BY <1>2, <1>3, UpsampledStep
<1>5. PICK m \in 1..room : up.lines = Run(output_scanline, m) /\ output_scanline' = output_scanline + m
  BY <1>4
<1> HIDE DEF up
<1>6. m \in Nat
  BY <1>2, <1>5
<1>7. lines' \in Seq(Int) /\ InOrder'
  <2>1. Len(lines) = output_scanline /\ Ordered(lines, output_scanline)
    BY DEF InOrder
  <2> DEFINE l == lines \o Run(output_scanline, m)
  <2>2. l \in Seq(Int) /\ Len(l) = output_scanline + m /\ Ordered(l, output_scanline + m)
    BY <1>1, <1>6, <2>1, OrderedGrows
  <2>3. lines' = l /\ output_scanline' = output_scanline + m
    BY <1>3, <1>5
  <2> HIDE DEF l
  <2> QED
    BY <2>2, <2>3 DEF InOrder, Ordered
<1> QED
  BY <1>1, <1>3, <1>4, <1>7 DEF Buffers, MainStates, UpsampleStates, PostStates

\* The second of two passes gives out stored lines; a strip of one or two lines ends with the picture.
LEMMA CrankingStep ==
  ASSUME Sized, setting \in Parameters, Buffers, InStrips, Ordered(whole_image, output_height),
         Len(lines) = output_scanline, output_scanline < output_height,
         max_v_samp_factor <= 2 => InOrder,
         UNCHANGED <<frame, block_size, setting>>,
         NEW n \in Nat \ {0}, post_process_2pass(n)
  PROVE  /\ Buffers' /\ post'.mode = post.mode /\ InStrips' /\ Ordered(whole_image', output_height')
         /\ Len(lines') = output_scanline'
         /\ max_v_samp_factor' <= 2 => InOrder' /\ output_scanline' <= output_height'
<1> DEFINE k == Smallest({strip_height - post.next_row, n, output_height - post.starting_row})
           out == [i \in 1..k |-> StoredLine(output_scanline + i)]
<1>1. post \in PostStates /\ whole_image \in Seq(Int) /\ lines \in Seq(Int)
  BY DEF Buffers, PostStates
<1>2. /\ strip_height \in Nat \ {0} /\ strip_height' = strip_height /\ strip_height = max_v_samp_factor
      /\ max_v_samp_factor' = max_v_samp_factor
      /\ output_height \in Nat /\ output_height' = output_height
  BY Heights, HeightsStay DEF strip_height
<1>3. /\ output_scanline \in Nat /\ output_scanline = post.starting_row + post.next_row
      /\ post.next_row \in 0..(strip_height - 1) /\ post.starting_row \in Int
  BY <1>1 DEF InStrips, PostStates
<1>4. /\ k \in {strip_height - post.next_row, n, output_height - post.starting_row}
      /\ k <= strip_height - post.next_row /\ k <= output_height - post.starting_row
  <2>1. PICK a \in Int : a = strip_height - post.next_row
    BY <1>2, <1>3
  <2>2. PICK b \in Int : b = output_height - post.starting_row
    BY <1>2, <1>3
  <2>3. Smallest({a, n, b}) \in {a, n, b} /\ Smallest({a, n, b}) <= a /\ Smallest({a, n, b}) <= b
    <3>1. a \in Int /\ b \in Int /\ n \in Int
      BY <2>1, <2>2
    <3> QED
      BY <3>1, SmallestOfThree
  <2> QED
    BY <2>1, <2>2, <2>3
<1>5. /\ lines' = lines \o out /\ output_scanline' = output_scanline + Len(out)
      /\ post' = NextPosition(k) /\ UNCHANGED <<main, upsample, whole_image>>
  BY <1>3 DEF post_process_2pass, Emit
<1> HIDE DEF k
<1>6. k \in Nat
  BY <1>2, <1>3, <1>4
<1>7. out \in Seq(Int) /\ Len(out) = k /\ \A i \in 1..k : out[i] = StoredLine(output_scanline + i)
  <2>1. ASSUME NEW i \in 1..k PROVE StoredLine(output_scanline + i) \in Int
    <3>1. \A j \in DOMAIN whole_image : whole_image[j] \in Int
      BY <1>1
    <3> QED
      BY <3>1 DEF StoredLine, NoLine
  <2>2. out \in [1..k -> Int]
    BY <2>1
  <2> QED
    BY <1>6, <2>2
<1> HIDE DEF out
<1>8. output_scanline' = output_scanline + k /\ lines' \in Seq(Int) /\ Len(lines') = output_scanline'
  BY <1>1, <1>3, <1>5, <1>6, <1>7
<1>9. post' \in PostStates /\ post'.mode = post.mode /\ InStrips'
  BY <1>1, <1>2, <1>3, <1>4, <1>5, <1>6, <1>8, StripStep
<1>10. ASSUME max_v_samp_factor <= 2 PROVE InOrder' /\ output_scanline' <= output_height'
  <2>1. output_scanline + k <= output_height
    BY <1>2, <1>3, <1>4, <1>6, <1>10
  <2>2. ASSUME NEW i \in 1..k PROVE out[i] = output_scanline + i - 1
    <3>1. output_scanline + i \in 1..output_height
      BY <1>2, <1>3, <1>6, <2>1
    <3>2. output_scanline + i \in DOMAIN whole_image
      BY <1>1, <1>2, <3>1 DEF Ordered
    <3>3. whole_image[output_scanline + i] = output_scanline + i - 1
      BY <3>1 DEF Ordered
    <3> QED
      BY <1>7, <3>2, <3>3 DEF StoredLine
  <2>3. ASSUME NEW j \in 1..output_scanline' PROVE lines'[j] = j - 1
    <3>1. CASE j <= output_scanline
      <4>1. lines'[j] = lines[j] /\ j \in 1..output_scanline
        BY <1>1, <1>3, <1>5, <1>6, <1>7, <1>8, <3>1
      <4> QED
        BY <1>10, <4>1 DEF InOrder, Ordered
    <3>2. CASE j > output_scanline
      <4>1. j \in Len(lines) + 1..Len(lines) + Len(out)
        BY <1>3, <1>6, <1>7, <1>8, <3>2
      <4>2. (lines \o out)[j] = out[j - Len(lines)] /\ j - Len(lines) \in 1..Len(out)
        BY <1>1, <1>7, <4>1, AfterTheFirst
      <4>3. lines'[j] = out[j - output_scanline] /\ j - output_scanline \in 1..k
        BY <1>5, <1>7, <4>2
      <4> QED
        BY <1>3, <2>2, <4>1, <4>3
    <3> QED
      BY <1>3, <1>6, <1>8, <3>1, <3>2
  <2> QED
    BY <1>2, <1>3, <1>6, <1>8, <2>1, <2>3 DEF InOrder, Ordered
<1> QED
  BY <1>1, <1>2, <1>5, <1>8, <1>9, <1>10 DEF Buffers, PostStates

-----------------------------------------------------------------------------
(* Input while lines are given out. *)

\* Once a picture was begun, reading changes its sizes no more, and what output has to decode is not read.
LEMMA ReadingOn ==
  ASSUME NEW ret, ConsumeInput(ret)
  PROVE  /\ InputInv /\ inheaders = 0 => UNCHANGED <<frame, block_size>> /\ inheaders' = 0
         /\ consume_input' = "dummy_consume_data" =>
              ret = "SUSPENDED" /\ consume_input = "dummy_consume_data" /\ UNCHANGED inputVars
<1> DEFINE Same == UNCHANGED <<frame, block_size, inheaders>>
<1>1. CASE consume_input = "consume_markers" /\ consume_markers(ret)
  <2>1. CASE UNCHANGED inputVars
    BY <1>1, <2>1 DEF inputVars, seen, setup, scans, pass
  <2>2. CASE \E e : Fail(ret, e)
    BY <1>1, <2>2 DEF Fail, seen, setup, scans, pass
  <2>3. CASE Same /\ UNCHANGED pass
    BY <1>1, <2>3 DEF pass
  <2>4. CASE first_marker(ret) \/ next_marker(ret) \/ get_soi(ret) \/ get_dqt(ret) \/ get_dht(ret)
             \/ skip_variable(ret) \/ UnknownMarker(ret) \/ ReachEoi(ret)
    BY <2>2, <2>3, <2>4 DEF first_marker, next_marker, get_soi, get_dqt, get_dht, skip_variable, UnknownMarker,
       ReachEoi, seen, setup, scans
  <2>5. CASE get_sof(ret)
    <3>1. CASE saw_SOF
      BY <2>2, <2>5, <3>1 DEF get_sof
    <3>2. CASE ~ saw_SOF
      <4>1. UNCHANGED pass
        BY <2>5, <3>2 DEF get_sof
      <4>2. ~ (InputInv /\ inheaders = 0)
        BY <3>2 DEF InputInv, Headers
      <4> QED
        BY <1>1, <4>1, <4>2 DEF pass
    <3> QED
      BY <3>1, <3>2
  <2>6. CASE FirstSos(ret)
    <3>1. inheaders # 0
      BY <2>6 DEF FirstSos
    <3>2. UNCHANGED pass
      BY <2>6 DEF FirstSos, Fail
    <3> QED
      BY <1>1, <3>1, <3>2 DEF pass
  <2>7. CASE LaterSos(ret)
    <3>1. Same
      BY <2>7 DEF LaterSos, Fail, SosRead, seen, setup, scans
    <3>2. consume_input' \in {consume_input, "consume_data"}
      BY <2>7 DEF LaterSos, Fail, start_input_pass, pass
    <3> QED
      BY <1>1, <3>1, <3>2
  <2> QED
    BY <1>1, <2>1, <2>4, <2>5, <2>6, <2>7 DEF consume_markers
<1>2. CASE consume_input = "consume_data" /\ DecodeRow(ret)
  <2>1. Same
    BY <1>2 DEF DecodeRow, inputVars, seen, setup, scans
  <2>2. consume_input' \in {consume_input, "consume_markers"}
    BY <1>2 DEF DecodeRow, AdvanceRow, inputVars, pass
  <2> QED
    BY <1>2, <2>1, <2>2
<1>3. CASE consume_input = "dummy_consume_data" /\ dummy_consume_data(ret)
  BY <1>3 DEF dummy_consume_data, inputVars, seen, setup, scans
<1> QED
  BY <1>1, <1>2, <1>3 DEF ConsumeInput

\* A row that output decodes is the next, and not the last as long as there are more to come.
LEMMA RowInStep ==
  ASSUME InputInv, NEW ret, DecodeRow(ret)
  PROVE  /\ UNCHANGED <<frame, block_size, inheaders, has_multiple_scans>>
         /\ consume_input' = "dummy_consume_data" =>
              /\ consume_input = "dummy_consume_data"
              /\ ret # "SCAN_COMPLETED"
              /\ input_iMCU_row' = IF ret = "ROW_COMPLETED" THEN input_iMCU_row + 1 ELSE input_iMCU_row
              /\ input_iMCU_row < total_iMCU_rows /\ total_iMCU_rows \in Nat => input_iMCU_row' < total_iMCU_rows
<1>1. UNCHANGED <<frame, block_size, inheaders, has_multiple_scans>>
  BY DEF DecodeRow, inputVars, seen, setup, scans
<1>2. CASE ret = "SUSPENDED" /\ UNCHANGED inputVars
  BY <1>1, <1>2 DEF inputVars, pass
<1>3. CASE AdvanceRow(ret)
  <2>1. input_iMCU_row \in Nat
    BY DEF InputInv, Counters
  <2>2. CASE MCU_vert_offset + 1 < MCU_rows_per_iMCU_row
    BY <1>1, <1>3, <2>2 DEF AdvanceRow
  <2>3. CASE ~ (MCU_vert_offset + 1 < MCU_rows_per_iMCU_row) /\ input_iMCU_row + 1 = total_iMCU_rows
    BY <1>1, <1>3, <2>3 DEF AdvanceRow
  <2>4. CASE ~ (MCU_vert_offset + 1 < MCU_rows_per_iMCU_row) /\ input_iMCU_row + 1 # total_iMCU_rows
    BY <1>1, <1>3, <2>1, <2>4 DEF AdvanceRow
  <2> QED
    BY <2>2, <2>3, <2>4
<1> QED
  BY <1>2, <1>3 DEF DecodeRow

\* Where nothing of this changes, input and output stay in step.
LEMMA InStepStays ==
  ASSUME OnePass,
         consume_input' = "dummy_consume_data" =>
           UNCHANGED <<frame, block_size, consume_input, coef, has_multiple_scans, input_iMCU_row>>,
         UNCHANGED <<setting, output_iMCU_row, decompress_data, post, global_state>>
  PROVE  OnePass'
<1> SUFFICES ASSUME consume_input' = "dummy_consume_data" PROVE OnePass'
  BY DEF OnePass
<1>1. UNCHANGED <<frame, block_size, consume_input, coef, has_multiple_scans, input_iMCU_row>>
  OBVIOUS
<1>2. total_iMCU_rows' = total_iMCU_rows
  BY <1>1, SizesStay
<1> QED
  BY <1>1, <1>2 DEF OnePass, Cranking

\* A step of handing out rows.
LEMMA RowHandedOut ==
  ASSUME InputInv, Phases, OnePass, inheaders = 0, global_state \in {"PRESCAN", "SCANNING", "RAW_OK"},
         NEW ret \in Retcodes, DecompressData(ret),
         UNCHANGED <<global_state, setting, decompress_data, post>>
  PROVE  /\ UNCHANGED <<frame, block_size>> /\ inheaders' = 0
         /\ output_iMCU_row' = IF ret = "ROW_COMPLETED" THEN output_iMCU_row + 1 ELSE output_iMCU_row
         /\ OnePass'
<1>1. Sized
  BY DEF InputInv, Headers, Sized
<1>2. total_iMCU_rows \in Nat
  BY <1>1, Dimensions
<1>3. CASE decompress_data = "decompress_onepass"
  <2>1. PICK r \in Retcodes :
          /\ DecodeRow(r)
          /\ IF r \in {"ROW_COMPLETED", "SCAN_COMPLETED"} THEN ret = "ROW_COMPLETED" /\ ShowRow(output_iMCU_row)
             ELSE ret = r /\ UNCHANGED <<output_iMCU_row, shown>>
    BY <1>3 DEF DecompressData, decompress_onepass
  <2>2. UNCHANGED <<frame, block_size, inheaders, has_multiple_scans>>
    BY <2>1, RowInStep
  <2>3. output_iMCU_row' = IF ret = "ROW_COMPLETED" THEN output_iMCU_row + 1 ELSE output_iMCU_row
    BY <2>1 DEF ShowRow
  <2>4. OnePass'
    <3> SUFFICES ASSUME consume_input' = "dummy_consume_data" PROVE OnePass'
      BY DEF OnePass
    <3>1. /\ consume_input = "dummy_consume_data" /\ r # "SCAN_COMPLETED"
          /\ input_iMCU_row' = IF r = "ROW_COMPLETED" THEN input_iMCU_row + 1 ELSE input_iMCU_row
          /\ input_iMCU_row < total_iMCU_rows => input_iMCU_row' < total_iMCU_rows
      BY <1>2, <2>1, RowInStep
    <3>2. coef = <<>> /\ coef' = <<>>
      <4>1. coef = <<>>
        BY <3>1 DEF OnePass
      <4>2. InputStep(r)
        BY <2>1, <4>1, DataStep
      <4> QED
        BY <4>1, <4>2 DEF InputStep
    <3>3. total_iMCU_rows' = total_iMCU_rows
      BY <2>2, SizesStay
    <3>4. output_iMCU_row' = input_iMCU_row'
      BY <2>1, <2>3, <3>1 DEF OnePass
    <3> QED
      BY <2>2, <3>1, <3>2, <3>3, <3>4 DEF OnePass, Cranking
  <2> QED
    BY <2>2, <2>3, <2>4
<1>4. CASE decompress_data # "decompress_onepass" /\ AheadOfInput
  <2>1. PICK r \in Retcodes :
          ConsumeInput(r) /\ ret = (IF r \in {"SUSPENDED", "ERROR"} THEN r ELSE "CONTINUE") /\ UNCHANGED output_iMCU_row
    BY <1>4 DEF DecompressData, DecompressFromArrays
  <2>2. /\ UNCHANGED <<frame, block_size>> /\ inheaders' = 0
        /\ consume_input' = "dummy_consume_data" => consume_input = "dummy_consume_data"
    BY <2>1, ReadingOn
  <2>3. consume_input # "dummy_consume_data"
    BY <1>4 DEF OnePass
  <2> QED
    BY <2>1, <2>2, <2>3 DEF OnePass
<1>5. CASE decompress_data # "decompress_onepass" /\ ~ AheadOfInput
  <2>1. ret = "ROW_COMPLETED" /\ output_iMCU_row' = output_iMCU_row + 1 /\ UNCHANGED inputVars
    BY <1>5 DEF DecompressData, DecompressFromArrays, ShowRow
  <2>2. consume_input # "dummy_consume_data"
    BY <1>5 DEF OnePass
  <2> QED
    BY <2>1, <2>2 DEF OnePass, inputVars, seen, setup, scans, pass
<1> QED
  BY <1>3, <1>4, <1>5

-----------------------------------------------------------------------------
(* The lines of an iMCU row. *)

\* An iMCU row that comes to an empty main buffer brings the next line.
LEMMA RowBuffered ==
  ASSUME Sized, setting \in Parameters, Buffers, LinesCounted, ~ main.buffer_full, output_iMCU_row \in Nat,
         UNCHANGED <<frame, block_size, setting, upsample, output_scanline>>,
         \/ UNCHANGED <<main, output_iMCU_row>>
         \/ /\ output_iMCU_row' = output_iMCU_row + 1
            /\ main' = [main EXCEPT !.buffer_full = TRUE, !.iMCU_row = output_iMCU_row]
  PROVE  LinesCounted' /\ main' \in MainStates
<1>1. /\ output_height' = output_height /\ max_v_samp_factor' = max_v_samp_factor
      /\ min_DCT_scaled_size' = min_DCT_scaled_size /\ (use_merged_upsample' <=> use_merged_upsample)
      /\ lines_per_iMCU_row' = lines_per_iMCU_row
      /\ max_v_samp_factor \in Nat /\ min_DCT_scaled_size \in Nat \ {0}
      /\ lines_per_iMCU_row = max_v_samp_factor * min_DCT_scaled_size
  BY Heights, HeightsStay
<1>2. main \in MainStates /\ main.rowgroup_ctr = 0 /\ LinesOfGroup = 0 /\ upsample.next_row_out >= 1
      /\ upsample \in UpsampleStates
  BY DEF Buffers, MainStates, UpsampleStates, LinesCounted, Grouped
<1>3. LinesOfGroup' = LinesOfGroup
  BY <1>1 DEF LinesOfGroup
<1>4. CASE UNCHANGED <<main, output_iMCU_row>>
  <2>1. RowGroupLine' = RowGroupLine
    BY <1>1, <1>4 DEF RowGroupLine
  <2> QED
    BY <1>1, <1>2, <1>3, <1>4, <2>1 DEF LinesCounted, NextLine, Grouped
<1>5. CASE /\ output_iMCU_row' = output_iMCU_row + 1
           /\ main' = [main EXCEPT !.buffer_full = TRUE, !.iMCU_row = output_iMCU_row]
  <2> DEFINE m == [main EXCEPT !.buffer_full = TRUE]
  <2>1. m \in MainStates /\ m.buffer_full = TRUE /\ m.rowgroup_ctr = 0
    BY <1>2 DEF MainStates
  <2>2. main' = [m EXCEPT !.iMCU_row = output_iMCU_row]
    BY <1>5
  <2> HIDE DEF m
  <2>3. main' \in MainStates /\ main'.buffer_full = TRUE /\ main'.rowgroup_ctr = 0
        /\ main'.iMCU_row = output_iMCU_row
    BY <2>1, <2>2 DEF MainStates
  <2>4. RowGroupLine' = output_iMCU_row * lines_per_iMCU_row
    <3>1. RowGroupLine' = (output_iMCU_row * min_DCT_scaled_size + 0) * max_v_samp_factor
      BY <1>1, <2>3 DEF RowGroupLine
    <3>2. (output_iMCU_row * min_DCT_scaled_size + 0) * max_v_samp_factor
            = output_iMCU_row * (max_v_samp_factor * min_DCT_scaled_size)
      BY <1>1, GroupPlace
    <3> QED
      BY <1>1, <3>1, <3>2
  <2>5. output_scanline = output_iMCU_row * lines_per_iMCU_row /\ output_scanline \in Int
    <3>1. output_scanline = output_iMCU_row * lines_per_iMCU_row
      BY DEF LinesCounted, NextLine
    <3>2. output_iMCU_row * (max_v_samp_factor * min_DCT_scaled_size) \in Nat
      BY <1>1, GroupPlace
    <3> QED
      BY <1>1, <3>1, <3>2
  <2>6. output_scanline' = NextLine'
    BY <1>2, <1>3, <2>3, <2>4, <2>5 DEF NextLine
  <2>7. ~ (use_merged_upsample /\ max_v_samp_factor = 2 /\ upsample.spare_full)
    BY <1>2 DEF LinesOfGroup
  <2>8. ~ (~ use_merged_upsample /\ upsample.next_row_out < max_v_samp_factor)
    BY <1>2 DEF LinesOfGroup
  <2>9. Grouped'
    <3>1. (use_merged_upsample => max_v_samp_factor <= 2) /\ 0 \in 0..(min_DCT_scaled_size - 1)
      BY <1>1 DEF LinesCounted, Grouped
    <3> QED
      BY <1>1, <1>2, <1>5, <2>3, <2>7, <2>8, <3>1 DEF Grouped
  <2> QED
    BY <1>1, <2>3, <2>6, <2>9 DEF LinesCounted
<1> QED
  BY <1>4, <1>5

\* As long as output has a row to decode, the lines given out are not all.
LEMMA RowsLeft ==
  ASSUME Sized, setting \in Parameters, LineInv, OnePass, consume_input = "dummy_consume_data",
         Upsampling \/ Raw, output_iMCU_row \in Nat
  PROVE  output_scanline < output_height
<1> DEFINE V == max_v_samp_factor
           D == min_DCT_scaled_size
           g == main.rowgroup_ctr
           r == main.iMCU_row
           o == output_iMCU_row
<1>1. V \in Nat /\ D \in Nat /\ lines_per_iMCU_row = V * D /\ output_height \in Nat
  BY Heights
<1>2. o < total_iMCU_rows
  BY DEF OnePass, Upsampling, Raw
<1>3. o * lines_per_iMCU_row < output_height
  BY <1>2, Heights
<1>4. o * (V * D) \in Nat
  BY <1>1, GroupPlace
<1>5. CASE Raw \/ ~ main.buffer_full
  BY <1>3, <1>5 DEF LineInv, LinesCounted, NextLine
<1>6. CASE Upsampling /\ main.buffer_full
  <2>1. output_scanline = RowGroupLine + LinesOfGroup
    BY <1>6 DEF LineInv, LinesCounted, NextLine
  <2>2. g \in Nat /\ g + 1 <= D /\ r \in Nat /\ o = r + 1
    BY <1>1, <1>6 DEF LineInv, LinesCounted, Grouped
  <2>3. LinesOfGroup \in Nat /\ LinesOfGroup <= V
    <3>1. upsample.next_row_out \in Nat
      BY <1>6 DEF LineInv, Buffers, LinesCounted, Grouped
    <3> QED
      BY <1>1, <3>1 DEF LinesOfGroup
  <2>4. RowGroupLine = (r * D + g) * V
    BY DEF RowGroupLine
  <2> HIDE DEF V, D, g, r, o
  <2>5. (r * D + (g + 1)) * V = (r * D + g) * V + V /\ (r * D + g) * V \in Nat
    BY <1>1, <2>2, GroupPlace
  <2>6. (r * D + (g + 1)) * V <= (r * D + D) * V /\ (r * D + D) * V = (r + 1) * (V * D)
    <3>1. PICK h \in Nat : h = g + 1
      BY <2>2
    <3>2. h <= D
      BY <2>2, <3>1
    <3> QED
      BY <1>1, <2>2, <3>1, <3>2, GroupPlace
  <2>7. RowGroupLine + LinesOfGroup <= o * (V * D)
    BY <1>1, <1>4, <2>2, <2>3, <2>4, <2>5, <2>6
  <2> QED
    BY <1>1, <1>3, <1>4, <2>1, <2>3, <2>4, <2>5, <2>7
<1> QED
  BY <1>5, <1>6

\* Giving out lines, or storing them, keeps them in order.
LEMMA LinesByProcess ==
  ASSUME InputInv, Phases, setting \in Parameters, LineInv, OnePass, Upsampling \/ Cranking,
         NEW ret, NEW n, ProcessData(ret, n), (Upsampling /\ post.mode = "JBUF_SAVE_AND_PASS") \/ n \in Nat \ {0},
         output_scanline < output_height,
         UNCHANGED <<setting, decompress_data, global_state, is_dummy_pass>>,
         call' = "jpeg_read_scanlines" => ret = "CONTINUE" /\ UNCHANGED <<call, max_lines>>
  PROVE  LineInv' /\ OnePass'
<1>1. inheaders = 0 /\ global_state \in {"PRESCAN", "SCANNING"} /\ ~ setting.raw_data_out
  BY DEF LineInv, Modes, Started, Upsampling, Cranking
<1>2. Sized /\ Buffers /\ Modes
  BY <1>1 DEF InputInv, Headers, Sized, LineInv
<1>3. output_iMCU_row \in Nat
  BY DEF Phases
<1>4. ASSUME UNCHANGED inputVars, UNCHANGED output_iMCU_row, post'.mode = post.mode PROVE OnePass'
  <2>1. UNCHANGED <<frame, block_size, consume_input, coef, has_multiple_scans, input_iMCU_row>>
    BY <1>4 DEF inputVars, seen, setup, pass
  <2>2. total_iMCU_rows' = total_iMCU_rows
    BY <2>1, SizesStay
  <2> QED
    BY <1>4, <2>1, <2>2 DEF OnePass, Cranking
<1>5. ASSUME inheaders' = 0, post'.mode = post.mode,
             call' = "jpeg_read_scanlines" => output_scanline' = output_scanline /\ output_height' = output_height
      PROVE  Modes'
  BY <1>2, <1>5 DEF Modes, Started
<1>6. CASE post.mode = "JBUF_CRANK_DEST"
  <2>1. /\ ret = "LINES" /\ post_process_2pass(n) /\ UNCHANGED inputVars /\ UNCHANGED output_iMCU_row
        /\ n \in Nat \ {0} /\ Cranking
    BY <1>6 DEF ProcessData, Upsampling
  <2>2. UNCHANGED <<frame, block_size>> /\ inheaders' = 0
    BY <1>1, <2>1 DEF inputVars, seen, setup, scans
  <2>3. InStrips /\ Ordered(whole_image, output_height) /\ Len(lines) = output_scanline
        /\ (max_v_samp_factor <= 2 => InOrder)
    BY <2>1 DEF LineInv
  <2>4. /\ Buffers' /\ post'.mode = post.mode /\ InStrips' /\ Ordered(whole_image', output_height')
        /\ Len(lines') = output_scanline'
        /\ max_v_samp_factor' <= 2 => InOrder' /\ output_scanline' <= output_height'
    BY <1>2, <2>1, <2>2, <2>3, CrankingStep
  <2>5. Modes'
    BY <1>5, <2>1, <2>2, <2>4
  <2>6. ~ Upsampling' /\ ~ Raw'
    BY <1>1, <1>6, <2>4 DEF Upsampling, Raw
  <2> QED
    BY <1>4, <2>1, <2>4, <2>5, <2>6 DEF LineInv
<1>7. CASE post.mode # "JBUF_CRANK_DEST"
  <2>1. Upsampling /\ LinesCounted
    BY <1>7 DEF Cranking, LineInv
  <2>2. output_scanline \in Nat
    BY <1>2, <1>3, <2>1, LinesAreCounted
  <2>3. IF post.mode = "JBUF_PASS_THRU" THEN InOrder
        ELSE lines = <<>> /\ InStrips /\ Ordered(whole_image, output_scanline)
    BY <2>1 DEF LineInv
  <2>4. ASSUME post'.mode = post.mode PROVE ~ Cranking' /\ ~ Raw'
    BY <1>1, <1>7, <2>4 DEF Cranking, Raw
  <2>5. CASE main.buffer_full
    <3>1. /\ ret = "LINES" /\ UNCHANGED inputVars /\ UNCHANGED output_iMCU_row
          /\ IF post.mode = "JBUF_SAVE_AND_PASS" THEN post_process_prepass ELSE post_process_1pass(n)
      BY <1>7, <2>5 DEF ProcessData
    <3>2. UNCHANGED <<frame, block_size>> /\ inheaders' = 0
      BY <1>1, <3>1 DEF inputVars, seen, setup, scans
    <3>3. CASE post.mode = "JBUF_SAVE_AND_PASS"
      <4>1. InStrips /\ Ordered(whole_image, output_scanline) /\ lines = <<>> /\ post_process_prepass
        BY <2>3, <3>1, <3>3
      <4>2. /\ Buffers' /\ LinesCounted' /\ post'.mode = post.mode
            /\ InStrips' /\ Ordered(whole_image', output_scanline') /\ lines' = lines
        BY <1>2, <2>1, <2>2, <2>5, <3>1, <3>2, <4>1, StoringStep
      <4>3. Modes'
        BY <1>5, <3>1, <3>2, <4>2
      <4> QED
        BY <1>4, <2>4, <3>1, <3>3, <4>1, <4>2, <4>3 DEF LineInv
    <3>4. CASE post.mode # "JBUF_SAVE_AND_PASS"
      <4>1. post.mode = "JBUF_PASS_THRU"
        BY <1>2, <1>7, <3>4 DEF Buffers
      <4>2. post_process_1pass(n) /\ n \in Nat \ {0} /\ InOrder
        BY <2>3, <3>1, <3>4, <4>1
      <4>3. Buffers' /\ LinesCounted' /\ post' = post /\ InOrder'
        BY <1>2, <2>1, <2>2, <2>5, <3>1, <3>2, <4>2, PassingStep
      <4>4. Modes'
        BY <1>5, <3>1, <3>2, <4>3
      <4> QED
        BY <1>4, <2>4, <3>1, <4>1, <4>3, <4>4 DEF LineInv
    <3> QED
      BY <3>3, <3>4
  <2>6. CASE ~ main.buffer_full
    <3>1. PICK r \in Retcodes :
            /\ DecompressData(r)
            /\ main' = (IF r = "ROW_COMPLETED" THEN [main EXCEPT !.buffer_full = TRUE, !.iMCU_row = output_iMCU_row]
                        ELSE main)
            /\ UNCHANGED <<upsample, post, whole_image, lines, output_scanline>>
      BY <1>7, <2>6 DEF ProcessData
    <3>2. /\ UNCHANGED <<frame, block_size>> /\ inheaders' = 0
          /\ output_iMCU_row' = (IF r = "ROW_COMPLETED" THEN output_iMCU_row + 1 ELSE output_iMCU_row)
          /\ OnePass'
      BY <1>1, <3>1, RowHandedOut
    <3>3. LinesCounted' /\ main' \in MainStates
      BY <1>2, <1>3, <2>1, <2>6, <3>1, <3>2, RowBuffered
    <3>4. Buffers'
      BY <1>2, <3>1, <3>3 DEF Buffers, MainStates
    <3>5. Modes'
      BY <1>5, <3>1, <3>2, HeightsStay
    <3>6. strip_height' = strip_height
      BY <3>2, HeightsStay
    <3> QED
      BY <2>3, <2>4, <3>1, <3>2, <3>3, <3>4, <3>5, <3>6 DEF LineInv, InOrder, InStrips, Ordered
  <2> QED
    BY <2>5, <2>6
<1> QED
  BY <1>6, <1>7

\* Raw data goes out an iMCU row at a time.
LEMMA LinesByRawData ==
  ASSUME InputInv, Phases, setting \in Parameters, LineInv, OnePass, ReadRawData
  PROVE  LineInv' /\ OnePass'
<1>1. PICK ret \in Retcodes :
        /\ DecompressData(ret)
        /\ IF ret = "ROW_COMPLETED" THEN Emit(Run(output_iMCU_row * lines_per_iMCU_row, lines_per_iMCU_row))
           ELSE UNCHANGED <<lines, output_scanline>>
  BY DEF ReadRawData
<1>2. /\ call' \in {"jpeg_read_raw_data", NoCall}
      /\ UNCHANGED <<setting, decompress_data, main, upsample, post, whole_image, global_state, is_dummy_pass>>
  BY DEF ReadRawData, Return, master
<1>3. Raw /\ global_state = "RAW_OK" /\ inheaders = 0 /\ Modes /\ Buffers
  BY DEF ReadRawData, Phases, LineInv, Modes, Started, Raw
<1>4. Sized /\ output_iMCU_row \in Nat
  BY <1>3 DEF InputInv, Headers, Sized, Phases
<1>5. /\ UNCHANGED <<frame, block_size>> /\ inheaders' = 0
      /\ output_iMCU_row' = (IF ret = "ROW_COMPLETED" THEN output_iMCU_row + 1 ELSE output_iMCU_row)
      /\ OnePass'
  BY <1>1, <1>2, <1>3, RowHandedOut
<1>6. lines_per_iMCU_row \in Nat /\ lines_per_iMCU_row' = lines_per_iMCU_row
  <2>1. max_v_samp_factor \in Nat /\ min_DCT_scaled_size \in Nat
        /\ lines_per_iMCU_row = max_v_samp_factor * min_DCT_scaled_size
    BY <1>4, Heights
  <2>2. lines_per_iMCU_row \in Nat
    BY <2>1
  <2> QED
    BY <1>2, <1>5, <2>2, HeightsStay
<1>7. output_scanline = output_iMCU_row * lines_per_iMCU_row /\ lines \in Seq(Int)
      /\ Len(lines) = output_scanline /\ Ordered(lines, output_scanline)
  BY <1>3 DEF LineInv, InOrder, Buffers
<1> DEFINE k == output_iMCU_row * lines_per_iMCU_row
           L == lines_per_iMCU_row
           l == lines \o Run(k, L)
<1>8. k \in Nat /\ (output_iMCU_row + 1) * L = k + L
  BY <1>4, <1>6
<1>9. l \in Seq(Int) /\ Len(l) = k + L /\ Ordered(l, k + L)
  <2> HIDE DEF k, L
  <2> QED
    BY <1>6, <1>7, <1>8, OrderedGrows DEF k, L
<1>10. Modes'
  BY <1>2, <1>3, <1>5 DEF Modes, Started, NoCall
<1>11. ~ Upsampling' /\ ~ Cranking'
  BY <1>2, <1>3 DEF Upsampling, Cranking
<1>12. CASE ret = "ROW_COMPLETED"
  <2>1. Len(Run(k, L)) = L
    <3> HIDE DEF k, L
    <3>1. L \in Nat
      BY <1>6 DEF L
    <3> QED
      BY <1>8, <3>1, RunLength
  <2>2. lines' = l /\ output_scanline' = k + L
    BY <1>1, <1>7, <1>12, <2>1 DEF Emit
  <2>3. output_scanline' = output_iMCU_row' * lines_per_iMCU_row'
    BY <1>5, <1>6, <1>8, <1>12, <2>2
  <2> HIDE DEF l, k, L
  <2>4. InOrder'
    BY <1>9, <2>2 DEF InOrder, Ordered
  <2>5. Buffers'
    BY <1>2, <1>3, <1>9, <2>2 DEF Buffers
  <2> QED
    BY <1>5, <1>10, <1>11, <2>3, <2>4, <2>5 DEF LineInv
<1>13. CASE ret # "ROW_COMPLETED"
  <2>1. UNCHANGED <<lines, output_scanline, output_iMCU_row>>
    BY <1>1, <1>5, <1>13
  <2>2. Buffers' /\ InOrder'
    BY <1>2, <1>3, <2>1 DEF Buffers, LineInv, InOrder, Ordered
  <2> QED
    BY <1>5, <1>6, <1>7, <1>10, <1>11, <2>1, <2>2 DEF LineInv
<1> QED
  BY <1>12, <1>13

-----------------------------------------------------------------------------
(* The lines, step by step. *)

\* No line is made or given out by a step that leaves their buffers alone.
LEMMA LinesStay ==
  ASSUME Phases, LineInv,
         UNCHANGED <<setting, output_iMCU_row, main, upsample, post, whole_image, output_scanline, lines,
                     is_dummy_pass, global_state>>,
         Started => UNCHANGED <<frame, block_size>> /\ inheaders' = 0,
         \/ call' # "jpeg_read_scanlines"
         \/ UNCHANGED <<call, max_lines>>
         \/ max_lines' \in Nat \ {0} /\ global_state = "SCANNING" /\ output_scanline < output_height
  PROVE  LineInv'
<1>1. Modes'
  <2>1. call' = "jpeg_read_scanlines" =>
          max_lines' \in Nat \ {0} /\ global_state = "SCANNING" /\ output_scanline < output_height
    BY DEF Phases, LineInv, Modes
  <2>2. Started => output_height' = output_height
    BY HeightsStay
  <2>3. global_state = "SCANNING" => Started
    BY DEF Started
  <2> QED
    BY <2>1, <2>2, <2>3 DEF LineInv, Modes, Started
<1>2. Buffers'
  BY DEF LineInv, Buffers
<1>3. /\ Upsampling' <=> Upsampling
      /\ Cranking' <=> Cranking
      /\ Raw' <=> Raw
  BY DEF Upsampling, Cranking, Raw
<1>4. InOrder' <=> InOrder
  BY DEF InOrder, Ordered
<1>5. \A n : Ordered(whole_image, n)' <=> Ordered(whole_image, n)
  BY DEF Ordered
<1>6. CASE ~ Started
  BY <1>1, <1>2, <1>3, <1>6 DEF LineInv, Upsampling, Cranking, Raw, Started
<1>7. CASE Started
  <2>1. /\ max_v_samp_factor' = max_v_samp_factor /\ min_DCT_scaled_size' = min_DCT_scaled_size
        /\ lines_per_iMCU_row' = lines_per_iMCU_row /\ output_height' = output_height
        /\ strip_height' = strip_height /\ (use_merged_upsample' <=> use_merged_upsample)
    BY <1>7, HeightsStay
  <2>2. RowGroupLine' = RowGroupLine /\ LinesOfGroup' = LinesOfGroup
    BY <2>1 DEF RowGroupLine, LinesOfGroup
  <2>3. LinesCounted' <=> LinesCounted
    BY <2>1, <2>2 DEF LinesCounted, NextLine, Grouped
  <2>4. InStrips' <=> InStrips
    BY <2>1 DEF InStrips
  <2>5. Upsampling => (IF post.mode = "JBUF_PASS_THRU" THEN InOrder
                       ELSE lines = <<>> /\ InStrips /\ Ordered(whole_image, output_scanline))'
    BY <1>4, <2>4 DEF LineInv, Ordered
  <2>6. Cranking => /\ Ordered(whole_image, output_height)'
                    /\ (Len(lines) = output_scanline)' /\ InStrips'
                    /\ max_v_samp_factor' <= 2 => InOrder' /\ output_scanline' <= output_height'
    BY <1>4, <2>1, <2>4 DEF LineInv, Ordered
  <2>7. Raw => output_scanline' = output_iMCU_row' * lines_per_iMCU_row' /\ InOrder'
    BY <1>4, <2>1 DEF LineInv
  <2> QED
    BY <1>1, <1>2, <1>3, <2>3, <2>5, <2>6, <2>7 DEF LineInv
<1> QED
  BY <1>6, <1>7

\* Nor is any wanted outside of a pass.
LEMMA LinesOver ==
  ASSUME LineInv, UNCHANGED <<main, upsample, post, whole_image, lines>>,
         global_state' \notin {"PRESCAN", "SCANNING", "RAW_OK"}, call' # "jpeg_read_scanlines",
         Started' => inheaders' = 0 /\ ~ (setting'.quantize_colors /\ setting'.raw_data_out)
  PROVE  LineInv'
<1>1. Buffers'
  BY DEF LineInv, Buffers
<1>2. Modes'
  BY DEF Modes
<1>3. ~ Upsampling' /\ ~ Cranking' /\ ~ Raw'
  BY DEF Upsampling, Cranking, Raw
<1> QED
  BY <1>1, <1>2, <1>3 DEF LineInv

\* A step inside a call that reads input and nothing else.
LEMMA LinesByReading ==
  ASSUME InputInv, Phases, LineInv, OnePass, NEW ret, ConsumeInput(ret),
         UNCHANGED <<output_iMCU_row, decompress_data, main, upsample, post, whole_image, output_scanline, lines,
                     is_dummy_pass>>,
         call' # "jpeg_read_scanlines",
         \/ UNCHANGED <<global_state, setting>>
         \/ global_state' = "READY" /\ ret = "REACHED_SOS"
  PROVE  LineInv' /\ OnePass'
<1>1. /\ inheaders = 0 => UNCHANGED <<frame, block_size>> /\ inheaders' = 0
      /\ consume_input' = "dummy_consume_data" =>
           ret = "SUSPENDED" /\ consume_input = "dummy_consume_data" /\ UNCHANGED inputVars
  BY ReadingOn
<1>2. CASE UNCHANGED <<global_state, setting>>
  <2>1. Started => inheaders = 0
    BY DEF LineInv, Modes
  <2>2. LineInv'
    BY <1>1, <1>2, <2>1, LinesStay
  <2>3. OnePass'
    BY <1>1, <1>2, InStepStays DEF inputVars, seen, setup, pass
  <2> QED
    BY <2>2, <2>3
<1>3. CASE global_state' = "READY" /\ ret = "REACHED_SOS"
  <2>1. LineInv'
    BY <1>3, LinesOver DEF Started
  <2> QED
    BY <1>1, <1>3, <2>1 DEF OnePass
<1> QED
  BY <1>2, <1>3

\* A step that only goes on with a call, or returns.
LEMMA LinesLeftAlone ==
  ASSUME InputInv, Phases, LineInv, OnePass,
         UNCHANGED <<frame, block_size, inheaders, consume_input, coef, has_multiple_scans, input_iMCU_row>>,
         UNCHANGED <<setting, decompress_data, output_iMCU_row, main, upsample, post, whole_image, output_scanline,
                     lines, is_dummy_pass, global_state>>,
         \/ call' # "jpeg_read_scanlines"
         \/ UNCHANGED <<call, max_lines>>
         \/ max_lines' \in Nat \ {0} /\ global_state = "SCANNING" /\ output_scanline < output_height
  PROVE  LineInv' /\ OnePass'
<1>1. Started => inheaders' = 0
  BY DEF LineInv, Modes
<1> QED
  BY <1>1, LinesStay, InStepStays

\* An error leaves everything alone.
LEMMA LinesByError ==
  ASSUME InputInv, Phases, LineInv, OnePass, NEW e, ErrorExit(e)
  PROVE  LineInv' /\ OnePass'
<1>1. /\ UNCHANGED <<frame, block_size, inheaders, consume_input, coef, has_multiple_scans, input_iMCU_row>>
      /\ UNCHANGED <<setting, decompress_data, output_iMCU_row, main, upsample, post, whole_image, output_scanline,
                     lines, is_dummy_pass, global_state>>
      /\ call' = NoCall
  BY DEF ErrorExit, Return, seen, setup, scans, pass, outputVars, master
<1> QED
  BY <1>1, LinesLeftAlone DEF NoCall

\* The pass is over, or there is none yet: there is no row left that only output could read.
LEMMA LinesByEnd ==
  ASSUME LineInv, UNCHANGED <<inputVars, main, upsample, post, whole_image, lines>>,
         consume_input # "dummy_consume_data",
         global_state' \notin {"PRESCAN", "SCANNING", "RAW_OK"}, call' # "jpeg_read_scanlines",
         Started' => Started /\ UNCHANGED setting
  PROVE  LineInv' /\ OnePass'
<1>1. UNCHANGED <<inheaders, consume_input>>
  BY DEF inputVars, scans, pass
<1>2. Started' => inheaders' = 0 /\ ~ (setting'.quantize_colors /\ setting'.raw_data_out)
  BY <1>1 DEF LineInv, Modes
<1> QED
  BY <1>1, <1>2, LinesOver DEF OnePass

\* Upsampling is merged for components of at most two rows of samples.
LEMMA MergedRows ==
  ASSUME Sized, use_merged_upsample
  PROVE  max_v_samp_factor <= 2
<1> DEFINE F == {frame.comps[c].v : c \in Comps}
<1>1. Comps = {1, 2, 3}
  <2>1. Len(frame.comps) = 3 /\ frame.comps \in Seq(ComponentParameters)
    BY DEF Sized, use_merged_upsample
  <2>2. Comps = 1..3
    BY <2>1 DEF Comps
  <2> QED
    BY <2>2
<1>2. \A c \in Comps : frame.comps[c].v \in 1..4 /\ frame.comps[c].v <= 2
  <2>1. \A c \in Comps : frame.comps[c].v \in 1..4
    BY Dimensions
  <2>2. frame.comps[1].v <= 2 /\ frame.comps[2].v = 1 /\ frame.comps[3].v = 1
    BY DEF use_merged_upsample
  <2> QED
    BY <1>1, <2>1, <2>2
<1>3. F \in SUBSET (1..4) /\ F # {}
  BY <1>1, <1>2
<1>4. Largest(F) \in F
  BY <1>3, LargestFactor
<1> QED
  BY <1>2, <1>4 DEF max_v_samp_factor

\* A pass begins at the top of the picture.
LEMMA LinesAtTheTop ==
  ASSUME InputInv, Phases, PassInv, LineInv, OnePass,
         call = "output_pass_setup", global_state # "PRESCAN", PreparePass,
         output_scanline' = 0, lines' = <<>>, global_state' = "PRESCAN", UNCHANGED call
  PROVE  LineInv' /\ OnePass'
<1>1. global_state \in {"PRELOAD", "BUFIMAGE"}
  BY DEF PassInv, PassOrder
<1>2. inheaders = 0 /\ ~ (setting.quantize_colors /\ setting.raw_data_out)
  BY <1>1 DEF LineInv, Modes, Started
<1>3. Sized /\ setting \in Parameters /\ Buffers
  BY <1>2 DEF InputInv, Headers, Sized, PassInv, LineInv
<1>4. /\ UNCHANGED <<frame, block_size, inheaders, consume_input, coef, has_multiple_scans, input_iMCU_row>>
      /\ UNCHANGED <<setting, whole_image>>
      /\ output_iMCU_row' = 0
      /\ coef = <<>> => decompress_data' = "decompress_onepass"
      /\ is_dummy_pass' => setting.quantize_colors
  BY DEF PreparePass, start_output_pass, NewQuantizer, inputVars, seen, setup, scans, pass
<1>5. /\ output_height' = output_height /\ max_v_samp_factor' = max_v_samp_factor
      /\ min_DCT_scaled_size' = min_DCT_scaled_size /\ (use_merged_upsample' <=> use_merged_upsample)
      /\ lines_per_iMCU_row' = lines_per_iMCU_row /\ strip_height' = strip_height
      /\ total_iMCU_rows' = total_iMCU_rows
      /\ output_height \in Nat /\ max_v_samp_factor \in Nat \ {0} /\ min_DCT_scaled_size \in Nat \ {0}
      /\ lines_per_iMCU_row = max_v_samp_factor * min_DCT_scaled_size
  BY <1>3, <1>4, Heights, HeightsStay
<1>6. output_iMCU_row' * lines_per_iMCU_row' = 0
  <2>1. lines_per_iMCU_row \in Int
    BY <1>5
  <2> QED
    BY <1>4, <1>5, <2>1
<1>7. Ordered(lines', 0) /\ Ordered(whole_image, 0) /\ Len(lines') = 0 /\ lines' \in Seq(Int)
  BY <1>3 DEF Ordered, Buffers
<1>8. InOrder'
  BY <1>7 DEF InOrder, Ordered
<1>9. /\ ~ Cranking' /\ Buffers' /\ Modes'
      /\ Upsampling' =>
           /\ main' = [buffer_full |-> FALSE, rowgroup_ctr |-> 0, iMCU_row |-> 0]
           /\ upsample' = [rows_to_go |-> output_height, next_row_out |-> max_v_samp_factor, color_buf |-> 0,
                           spare_full |-> FALSE, spare_row |-> 0]
           /\ post'.next_row = 0 /\ post'.starting_row = 0
  <2>1. CASE setting.raw_data_out
    <3>1. UNCHANGED <<main, upsample, post>> /\ ~ is_dummy_pass'
      BY <1>2, <1>4, <2>1 DEF PreparePass
    <3> QED
      BY <1>2, <1>3, <1>4, <1>7, <2>1, <3>1 DEF Buffers, Modes, Cranking, Upsampling, Started
  <2>2. CASE ~ setting.raw_data_out
    <3>1. /\ main' = [buffer_full |-> FALSE, rowgroup_ctr |-> 0, iMCU_row |-> 0]
          /\ upsample' = [rows_to_go |-> output_height, next_row_out |-> max_v_samp_factor, color_buf |-> 0,
                          spare_full |-> FALSE, spare_row |-> 0]
          /\ post' = [starting_row |-> 0, next_row |-> 0,
                      mode |-> IF is_dummy_pass' THEN "JBUF_SAVE_AND_PASS" ELSE "JBUF_PASS_THRU"]
      BY <2>2 DEF PreparePass, start_pass_upsample, start_pass_dpost, start_pass_main
    <3>2. main' \in MainStates /\ upsample' \in UpsampleStates /\ post' \in PostStates
      BY <1>5, <3>1 DEF MainStates, UpsampleStates, PostStates
    <3>3. Buffers'
      BY <1>3, <1>4, <1>7, <3>2 DEF Buffers, MainStates, UpsampleStates, PostStates
    <3>4. post'.next_row = 0 /\ post'.starting_row = 0
          /\ post'.mode = (IF is_dummy_pass' THEN "JBUF_SAVE_AND_PASS" ELSE "JBUF_PASS_THRU")
      BY <3>1
    <3>5. Modes' /\ ~ Cranking'
      BY <1>2, <1>4, <2>2, <3>4 DEF Modes, Cranking, Started
    <3> QED
      BY <3>1, <3>3, <3>4, <3>5
  <2> QED
    BY <2>1, <2>2
<1>10. ASSUME Upsampling' PROVE LinesCounted' /\ InStrips'
  <2>1. /\ main'.buffer_full = FALSE /\ main'.rowgroup_ctr = 0
        /\ upsample'.rows_to_go = output_height /\ upsample'.next_row_out = max_v_samp_factor
        /\ upsample'.spare_full = FALSE
        /\ post'.next_row = 0 /\ post'.starting_row = 0
    BY <1>9, <1>10
  <2>2. LinesOfGroup' = 0
    BY <1>5, <2>1 DEF LinesOfGroup
  <2>3. Grouped'
    <3>1. use_merged_upsample => max_v_samp_factor <= 2
      BY <1>3, MergedRows
    <3> QED
      BY <1>5, <2>1, <2>2, <3>1 DEF Grouped
  <2>4. LinesCounted'
    BY <1>5, <1>6, <2>1, <2>3 DEF LinesCounted, NextLine
  <2>5. InStrips'
    BY <1>5, <2>1 DEF InStrips, strip_height
  <2> QED
    BY <2>4, <2>5
<1>11. LineInv'
  <2>1. Ordered(whole_image', output_scanline')
    BY <1>4, <1>7
  <2>2. output_scanline' = output_iMCU_row' * lines_per_iMCU_row'
    BY <1>6
  <2> QED
    BY <1>7, <1>8, <1>9, <1>10, <2>1, <2>2 DEF LineInv
<1>12. OnePass'
  BY <1>1, <1>4, <1>5, <1>9 DEF OnePass
<1> QED
  BY <1>11, <1>12

\* All lines were stored: they are given out from the top.
LEMMA LinesByEndOfDummyPass ==
  ASSUME InputInv, Phases, PassInv, LineInv, OnePass, EndDummyPass
  PROVE  LineInv' /\ OnePass'
<1>1. /\ global_state = "PRESCAN" /\ is_dummy_pass /\ output_scanline >= output_height
      /\ post' = [starting_row |-> 0, next_row |-> 0, mode |-> "JBUF_CRANK_DEST"]
      /\ is_dummy_pass' = FALSE /\ output_scanline' = 0
      /\ UNCHANGED <<inputVars, setting, main, upsample, whole_image, lines, global_state, call>>
      /\ call = "output_pass_setup"
  BY DEF EndDummyPass, PrepareLastPass, start_pass_dpost, control
<1>2. inheaders = 0 /\ ~ setting.raw_data_out /\ post.mode = "JBUF_SAVE_AND_PASS" /\ Buffers
      /\ ~ (setting.quantize_colors /\ setting.raw_data_out)
  BY <1>1 DEF LineInv, Modes, Started
<1>3. Sized /\ setting \in Parameters /\ output_iMCU_row \in Nat
  BY <1>2 DEF InputInv, Headers, Sized, PassInv, Phases
<1>4. Upsampling
  BY <1>1, <1>2 DEF Upsampling
<1>5. UNCHANGED <<frame, block_size, inheaders, consume_input>>
  BY <1>1 DEF inputVars, seen, setup, scans, pass
<1>6. /\ output_height' = output_height /\ max_v_samp_factor' = max_v_samp_factor
      /\ strip_height' = strip_height /\ output_height \in Nat /\ strip_height \in Nat \ {0}
  BY <1>1, <1>3, <1>5, Heights, HeightsStay DEF strip_height
<1>7. output_scanline = output_height /\ lines = <<>> /\ Ordered(whole_image, output_height)
  <2>1. output_scanline <= output_height /\ lines = <<>> /\ Ordered(whole_image, output_scanline)
    BY <1>2, <1>4 DEF LineInv, LinesCounted
  <2>2. output_scanline \in Nat
    BY <1>2, <1>3, <1>4, LinesAreCounted DEF LineInv
  <2>3. output_scanline = output_height
    BY <1>1, <1>6, <2>1, <2>2
  <2> QED
    BY <2>1, <2>3
<1>8. consume_input # "dummy_consume_data"
  <2>1. ~ (output_scanline < output_height)
    BY <1>6, <1>7
  <2> QED
    BY <1>3, <1>4, <2>1, RowsLeft
<1>9. post'.next_row = 0 /\ post'.starting_row = 0 /\ post'.mode = "JBUF_CRANK_DEST" /\ post' \in PostStates
  BY <1>1 DEF PostStates
<1>10. Buffers'
  BY <1>1, <1>2, <1>9 DEF Buffers, PostStates
<1>11. Modes'
  BY <1>1, <1>2, <1>5, <1>9 DEF Modes, Started
<1>12. ~ Upsampling' /\ ~ Raw'
  BY <1>1, <1>2, <1>9 DEF Upsampling, Raw
<1>13. InStrips'
  BY <1>1, <1>6, <1>9 DEF InStrips
<1>14. InOrder' /\ Ordered(whole_image', output_height') /\ Len(lines') = output_scanline'
  BY <1>1, <1>6, <1>7 DEF InOrder, Ordered
<1>15. output_scanline' <= output_height'
  BY <1>1, <1>6
<1>16. LineInv'
  BY <1>10, <1>11, <1>12, <1>13, <1>14, <1>15 DEF LineInv
<1> QED
  BY <1>5, <1>8, <1>16 DEF OnePass

\* The steps inside a call.
LEMMA LinesByLibrary ==
  ASSUME InputInv, Phases, PassInv, LineInv, OnePass, LibraryStep(FALSE)
  PROVE  LineInv' /\ OnePass'
<1>1. setting \in Parameters
  BY DEF PassInv
<1>2. eoi_reached => consume_input = "consume_markers"
  BY DEF InputInv, Headers
<1>3. CASE ReadHeader \/ TakeInput
  <2>1. PICK ret \in Retcodes :
          /\ ConsumeInput(ret)
          /\ \/ UNCHANGED <<global_state, setting>>
             \/ global_state' = "READY" /\ ret = "REACHED_SOS"
    BY <1>3 DEF ReadHeader, TakeInput
  <2>2. /\ UNCHANGED <<output_iMCU_row, decompress_data, main, upsample, post, whole_image, output_scanline, lines,
                       is_dummy_pass>>
        /\ call' # "jpeg_read_scanlines"
    BY <1>3 DEF ReadHeader, TakeInput, Return, NoCall, master
  <2> QED
    BY <2>1, <2>2, LinesByReading
<1>4. CASE EndOfTables(FALSE)
  <2>1. /\ UNCHANGED <<inputVars, main, upsample, post, whole_image, lines>>
        /\ global_state' = "START" /\ call' = NoCall /\ eoi_reached
    BY <1>4 DEF EndOfTables, jpeg_abort, Return, outputVars
  <2> QED
    BY <1>2, <2>1, LinesByEnd DEF NoCall, Started
<1>5. CASE AbsorbScans
  <2>1. PICK ret \in Retcodes : ConsumeInput(ret) /\ call' \in {NoCall, "absorbed", "jpeg_start_decompress"}
    BY <1>5 DEF AbsorbScans
  <2>2. UNCHANGED <<output_iMCU_row, decompress_data, main, upsample, post, whole_image, output_scanline, lines,
                    is_dummy_pass, global_state, setting>>
    BY <1>5 DEF AbsorbScans, outputVars, master
  <2> QED
    BY <2>1, <2>2, LinesByReading DEF NoCall
<1>6. CASE Absorbed
  <2>1. /\ UNCHANGED <<frame, block_size, inheaders, consume_input, coef, has_multiple_scans, input_iMCU_row>>
        /\ UNCHANGED <<setting, decompress_data, output_iMCU_row, main, upsample, post, whole_image, output_scanline,
                       lines, is_dummy_pass, global_state>>
        /\ call' = "output_pass_setup"
    BY <1>6 DEF Absorbed, Enter, seen, setup, scans, pass, outputVars, master
  <2> QED
    BY <2>1, LinesLeftAlone
<1>7. CASE SetUpPass
  BY <1>7, LinesByError, LinesAtTheTop DEF SetUpPass
<1>8. CASE DummyPass
  <2>1. PICK ret : ProcessData(ret, 0)
    BY <1>8 DEF DummyPass
  <2>2. /\ global_state = "PRESCAN" /\ is_dummy_pass /\ output_scanline < output_height
        /\ UNCHANGED <<setting, decompress_data, global_state, is_dummy_pass>>
        /\ call' \in {"output_pass_setup", NoCall}
    BY <1>8 DEF DummyPass, Return, master
  <2>3. Upsampling /\ post.mode = "JBUF_SAVE_AND_PASS"
    BY <2>2 DEF LineInv, Modes, Upsampling
  <2> QED
    BY <1>1, <2>1, <2>2, <2>3, LinesByProcess DEF NoCall
<1>9. CASE EndDummyPass
  BY <1>9, LinesByEndOfDummyPass
<1>10. CASE OutputReady
  <2>1. /\ global_state = "PRESCAN" /\ ~ is_dummy_pass
        /\ global_state' = (IF setting.raw_data_out THEN "RAW_OK" ELSE "SCANNING")
        /\ call' = NoCall
        /\ UNCHANGED <<inputVars, setting, decompress_data, output_iMCU_row, main, upsample, post, whole_image,
                       output_scanline, lines, is_dummy_pass>>
    BY <1>10 DEF OutputReady, Return, outputVars, master
  <2>2. UNCHANGED <<frame, block_size, inheaders, consume_input, coef, has_multiple_scans, input_iMCU_row>>
    BY <2>1 DEF inputVars, seen, setup, scans, pass
  <2>3. /\ Upsampling' <=> Upsampling
        /\ Cranking' <=> Cranking
        /\ Raw' <=> Raw
    BY <2>1 DEF Upsampling, Cranking, Raw
  <2>4. Modes'
    BY <2>1, <2>2 DEF LineInv, Modes, Started, NoCall
  <2>5. Buffers'
    BY <2>1 DEF LineInv, Buffers
  <2>6. /\ max_v_samp_factor' = max_v_samp_factor /\ min_DCT_scaled_size' = min_DCT_scaled_size
        /\ lines_per_iMCU_row' = lines_per_iMCU_row /\ output_height' = output_height
        /\ strip_height' = strip_height /\ (use_merged_upsample' <=> use_merged_upsample)
        /\ total_iMCU_rows' = total_iMCU_rows
    BY <2>1, <2>2, HeightsStay
  <2>7. RowGroupLine' = RowGroupLine /\ LinesOfGroup' = LinesOfGroup
    BY <2>1, <2>6 DEF RowGroupLine, LinesOfGroup
  <2>8. LinesCounted' <=> LinesCounted
    BY <2>1, <2>6, <2>7 DEF LinesCounted, NextLine, Grouped
  <2>9. (InStrips' <=> InStrips) /\ (InOrder' <=> InOrder)
    BY <2>1, <2>6 DEF InStrips, InOrder, Ordered
  <2>10. \A n : Ordered(whole_image, n)' <=> Ordered(whole_image, n)
    BY <2>1 DEF Ordered
  <2>11. LineInv'
    BY <2>1, <2>3, <2>4, <2>5, <2>6, <2>8, <2>9 DEF LineInv, Ordered
  <2>12. OnePass'
    BY <2>1, <2>2, <2>3, <2>6 DEF OnePass
  <2> QED
    BY <2>11, <2>12
<1>11. CASE ReadScanlines
  <2>1. PICK ret : /\ ProcessData(ret, max_lines)
                   /\ IF ret = "CONTINUE" THEN UNCHANGED <<call, max_lines>> ELSE call' = NoCall
    BY <1>11 DEF ReadScanlines, Return
  <2>2. /\ call = "jpeg_read_scanlines" /\ global_state = "SCANNING"
        /\ UNCHANGED <<setting, decompress_data, global_state, is_dummy_pass>>
    BY <1>11 DEF ReadScanlines, Phases, master
  <2>3. /\ max_lines \in Nat \ {0} /\ output_scanline < output_height
        /\ Upsampling \/ Cranking
    BY <2>2 DEF LineInv, Modes, Upsampling, Cranking
  <2> QED
    BY <1>1, <2>1, <2>2, <2>3, LinesByProcess DEF NoCall
<1>12. CASE ReadRawData
  BY <1>1, <1>12, LinesByRawData
<1>13. CASE FinishOutput \/ FinishDecompress
  <2>1. /\ UNCHANGED <<output_iMCU_row, decompress_data, main, upsample, post, whole_image, output_scanline, lines,
                       is_dummy_pass, setting>>
        /\ call' # "jpeg_read_scanlines"
    BY <1>13 DEF FinishOutput, FinishDecompress, Return, NoCall, outputVars, master
  <2>2. CASE UNCHANGED global_state /\ \E ret \in Retcodes : ConsumeInput(ret)
    BY <2>1, <2>2, LinesByReading
  <2>3. CASE FinishOutput /\ global_state' = "BUFIMAGE" /\ UNCHANGED inputVars
    <3>1. global_state = "BUFPOST"
      BY <2>3 DEF FinishOutput, PassInv, PassOrder
    <3>2. consume_input # "dummy_consume_data" /\ Started
      BY <3>1 DEF OnePass, Started
    <3> QED
      BY <2>1, <2>3, <3>2, LinesByEnd
  <2>4. CASE FinishDecompress /\ eoi_reached /\ global_state' = "START" /\ UNCHANGED inputVars
    BY <1>2, <2>1, <2>4, LinesByEnd DEF Started
  <2> QED
    BY <1>13, <2>2, <2>3, <2>4 DEF FinishOutput, FinishDecompress, jpeg_abort
<1> QED
  BY <1>3, <1>4, <1>5, <1>6, <1>7, <1>8, <1>9, <1>10, <1>11, <1>12, <1>13 DEF LibraryStep

\* A new datastream is read by its markers.
LEMMA LinesByStart ==
  ASSUME LineInv, NEW fn \in {"jpeg_read_header", "jpeg_consume_input"}, StartHeader(fn)
  PROVE  LineInv' /\ OnePass'
<1>1. /\ UNCHANGED <<main, upsample, post, whole_image, lines>>
      /\ global_state' = "INHEADER" /\ call' = fn /\ consume_input' = "consume_markers"
  BY DEF StartHeader, reset_input_controller, Enter, outputVars
<1> QED
  BY <1>1, LinesOver DEF OnePass, Started

\* The first scan is decoded by output when there is no other.
LEMMA LinesBySelection ==
  ASSUME InputInv, Phases, PassInv, LineInv, global_state = "READY", MasterError = NoError, master_selection,
         \/ setting.buffered_image /\ global_state' = "BUFIMAGE" /\ call' = NoCall
         \/ ~ setting.buffered_image /\ global_state' = "PRELOAD" /\ call' = "jpeg_start_decompress"
  PROVE  LineInv' /\ OnePass'
<1>1. /\ inheaders = 0 /\ inheaders' = 0
      /\ UNCHANGED <<frame, block_size, has_multiple_scans, setting, main, upsample, post, whole_image, lines>>
      /\ input_iMCU_row' = 0
      /\ consume_input' = (IF use_c_buffer THEN "consume_data" ELSE "dummy_consume_data")
      /\ ~ use_c_buffer => coef' = <<>>
  BY DEF Phases, master_selection, start_input_pass, seen, scans
<1>2. ~ (setting.quantize_colors /\ setting.raw_data_out)
  BY DEF MasterError, NoError
<1>3. LineInv'
  BY <1>1, <1>2, LinesOver DEF NoCall
<1>4. 0 < total_iMCU_rows'
  <2>1. Sized
    BY <1>1 DEF InputInv, Headers, Sized
  <2>2. total_iMCU_rows \in Nat \ {0} /\ total_iMCU_rows' = total_iMCU_rows
    BY <1>1, <2>1, Dimensions, SizesStay
  <2> QED
    BY <2>2
<1>5. OnePass'
  BY <1>1, <1>4 DEF OnePass, use_c_buffer
<1> QED
  BY <1>3, <1>5

\* The calls of the application.
LEMMA LinesByApplication ==
  ASSUME InputInv, Phases, PassInv, LineInv, OnePass, Application
  PROVE  LineInv' /\ OnePass'
<1>1. CASE /\ UNCHANGED <<inputVars, outputVars, global_state, is_dummy_pass>>
           /\ call' # "jpeg_read_scanlines"
  <2>1. /\ UNCHANGED <<frame, block_size, inheaders, consume_input, coef, has_multiple_scans, input_iMCU_row>>
        /\ UNCHANGED <<setting, decompress_data, output_iMCU_row, main, upsample, post, whole_image, output_scanline,
                       lines, is_dummy_pass, global_state>>
    BY <1>1 DEF inputVars, seen, setup, scans, pass, outputVars
  <2> QED
    BY <1>1, <2>1, LinesLeftAlone
<1>2. CASE jpeg_read_header
  <2>1. CASE ResumeHeader("jpeg_read_header")
    BY <1>1, <2>1 DEF ResumeHeader, Enter, master
  <2> QED
    BY <1>2, <2>1, LinesByStart DEF jpeg_read_header
<1>3. CASE jpeg_consume_input
  <2>1. CASE ~ StartHeader("jpeg_consume_input")
    BY <1>1, <1>3, <2>1 DEF jpeg_consume_input, ResumeHeader, Enter, master
  <2> QED
    BY <1>3, <2>1, LinesByStart
<1>4. CASE AdjustParameters
  <2>1. /\ global_state = "READY" /\ global_state' = "READY" /\ call' = NoCall
        /\ UNCHANGED <<inputVars, main, upsample, post, whole_image, lines>>
    BY <1>4 DEF AdjustParameters, Idle, control
  <2>2. consume_input # "dummy_consume_data"
    BY <2>1 DEF OnePass
  <2> QED
    BY <2>1, <2>2, LinesByEnd DEF Started, NoCall
<1>5. CASE jpeg_start_decompress
  <2>1. CASE \E e : ErrorExit(e)
    BY <2>1, LinesByError
  <2>2. CASE global_state = "READY" /\ MasterError = NoError
    <3>1. /\ master_selection
          /\ \/ setting.buffered_image /\ global_state' = "BUFIMAGE" /\ call' = NoCall
             \/ ~ setting.buffered_image /\ global_state' = "PRELOAD" /\ call' = "jpeg_start_decompress"
      BY <1>5, <2>2 DEF jpeg_start_decompress, Enter, Return
    <3> QED
      BY <2>2, <3>1, LinesBySelection
  <2>3. CASE global_state # "READY"
    BY <1>1, <1>5, <2>3 DEF jpeg_start_decompress, Enter, master
  <2> QED
    BY <1>5, <2>1, <2>2, <2>3 DEF jpeg_start_decompress
<1>6. CASE \E n \in 0..(input_scan_number + 1) : jpeg_start_output(n)
  <2>1. /\ UNCHANGED <<frame, block_size, inheaders, consume_input, coef, has_multiple_scans, input_iMCU_row>>
        /\ UNCHANGED <<setting, decompress_data, output_iMCU_row, main, upsample, post, whole_image, output_scanline,
                       lines, is_dummy_pass, global_state>>
        /\ call' = "output_pass_setup"
    BY <1>6 DEF jpeg_start_output, Enter, seen, setup, scans, pass, master
  <2> QED
    BY <2>1, LinesLeftAlone
<1>7. CASE \E n \in 1..3 : jpeg_read_scanlines(n)
  <2>1. PICK n \in 1..3 : jpeg_read_scanlines(n)
    BY <1>7
  <2>2. /\ UNCHANGED <<frame, block_size, inheaders, consume_input, coef, has_multiple_scans, input_iMCU_row>>
        /\ UNCHANGED <<setting, decompress_data, output_iMCU_row, main, upsample, post, whole_image, output_scanline,
                       lines, is_dummy_pass, global_state>>
        /\ max_lines' = n /\ global_state = "SCANNING" /\ output_scanline < output_height
    BY <2>1 DEF jpeg_read_scanlines, inputVars, seen, setup, scans, pass, outputVars, master
  <2>3. n \in Nat \ {0}
    BY <2>1
  <2> QED
    BY <2>2, <2>3, LinesLeftAlone
<1>8. CASE jpeg_read_raw_data
  BY <1>1, <1>8 DEF jpeg_read_raw_data, Enter, master
<1>9. CASE jpeg_finish_output
  <2>1. /\ global_state \in {"SCANNING", "RAW_OK", "BUFPOST"}
        /\ setting.buffered_image \/ global_state = "BUFPOST"
        /\ global_state' = "BUFPOST" /\ call' = "jpeg_finish_output"
        /\ UNCHANGED <<inputVars, setting, main, upsample, post, whole_image, lines>>
    BY <1>9 DEF jpeg_finish_output, Enter, outputVars
  <2>2. consume_input # "dummy_consume_data" /\ Started
    BY <2>1 DEF OnePass, Started
  <2> QED
    BY <2>1, <2>2, LinesByEnd
<1>10. CASE ChangeQuantizer
  <2>1. /\ global_state = "BUFIMAGE" /\ global_state' = "BUFIMAGE" /\ call' = NoCall
        /\ setting' = [setting EXCEPT !.two_pass_quantize = ~ @]
        /\ UNCHANGED <<inputVars, main, upsample, post, whole_image, lines>>
    BY <1>10 DEF ChangeQuantizer, Idle, control
  <2>2. setting'.quantize_colors = setting.quantize_colors /\ setting'.raw_data_out = setting.raw_data_out
    BY <2>1 DEF PassInv, Parameters
  <2>3. /\ UNCHANGED <<inheaders, consume_input>>
        /\ inheaders = 0 /\ ~ (setting.quantize_colors /\ setting.raw_data_out)
    BY <2>1 DEF inputVars, scans, pass, LineInv, Modes, Started
  <2>4. LineInv'
    BY <2>1, <2>2, <2>3, LinesOver DEF NoCall
  <2> QED
    BY <2>1, <2>3, <2>4 DEF OnePass
<1>11. CASE jpeg_finish_decompress
  <2>1. CASE \E e : ErrorExit(e)
    BY <2>1, LinesByError
  <2>2. CASE ~ \E e : ErrorExit(e)
    <3>1. /\ \/ /\ global_state \in {"SCANNING", "RAW_OK"} /\ ~ setting.buffered_image
                /\ ~ (output_scanline < output_height)
             \/ global_state \in {"BUFIMAGE", "STOPPING"}
          /\ global_state' = "STOPPING" /\ call' = "jpeg_finish_decompress"
          /\ UNCHANGED <<inputVars, setting, main, upsample, post, whole_image, lines>>
      BY <1>11, <2>2 DEF jpeg_finish_decompress, Enter, outputVars
    <3>2. Started
      BY <3>1 DEF Started
    <3>3. consume_input # "dummy_consume_data"
      <4> SUFFICES ASSUME consume_input = "dummy_consume_data" PROVE FALSE
        OBVIOUS
      <4>1. global_state \in {"SCANNING", "RAW_OK"} /\ ~ (output_scanline < output_height) /\ ~ Cranking
        BY <3>1 DEF OnePass
      <4>2. Upsampling \/ Raw
        BY <4>1 DEF LineInv, Modes, Upsampling, Cranking, Raw
      <4>3. Sized /\ setting \in Parameters /\ output_iMCU_row \in Nat
        BY <3>2 DEF InputInv, Headers, Sized, PassInv, Phases, LineInv, Modes
      <4> QED
        BY <4>1, <4>2, <4>3, RowsLeft
    <3> QED
      BY <3>1, <3>2, <3>3, LinesByEnd
  <2> QED
    BY <2>1, <2>2
<1> QED
  BY <1>2, <1>3, <1>4, <1>5, <1>6, <1>7, <1>8, <1>9, <1>10, <1>11 DEF Application

\* What is known of the lines, and of the input they are made from.
PictureInv == InputInv /\ Phases /\ PassInv /\ LineInv /\ OnePass

\* A new object has no lines.
LEMMA InitialPicture == NewObject => PictureInv
<1> SUFFICES ASSUME NewObject PROVE PictureInv
  OBVIOUS
<1>1. InputInv /\ Phases /\ PassInv
  BY InitialInput, InitialPass
<1>2. /\ global_state = "START" /\ call = NoCall /\ consume_input = "consume_markers"
      /\ main = [buffer_full |-> FALSE, rowgroup_ctr |-> 0, iMCU_row |-> 0]
      /\ upsample = [rows_to_go |-> 0, next_row_out |-> 0, color_buf |-> 0, spare_full |-> FALSE, spare_row |-> 0]
      /\ post = [starting_row |-> 0, next_row |-> 0, mode |-> "JBUF_PASS_THRU"]
      /\ whole_image = <<>> /\ lines = <<>>
  BY DEF NewObject, DecompressInit, InputInit, OutputInit, NewUpsampler
<1>3. lines \in Seq(Int) /\ whole_image \in Seq(Int)
  BY <1>2
<1>4. Buffers
  BY <1>2, <1>3 DEF Buffers
<1>5. LineInv
  BY <1>2, <1>4 DEF LineInv, Modes, Started, Upsampling, Cranking, Raw, NoCall
<1> QED
  BY <1>1, <1>2, <1>5 DEF PictureInv, OnePass

\* The invariant is inductive.
LEMMA PictureStays ==
  ASSUME PictureInv, [Next]_decompressVars
  PROVE  PictureInv'
<1>1. InputInv' /\ Phases' /\ PassInv'
  BY PassInvStays DEF PictureInv
<1>2. LineInv' /\ OnePass'
  <2>1. CASE UNCHANGED decompressVars
    <3>1. /\ UNCHANGED <<frame, block_size, inheaders, consume_input, coef, has_multiple_scans, input_iMCU_row>>
          /\ UNCHANGED <<setting, decompress_data, output_iMCU_row, main, upsample, post, whole_image, output_scanline,
                         lines, is_dummy_pass, global_state>>
          /\ UNCHANGED <<call, max_lines>>
      BY <2>1 DEF decompressVars, inputVars, seen, setup, scans, pass, outputVars, control, master
    <3> QED
      BY <3>1, LinesLeftAlone DEF PictureInv
  <2> QED
    BY <2>1, LinesByLibrary, LinesByApplication DEF PictureInv, Next
<1> QED
  BY <1>1, <1>2 DEF PictureInv

\* When the last line was given out, no data is left that only output could read: for every data source, every
\* choice of parameters and every order of calls, jpeg_finish_decompress can read on to the end.
THEOREM CanFinish == Spec => []StoppingCanFinish
<1>1. PictureInv => StoppingCanFinish
  BY DEF PictureInv, OnePass, StoppingCanFinish
<1> QED
  BY <1>1, InitIsNew, InitialPicture, PictureStays, PTL DEF Spec

\* A stored picture that is given out from strips of three or four lines, the last of which may end after it.
TallStrips == Cranking /\ max_v_samp_factor > 2

\* The lines are those of the picture, each once and from the top, through every upsampler and postprocessor:
\* all but those of the second of two passes from strips of more than two lines.
THEOREM PictureInOrder == Spec => [](~ TallStrips => LinesInOrder)
<1>1. PictureInv => (~ TallStrips => LinesInOrder)
  <2> SUFFICES ASSUME PictureInv, ~ TallStrips, global_state \in {"SCANNING", "RAW_OK"}
               PROVE  /\ lines = [i \in 1..output_scanline |-> i - 1]
                      /\ setting.raw_data_out \/ output_scanline <= output_height
    BY DEF LinesInOrder
  <2>1. Sized /\ lines \in Seq(Int)
    <3>1. inheaders = 0 /\ lines \in Seq(Int)
      BY DEF PictureInv, LineInv, Modes, Started, Buffers
    <3> QED
      BY <3>1 DEF PictureInv, InputInv, Headers, Sized
  <2>2. InOrder /\ (setting.raw_data_out \/ output_scanline <= output_height)
    <3>1. Raw \/ Upsampling \/ Cranking
      BY DEF PictureInv, LineInv, Modes, Raw, Upsampling, Cranking
    <3>2. CASE Raw
      BY <3>2 DEF PictureInv, LineInv, Raw
    <3>3. CASE Upsampling
      BY <3>3 DEF PictureInv, LineInv, Modes, Upsampling, LinesCounted
    <3>4. CASE Cranking
      <4>1. max_v_samp_factor <= 2
        <5>1. max_v_samp_factor \in 1..4
          BY <2>1, Dimensions
        <5> QED
          BY <3>4, <5>1 DEF TallStrips
      <4> QED
        BY <3>4, <4>1 DEF PictureInv, LineInv
    <3> QED
      BY <3>1, <3>2, <3>3, <3>4
  <2>3. Len(lines) = output_scanline /\ \A i \in 1..output_scanline : lines[i] = i - 1
    BY <2>2 DEF InOrder, Ordered
  <2>4. DOMAIN lines = 1..output_scanline /\ lines = [i \in DOMAIN lines |-> lines[i]]
    BY <2>1, <2>3
  <2> QED
    BY <2>2, <2>3, <2>4
<1> QED
  BY <1>1, InitIsNew, InitialPicture, PictureStays, PTL DEF Spec
=============================================================================
