-------------------------- MODULE MCJpegAlgorithms --------------------------
(***************************************************************************)
(* The algorithms of libjpeg on small sets of inputs: case is the input    *)
(* chosen, and each property speaks of the inputs of one kind.  Beside     *)
(* them, with which they share no variable, the readers of MJPEG streams.  *)
(***************************************************************************)
EXTENDS JpegForwardDct, JpegHuffmanEncoder, JpegHuffmanDecoder, MCMjpegInputStream

\* The codec the properties are about: jfdctint.c and jidctint.c, the tables of statistics, and
\* a scan through jchuff.c and back through jdhuff.c.
CONSTANTS
  ForwardDct(_, _, _, _, _),
  InverseDct(_, _, _, _, _),
  OptimalTable(_),
  Encode(_, _),
  Decode(_, _, _, _, _)

VARIABLE case

ArithmeticEncoder == INSTANCE JpegArithmeticEncoder
ArithmeticDecoder == INSTANCE JpegArithmeticDecoder

-----------------------------------------------------------------------------
(* Inputs of the transforms: a DC and one more coefficient. *)

Sizes == {size \in (1..16) \X (1..16) : size[1] = size[2] \/ size[1] = 2 * size[2] \/ size[2] = 2 * size[1]}
Methods(size) == IF size = <<8, 8>> THEN {"JDCT_ISLOW", "JDCT_IFAST"} ELSE {"JDCT_ISLOW"}
Levels == {<<0, 7>>, <<-3, -5>>, <<7, 18>>}

quantval == Tabulate(64, LAMBDA k : 39 + (k % 3))
QuantTable == [k \in 0..63 |-> quantval[k + 1]]

CoefBlock(u, v, dc, ac) ==
  LET block == Tabulate(64, LAMBDA i : (IF i = 1 THEN dc ELSE 0) + IF i - 1 = 8 * v + u THEN ac ELSE 0)
  IN  [k \in 0..63 |-> block[k + 1]]

ChooseSize ==
  /\ case.kind = "idle"
  /\ \E size \in Sizes : case' = [kind |-> "size", w |-> size[1], h |-> size[2]]

ChooseCoefficient ==
  /\ case.kind = "size"
  /\ \E m \in Methods(<<case.w, case.h>>), u \in 0..7, v \in 0..7, level \in Levels :
       case' = [kind |-> "transform", w |-> case.w, h |-> case.h, dct_method |-> m,
                u |-> u, v |-> v, dc |-> level[1], ac |-> level[2]]

Coefficients == CoefBlock(case.u, case.v, case.dc, case.ac)
Samples == InverseDct(case.w, case.h, case.dct_method, Coefficients, QuantTable)
Kept == [k \in 0..63 |-> IF k % 8 < case.w /\ k \div 8 < case.h THEN Coefficients[k] ELSE 0]

-----------------------------------------------------------------------------
(* Inputs of the choice of a Huffman table: the counts of up to 30 symbols. *)

Fibonacci[n \in 1..30] == IF n <= 2 THEN 1 ELSE Fibonacci[n - 1] + Fibonacci[n - 2]

Counts == [{0, 1, 2, 17} -> {0, 1, 2, 5}]
            \cup {[s \in 0..(n - 1) |-> Fibonacci[n - s]] : n \in 5..30}
            \cup {[s \in 0..(n - 1) |-> 1 + (s % 3)] : n \in 5..30}

ChooseCounts ==
  /\ case.kind = "idle"
  /\ \E freq \in Counts : (\E s \in DOMAIN freq : freq[s] > 0) /\ case' = [kind |-> "counts", freq |-> freq]

-----------------------------------------------------------------------------
(* Inputs of the entropy coders: blocks, of which some are listed by their *)
(* nonzero coefficients.                                                   *)

Block(nonzero) ==
  [k \in 0..63 |-> IF \E c \in nonzero : c[1] = k THEN (CHOOSE c \in nonzero : c[1] = k)[2] ELSE 0]

Flat == Block({})
Blocks == {Block({<<0, 5>>, <<1, -3>>, <<8, 7>>, <<40, 7>>}),
           Block({<<0, -2>>, <<2, -1>>, <<63, 1>>}),
           Block({<<0, -5>>, <<1, 2>>, <<2, -3>>, <<3, 1>>, <<4, -1>>, <<22, 1>>, <<23, 2>>})}

\* What the decoder needs of a component: nothing, or blocks of h x v samples.
Needs == {[needed |-> TRUE, v |-> 8, h |-> 8], [needed |-> TRUE, v |-> 2, h |-> 1],
          [needed |-> FALSE, v |-> 8, h |-> 8]}

\* cut is where the source suspends, in percent of the data.
Cuts == {0, 25, 60, 85, 100}

ChooseImage ==
  /\ case.kind = "idle"
  /\ \E b1, b2 \in Blocks \cup {Flat}, interval \in 0..2 :
       case' = [kind |-> "image", b1 |-> b1, b2 |-> b2, restart_interval |-> interval]

\* Two MCUs of a block of each of two components, in blocks of n x n coefficients.
ChooseSequential ==
  /\ case.kind = "image" /\ case.restart_interval < 2
  /\ \E b3 \in Blocks, needs \in Needs, n \in {3, 8} :
       case' = [kind |-> "sequential", n |-> n, needs |-> needs, restart_interval |-> case.restart_interval,
                mcus |-> <<<<case.b1, b3>>, <<case.b2, case.b1>>>>]

\* Three blocks of one component.
ChooseProgressive ==
  /\ case.kind = "image"
  /\ \E b3 \in Blocks \cup {Flat} :
       case' = [kind |-> "progressive", restart_interval |-> case.restart_interval,
                mcus |-> <<<<case.b1>>, <<b3>>, <<case.b2>>>>]

ScanWith(restart_interval) ==
        [progressive |-> FALSE, Ss |-> 0, Se |-> 63, Ah |-> 0, Al |-> 0, lim_Se |-> 63,
         restart_interval |-> restart_interval, MCU_membership |-> <<1>>, tbl_no |-> <<1, 2>>,
         tables |-> <<>>, coef_limit |-> <<64>>]

SequentialScan ==
  [ScanWith(case.restart_interval) EXCEPT !.MCU_membership = <<1, 2>>, !.lim_Se = case.n * case.n - 1,
     !.coef_limit = <<case.n * case.n,
                      IF case.needs.needed THEN CoefLimit(case.n, case.needs.v, case.needs.h) ELSE 0>>]

\* DC and AC with one bit less, then the last bit of each.
Script ==
  LET progressive == [ScanWith(case.restart_interval) EXCEPT !.progressive = TRUE]
  IN  <<[progressive EXCEPT !.Se = 0, !.Al = 1], [progressive EXCEPT !.Ss = 1, !.Se = 5, !.Al = 1],
        [progressive EXCEPT !.Ss = 6, !.Al = 1], [progressive EXCEPT !.Ss = 1, !.Ah = 1],
        [progressive EXCEPT !.Se = 0, !.Ah = 1]>>

DecoderTables(htbls) ==
  [dc |-> Tabulate(2, LAMBDA n : jpeg_make_d_derived_tbl(htbls.dc[n])),
   ac |-> Tabulate(2, LAMBDA n : jpeg_make_d_derived_tbl(htbls.ac[n]))]

\* What the decoder makes of the bytes of a scan and the EOI after them, from the blocks before.
Decoded(scan, htbls, bytes, cut, mcus) ==
  LET data == bytes \o <<255, EOI>>
      withTables == [scan EXCEPT !.tables = DecoderTables(htbls)]
  IN  DecodeScan(start_pass_huff_decoder(withTables, data, 1, (Len(data) * cut) \div 100),
                 withTables, mcus, 1)

RECURSIVE DecodedScript(_, _, _, _)
DecodedScript(script, mcus, before, cut) ==
  IF script = <<>> THEN before
  ELSE LET encoded == Encode(Head(script), mcus)
       IN  DecodedScript(Tail(script), mcus,
                         Decode(Head(script), encoded.htbls, encoded.out, cut, before), cut)

\* The same of arithmetic coding: its decoder has no source that suspends.
ArithmeticBytes(scan, mcus) == ArithmeticEncoder!EncodeScan(scan, mcus)
ArithmeticDecoded(scan, bytes, before) ==
  LET data == bytes \o <<255, EOI>>
  IN  ArithmeticDecoder!DecodeScan(ArithmeticDecoder!start_pass(scan, data, 1, Len(data)), scan, before, 1)

RECURSIVE ArithmeticDecodedScript(_, _, _)
ArithmeticDecodedScript(script, mcus, before) ==
  IF script = <<>> THEN before
  ELSE ArithmeticDecodedScript(Tail(script), mcus,
         ArithmeticDecoded(Head(script), ArithmeticBytes(Head(script), mcus), before))

-----------------------------------------------------------------------------
(* Faults: between the encoder and the decoder some of the data of a scan  *)
(* of six restart intervals is lost, or comes twice.                       *)

FaultMcus == LET block(i) == CHOOSE b \in Blocks : b[0] = <<5, -2, -5>>[1 + (i % 3)]
             IN  Tabulate(6, LAMBDA i : <<block(i)>>)
FaultScan == ScanWith(1)
FaultHuffman == Encode(FaultScan, FaultMcus)

\* The pieces of the data: a marker, a stuffed byte or a byte.
Pieces(bytes) ==
  LET starts == {i \in 1..Len(bytes) : i = 1 \/ bytes[i - 1] /= 255}
  IN  Tabulate(Cardinality(starts), LAMBDA n :
        LET i == Ascending(starts)[n] IN SubSeq(bytes, i, IF bytes[i] = 255 THEN i + 1 ELSE i))
FaultPieces == [huffman |-> Pieces(FaultHuffman.out), arithmetic |-> Pieces(ArithmeticBytes(FaultScan, FaultMcus))]
IsMarker(piece) == Len(piece) = 2 /\ piece[2] /= 0

\* The interval a piece belongs to, to which its first marker brings the decoder.
MarkersIn(pieces, first, last) == Cardinality({q \in first..last : IsMarker(pieces[q])})
IntervalOf(pieces, p) == 1 + MarkersIn(pieces, 1, p)

\* What is lost or repeated: pieces first..last, with two markers at most; whole intervals repeat.
Faults(pieces) ==
  {fault \in [first : DOMAIN pieces, last : DOMAIN pieces, repeated : BOOLEAN] :
     /\ fault.first <= fault.last
     /\ MarkersIn(pieces, fault.first, fault.last) <= 2
     /\ fault.repeated => /\ IsMarker(pieces[fault.first])
                          /\ IF fault.last = Len(pieces) THEN TRUE ELSE IsMarker(pieces[fault.last + 1])}

ChooseFault ==
  /\ case.kind = "idle"
  /\ \E coding \in {"huffman", "arithmetic"} :
       \E fault \in Faults(FaultPieces[coding]) : case' = [kind |-> "fault", coding |-> coding, fault |-> fault]

\* The data after a fault.
Faulty(pieces, fault) ==
  FlattenSeq(SubSeq(pieces, 1, IF fault.repeated THEN fault.last ELSE fault.first - 1)
               \o SubSeq(pieces, IF fault.repeated THEN fault.first ELSE fault.last + 1, Len(pieces)))

DecodedFault(coding, data) ==
  LET flat == [i \in 1..6 |-> <<Flat>>]
  IN  IF coding = "huffman" THEN Decode(FaultScan, FaultHuffman.htbls, data, 100, flat)
                            ELSE ArithmeticDecoded(FaultScan, data, flat)

\* The intervals that lost data.  A lost marker also hits the interval it ends when the coding is
\* arithmetic: the zero bytes at the end of an interval are not sent, and the decoder supplies
\* them when it meets the marker.
Hit(pieces, fault, coding) ==
  IF fault.repeated THEN {}
  ELSE (IntervalOf(pieces, fault.first) - (IF coding = "arithmetic" /\ IsMarker(pieces[fault.first]) THEN 1 ELSE 0))
         ..IntervalOf(pieces, fault.last)

IntactOutside(hit, decoded) == \A i \in (1..6) \ hit : decoded[i] = FaultMcus[i]

-----------------------------------------------------------------------------
MCInit == case = [kind |-> "idle"] /\ Init

ChooseCase == \/ ChooseSize \/ ChooseCoefficient \/ ChooseCounts \/ ChooseImage
              \/ ChooseSequential \/ ChooseProgressive \/ ChooseFault

\* Inputs are chosen beside one of the streams only.
AnyStream == CHOOSE s \in Streams : TRUE

MCNext == \/ isNative /\ calls = 0 /\ stream = AnyStream /\ ChooseCase /\ UNCHANGED vars
          \/ Next /\ case.kind = "idle" /\ UNCHANGED case

MCSpec == MCInit /\ [][MCNext]_<<case, vars>>

-----------------------------------------------------------------------------
(* Properties. *)

\* CosineTable[n][i + 1] is 1024 * sqrt(2) * cos(i * pi / (2 * n)), rounded.
CosineTable ==
  << <<1448, 0>>,
     <<1448, 1024, 0>>,
     <<1448, 1254, 724, 0>>,
     <<1448, 1338, 1024, 554, 0>>,
     <<1448, 1377, 1172, 851, 448, 0>>,
     <<1448, 1399, 1254, 1024, 724, 375, 0>>,
     <<1448, 1412, 1305, 1132, 903, 628, 322, 0>>,
     <<1448, 1420, 1338, 1204, 1024, 805, 554, 283, 0>>,
     <<1448, 1426, 1361, 1254, 1109, 931, 724, 495, 251, 0>>,
     <<1448, 1430, 1377, 1290, 1172, 1024, 851, 657, 448, 227, 0>>,
     <<1448, 1433, 1389, 1317, 1218, 1094, 948, 783, 602, 408, 206, 0>>,
     <<1448, 1436, 1399, 1338, 1254, 1149, 1024, 882, 724, 554, 375, 189, 0>>,
     <<1448, 1438, 1406, 1354, 1282, 1192, 1084, 960, 823, 673, 514, 347, 175, 0>>,
     <<1448, 1439, 1412, 1367, 1305, 1226, 1132, 1024, 903, 770, 628, 478, 322, 162, 0>>,
     <<1448, 1440, 1417, 1377, 1323, 1254, 1172, 1076, 969, 851, 724, 589, 448, 301, 151, 0>>,
     <<1448, 1441, 1420, 1386, 1338, 1277, 1204, 1119, 1024, 919, 805, 683, 554, 420, 283, 142, 0>> >>

\* Coefficient u of n samples is, at sample x, 1024 times this.
Basis(n, u, x) ==
  LET a == ((2 * x + 1) * u) % (4 * n)
  IN  IF u = 0 THEN 1024
      ELSE IF a <= n THEN CosineTable[n][a + 1]
      ELSE IF a <= 2 * n THEN -CosineTable[n][2 * n - a + 1]
      ELSE IF a <= 3 * n THEN -CosineTable[n][a - 2 * n + 1]
      ELSE CosineTable[n][4 * n - a + 1]

Clamped(x) == IF x < 0 THEN 0 ELSE IF x > 255 * 1024 THEN 255 * 1024 ELSE x

\* Each of the 31 sizes of inverse DCT computes the transform it stands for: a sample is within
\* 0.9 of the sum of cosines, clamped to 0..255, and within three for the fast method, whose
\* constants have eight bits.  A coefficient outside the w x h block has no effect.
InverseDctIsAccurate ==
  case.kind = "transform" =>
    LET tolerance == IF case.dct_method = "JDCT_IFAST" THEN 3072 ELSE 900
        seen == case.u < case.w /\ case.v < case.h
        quant == QuantTable[8 * case.v + case.u]
        wave(x, y) == IF seen THEN ((case.ac * Basis(case.w, case.u, x) * Basis(case.h, case.v, y)) \div 8192) * quant
                      ELSE 0
        exact(x, y) == Clamped(131072 + 128 * QuantTable[0] * case.dc
                                 + IF case.u = 0 /\ case.v = 0 THEN 128 * quant * case.ac ELSE wave(x, y))
        out == Samples
    IN  \A x \in 0..(case.w - 1), y \in 0..(case.h - 1) :
          Magnitude(1024 * out[y + 1][x + 1] - exact(x, y)) <= tolerance

\* The levels that no sample has to be clamped for.
Unclamped == case.ac < 18

\* The forward DCT of a size takes back, coefficient by coefficient, what the inverse DCT of
\* that size made of a block: for every size but those that are 12 or 14 samples wide.
ForwardUndoesInverse ==
  case.kind = "transform" /\ Unclamped /\ case.w \notin {12, 14} =>
    ForwardDct(case.w, case.h, case.dct_method, Samples, QuantTable) = Kept

\* The same of the sizes that jfdctint.c documents like the others ("Perform the forward DCT on
\* a 12x12 sample block") and computes otherwise.
ForwardUndoesInverseAt12And14 ==
  case.kind = "transform" /\ Unclamped /\ case.w \in {12, 14} =>
    ForwardDct(case.w, case.h, case.dct_method, Samples, QuantTable) = Kept

\* The table chosen for some counts can be used by both sides, gives every symbol that was
\* counted a code of at most 16 bits and no other symbol one, never a longer code to the more
\* frequent of two symbols, and wastes no code but the one of all ones.
OptimalTableIsComplete ==
  case.kind = "counts" =>
    LET table == OptimalTable(case.freq)
        code == jpeg_make_c_derived_tbl(table)
        counted == {s \in DOMAIN case.freq : case.freq[s] > 0}
        huffsize == HuffSize(table)
        longest == huffsize[Len(huffsize)]
    IN  /\ OptimalTableMade(case.freq)
        /\ CTableAccepted(table, FALSE) /\ DTableAccepted(table, FALSE)
        /\ counted = {s \in 0..255 : code[s + 1].ehufsi > 0}
        /\ \A s, r \in counted : case.freq[s] > case.freq[r] => code[s + 1].ehufsi <= code[r + 1].ehufsi
        /\ HuffCode(table)[Len(huffsize)] = 2^longest - 2

\* Sequential mode: with the tables the statistics ask for, every symbol has its code, and the
\* decoder finds, wherever its source suspends, each coefficient that a component is needed for:
\* those of the rows and columns its scaled inverse DCT reads.  Arithmetic coding gives back all.
SequentialRoundTrip ==
  case.kind = "sequential" =>
    LET encoded == Encode(SequentialScan, case.mcus)
        needed(m, b, i, j) == b = 1 \/ (case.needs.needed /\ i < case.needs.v /\ j < case.needs.h)
    IN  /\ encoded.error = ""
        /\ \A cut \in Cuts :
             LET decoded == Decode(SequentialScan, encoded.htbls, encoded.out, cut,
                                    <<<<Flat, Flat>>, <<Flat, Flat>>>>)
             IN  \A m, b \in 1..2, i, j \in 0..(case.n - 1) :
                   needed(m, b, i, j) => LET k == ZigzagOrder(case.n, i, j)
                                         IN  decoded[m][b][k] = case.mcus[m][b][k]
        /\ LET decoded == ArithmeticDecoded(SequentialScan, ArithmeticBytes(SequentialScan, case.mcus),
                                            <<<<Flat, Flat>>, <<Flat, Flat>>>>)
           IN  \A m, b \in 1..2, k \in 0..SequentialScan.lim_Se : decoded[m][b][k] = case.mcus[m][b][k]

\* Progressive mode: five scans, first approximations and their refinements, with runs of empty
\* bands and correction bits buffered across blocks, leave the decoder with the coefficients the
\* encoder had, wherever the source suspends in each scan; and so do five scans of arithmetic coding.
ProgressiveRoundTrip ==
  case.kind = "progressive" =>
    LET flat == <<<<Flat>>, <<Flat>>, <<Flat>>>>
    IN  /\ \A cut \in Cuts : DecodedScript(Script, case.mcus, flat, cut) = case.mcus
        /\ ArithmeticDecodedScript(Script, case.mcus, flat) = case.mcus

\* What happens to the data of some restart intervals stays in them: the decoder finds its place
\* again after at most two lost or repeated markers, and every other interval is as it was.
FaultsStayInTheirInterval ==
  case.kind = "fault" =>
    LET pieces == FaultPieces[case.coding]
    IN  IntactOutside(Hit(pieces, case.fault, case.coding),
                      DecodedFault(case.coding, Faulty(pieces, case.fault)))
=============================================================================
