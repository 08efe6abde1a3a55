------------------------- MODULE JpegHuffmanEncoder -------------------------
(***************************************************************************)
(* The Huffman entropy encoder of libjpeg (jchuff.c): what it writes for a *)
(* sequence of MCUs, in sequential mode and in the four kinds of scan of   *)
(* progressive mode, or what it counts when it gathers statistics.         *)
(*                                                                         *)
(* A block maps each zigzag position to a coefficient: natural_order only  *)
(* permutes them.  A scan is a record of what jcmaster.c has selected:     *)
(*   progressive, Ss, Se, Ah, Al, lim_Se, restart_interval,                *)
(*   MCU_membership (the component of each block of an MCU),               *)
(*   tbl_no (the tables of each component: number n is called n + 1),       *)
(*   tables (the derived tables: tables.dc[n], tables.ac[n]).              *)
(* The state of the encoder is a record e: out are the bytes written, bits *)
(* the bits since the last flush; counts lists the symbols counted as      *)
(* <<class, table, symbol>>; an ERREXIT leaves its code in error.  The     *)
(* destination never suspends.                                             *)
(***************************************************************************)
EXTENDS JpegHuffmanTables

CONSTANTS MAX_EOBRUN,           \* 0x7FFF: the run of EOBs is forced out at this length
          MAX_CORR_BITS         \* 1000: the size of the buffer of correction bits

MAX_COEF_BITS == 10

-----------------------------------------------------------------------------
(* Bits and symbols. *)

\* The low size bits of code, first to last; a code of no bits is a table entry that is missing.
emit_bits(e, code, size) ==
  IF size = 0 THEN [e EXCEPT !.error = "JERR_HUFF_MISSING_CODE"]
  ELSE IF e.gather_statistics THEN e
  ELSE [e EXCEPT !.bits = @ \o Tabulate(size, LAMBDA i : (code \div 2^(size - i)) % 2)]

\* What emit_bits has done with the bits, once a partial byte is filled with ones: they left by
\* the byte, with a zero byte after each 0xFF.
flush_bits(e) ==
  LET bit(n) == IF n <= Len(e.bits) THEN e.bits[n] ELSE 1
      value(b) == 128 * bit(8 * b - 7) + 64 * bit(8 * b - 6) + 32 * bit(8 * b - 5) + 16 * bit(8 * b - 4)
                    + 8 * bit(8 * b - 3) + 4 * bit(8 * b - 2) + 2 * bit(8 * b - 1) + bit(8 * b)
      stuffed(b) == IF value(b) = 255 THEN <<255, 0>> ELSE <<value(b)>>
  IN  [e EXCEPT !.out = @ \o FlattenSeq(Tabulate((Len(e.bits) + 7) \div 8, stuffed)), !.bits = <<>>]

\* Emit or just count a symbol; class is "dc" or "ac".
emit_symbol(e, scan, class, tbl_no, symbol) ==
  IF e.gather_statistics THEN [e EXCEPT !.counts = Append(@, <<class, tbl_no, symbol>>)]
  ELSE LET entry == scan.tables[class][tbl_no][symbol + 1] IN emit_bits(e, entry.ehufco, entry.ehufsi)

\* The low bits of a value, or of its complement when it is negative.
EmitValue(e, value, nbits) ==
  IF nbits = 0 THEN e ELSE emit_bits(e, IF value < 0 THEN value - 1 ELSE value, nbits)

RECURSIVE emit_buffered_bits(_, _)
emit_buffered_bits(e, buffered) ==
  IF buffered = <<>> THEN e ELSE emit_buffered_bits(emit_bits(e, Head(buffered), 1), Tail(buffered))

\* The pending run of EOBs, and the correction bits that belong to it.
emit_eobrun(e, scan) ==
  LET nbits == BitLength(e.EOBRUN) - 1
      symbol == emit_symbol(e, scan, "ac", scan.tbl_no[scan.MCU_membership[1]], 16 * nbits)
      run == IF nbits > 0 THEN emit_bits(symbol, e.EOBRUN, nbits) ELSE symbol
  IN  IF e.EOBRUN = 0 THEN e
      ELSE IF nbits > 14 THEN [e EXCEPT !.error = "JERR_HUFF_MISSING_CODE"]
      ELSE [emit_buffered_bits(run, e.BE) EXCEPT !.EOBRUN = 0, !.BE = <<>>]

-----------------------------------------------------------------------------
(* Restarts. *)

NoPredictions == [ci \in 1..4 |-> 0]

emit_restart(e, scan) ==
  LET flushed == flush_bits(emit_eobrun(e, scan))
      marked == [flushed EXCEPT !.out = @ \o <<255, RST0 + e.next_restart_num>>]
  IN  [IF e.gather_statistics THEN emit_eobrun(e, scan) ELSE marked
         EXCEPT !.last_dc_val = IF scan.Ss = 0 THEN NoPredictions ELSE @, !.EOBRUN = 0, !.BE = <<>>]

RestartIfDue(e, scan) ==
  IF scan.restart_interval > 0 /\ e.restarts_to_go = 0 THEN emit_restart(e, scan) ELSE e

\* after is the state once the MCU is written.
CountRestart(before, after, scan) ==
  IF scan.restart_interval = 0 THEN after
  ELSE IF before.restarts_to_go = 0
       THEN [after EXCEPT !.restarts_to_go = scan.restart_interval - 1,
                          !.next_restart_num = (@ + 1) % 8]
  ELSE [after EXCEPT !.restarts_to_go = @ - 1]

-----------------------------------------------------------------------------
(* Sequential mode. *)

\* A DC difference: the symbol is its number of bits.
EmitDifference(e, scan, tbl_no, diff) ==
  LET nbits == BitLength(diff)
  IN  IF nbits > MAX_COEF_BITS + 1 THEN [e EXCEPT !.error = "JERR_BAD_DCT_COEF"]
      ELSE EmitValue(emit_symbol(e, scan, "dc", tbl_no, nbits), diff, nbits)

\* An AC coefficient after r zeros, r < 16.
EmitCoefficient(e, scan, tbl_no, r, coef) ==
  LET nbits == BitLength(coef)
  IN  IF nbits > MAX_COEF_BITS THEN [e EXCEPT !.error = "JERR_BAD_DCT_COEF"]
      ELSE EmitValue(emit_symbol(e, scan, "ac", tbl_no, 16 * r + nbits), coef, nbits)

\* The AC coefficients from position k on, r of them being zeros already passed.
RECURSIVE EncodeAC(_, _, _, _, _, _)
EncodeAC(e, scan, tbl_no, block, k, r) ==
  IF k > scan.lim_Se THEN IF r > 0 THEN emit_symbol(e, scan, "ac", tbl_no, 0) ELSE e
  ELSE IF block[k] = 0 THEN EncodeAC(e, scan, tbl_no, block, k + 1, r + 1)
  ELSE IF r > 15 THEN EncodeAC(emit_symbol(e, scan, "ac", tbl_no, 240), scan, tbl_no, block, k, r - 16)
  ELSE EncodeAC(EmitCoefficient(e, scan, tbl_no, r, block[k]), scan, tbl_no, block, k + 1, 0)

encode_one_block(e, scan, block, last_dc_val, tbl_no) ==
  EncodeAC(EmitDifference(e, scan, tbl_no, block[0] - last_dc_val), scan, tbl_no, block, 1, 0)

\* Gathering statistics is written apart from encoding: the symbols of a block, in no order.
htest_one_block(scan, block, last_dc_val, tbl_no) ==
  LET nonzero == {k \in 1..scan.lim_Se : block[k] /= 0}
      zerosBefore(k) == k - 1 - Max({0} \cup {j \in nonzero : j < k})
      ofCoefficient(k) ==
        Append([i \in 1..(zerosBefore(k) \div 16) |-> <<"ac", tbl_no, 240>>],
               <<"ac", tbl_no, 16 * (zerosBefore(k) % 16) + BitLength(block[k])>>)
  IN  <<<<"dc", tbl_no, BitLength(block[0] - last_dc_val)>>>>
        \o FlattenSeq(Tabulate(Cardinality(nonzero), LAMBDA i : ofCoefficient(Ascending(nonzero)[i])))
        \o IF scan.lim_Se \in nonzero \/ scan.lim_Se = 0 THEN <<>> ELSE <<<<"ac", tbl_no, 0>>>>

RECURSIVE EncodeBlocks(_, _, _, _)
EncodeBlocks(e, scan, mcu, blkn) ==
  IF blkn > Len(mcu) \/ e.error /= "" THEN e
  ELSE LET ci == scan.MCU_membership[blkn]
           last == e.last_dc_val[ci]
           coded == IF e.gather_statistics
                    THEN [e EXCEPT !.counts = @ \o htest_one_block(scan, mcu[blkn], last, scan.tbl_no[ci])]
                    ELSE encode_one_block(e, scan, mcu[blkn], last, scan.tbl_no[ci])
       IN  EncodeBlocks([coded EXCEPT !.last_dc_val[ci] = mcu[blkn][0]], scan, mcu, blkn + 1)

encode_mcu_huff(e, scan, mcu) ==
  CountRestart(e, EncodeBlocks(RestartIfDue(e, scan), scan, mcu, 1), scan)

encode_mcu_gather(e, scan, mcu) ==
  LET restarted == IF scan.restart_interval > 0 /\ e.restarts_to_go = 0
                   THEN [e EXCEPT !.last_dc_val = NoPredictions] ELSE e
  IN  CountRestart(e, EncodeBlocks(restarted, scan, mcu, 1), scan)

-----------------------------------------------------------------------------
(* Progressive mode. *)

RECURSIVE DCFirst(_, _, _, _)
DCFirst(e, scan, mcu, blkn) ==
  IF blkn > Len(mcu) THEN e
  ELSE LET ci == scan.MCU_membership[blkn]
           value == mcu[blkn][0] \div 2^scan.Al
       IN  DCFirst([EmitDifference(e, scan, scan.tbl_no[ci], value - e.last_dc_val[ci])
                      EXCEPT !.last_dc_val[ci] = value], scan, mcu, blkn + 1)

encode_mcu_DC_first(e, scan, mcu) ==
  CountRestart(e, DCFirst(RestartIfDue(e, scan), scan, mcu, 1), scan)

RECURSIVE DCRefine(_, _, _, _)
DCRefine(e, scan, mcu, blkn) ==
  IF blkn > Len(mcu) THEN e
  ELSE DCRefine(emit_bits(e, mcu[blkn][0] \div 2^scan.Al, 1), scan, mcu, blkn + 1)

encode_mcu_DC_refine(e, scan, mcu) ==
  CountRestart(e, DCRefine(RestartIfDue(e, scan), scan, mcu, 1), scan)

\* One more block whose rest is zeros, with its correction bits.
CountEob(e, scan, corrections) ==
  LET counted == [e EXCEPT !.EOBRUN = @ + 1, !.BE = @ \o corrections]
  IN  IF counted.EOBRUN = MAX_EOBRUN \/ Len(counted.BE) > MAX_CORR_BITS - DCTSIZE2 + 1
      THEN emit_eobrun(counted, scan) ELSE counted

RECURSIVE ACFirst(_, _, _, _, _)
ACFirst(e, scan, block, k, r) ==
  LET tbl_no == scan.tbl_no[scan.MCU_membership[1]]
      coef == PointTransform(block[k], scan.Al)
  IN  IF k > scan.Se THEN IF r > 0 THEN CountEob(e, scan, <<>>) ELSE e
      ELSE IF coef = 0 THEN ACFirst(e, scan, block, k + 1, r + 1)
      ELSE IF e.EOBRUN > 0 THEN ACFirst(emit_eobrun(e, scan), scan, block, k, r)
      ELSE IF r > 15 THEN ACFirst(emit_symbol(e, scan, "ac", tbl_no, 240), scan, block, k, r - 16)
      ELSE ACFirst(EmitCoefficient(e, scan, tbl_no, r, coef), scan, block, k + 1, 0)

encode_mcu_AC_first(e, scan, mcu) ==
  CountRestart(e, ACFirst(RestartIfDue(e, scan), scan, mcu[1], scan.Ss, 0), scan)

\* BR are the correction bits of this block since its last symbol.
RECURSIVE ACRefine(_, _, _, _, _, _)
ACRefine(e, scan, block, k, r, BR) ==
  LET tbl_no == scan.tbl_no[scan.MCU_membership[1]]
      absvalue(j) == Magnitude(block[j]) \div 2^scan.Al
      EOB == Max({0} \cup {j \in scan.Ss..scan.Se : absvalue(j) = 1})
      zrl == emit_symbol(emit_eobrun(e, scan), scan, "ac", tbl_no, 240)
      symbol == emit_symbol(emit_eobrun(e, scan), scan, "ac", tbl_no, 16 * r + 1)
      sign == emit_bits(symbol, IF block[k] < 0 THEN 0 ELSE 1, 1)
  IN  IF k > scan.Se THEN IF r > 0 \/ BR /= <<>> THEN CountEob(e, scan, BR) ELSE e
      ELSE IF absvalue(k) = 0 THEN ACRefine(e, scan, block, k + 1, r + 1, BR)
      ELSE IF r > 15 /\ k <= EOB
           THEN ACRefine(emit_buffered_bits(zrl, BR), scan, block, k, r - 16, <<>>)
      ELSE IF absvalue(k) > 1
           THEN ACRefine(e, scan, block, k + 1, r, Append(BR, absvalue(k) % 2))
      ELSE ACRefine(emit_buffered_bits(sign, BR), scan, block, k + 1, 0, <<>>)

encode_mcu_AC_refine(e, scan, mcu) ==
  CountRestart(e, ACRefine(RestartIfDue(e, scan), scan, mcu[1], scan.Ss, 0, <<>>), scan)

-----------------------------------------------------------------------------
(* A whole pass. *)

start_pass_huff(scan, gather_statistics) ==
  [gather_statistics |-> gather_statistics, out |-> <<>>, bits |-> <<>>, counts |-> <<>>, error |-> "",
   last_dc_val |-> NoPredictions, EOBRUN |-> 0, BE |-> <<>>,
   restarts_to_go |-> scan.restart_interval, next_restart_num |-> 0]

encode_mcu(e, scan, mcu) ==
  CASE ~scan.progressive /\ e.gather_statistics  -> encode_mcu_gather(e, scan, mcu)
    [] ~scan.progressive /\ ~e.gather_statistics -> encode_mcu_huff(e, scan, mcu)
    [] scan.progressive /\ scan.Ah = 0 /\ scan.Ss = 0 -> encode_mcu_DC_first(e, scan, mcu)
    [] scan.progressive /\ scan.Ah = 0 /\ scan.Ss > 0 -> encode_mcu_AC_first(e, scan, mcu)
    [] scan.progressive /\ scan.Ah > 0 /\ scan.Ss = 0 -> encode_mcu_DC_refine(e, scan, mcu)
    [] scan.progressive /\ scan.Ah > 0 /\ scan.Ss > 0 -> encode_mcu_AC_refine(e, scan, mcu)

RECURSIVE EncodeFrom(_, _, _)
EncodeFrom(e, scan, mcus) ==
  IF mcus = <<>> \/ e.error /= "" THEN e ELSE EncodeFrom(encode_mcu(e, scan, Head(mcus)), scan, Tail(mcus))

finish_pass_huff(e, scan) == flush_bits(emit_eobrun(e, scan))

\* The tables a pass of statistics leaves: one for each class and number that was used.
finish_pass_gather(e, scan) ==
  LET counts == emit_eobrun(e, scan).counts
      count(class, n, symbol) == Cardinality({i \in 1..Len(counts) : counts[i] = <<class, n, symbol>>})
      symbols(class, n) == {counts[i][3] : i \in {j \in 1..Len(counts) : counts[j][1] = class /\ counts[j][2] = n}}
      table(class, n) == IF symbols(class, n) = {} THEN [bits |-> Tabulate(16, LAMBDA l : 0), huffval |-> <<>>]
                         ELSE jpeg_gen_optimal_table([s \in symbols(class, n) |-> count(class, n, s)])
  IN  [dc |-> Tabulate(2, LAMBDA n : table("dc", n)), ac |-> Tabulate(2, LAMBDA n : table("ac", n))]

\* Both passes over the MCUs of a scan, as optimize_coding and every progressive scan make them.
EncodeScan(scan, mcus) ==
  LET htbls == finish_pass_gather(EncodeFrom(start_pass_huff(scan, TRUE), scan, mcus), scan)
      derived == [dc |-> Tabulate(2, LAMBDA n : jpeg_make_c_derived_tbl(htbls.dc[n])),
                  ac |-> Tabulate(2, LAMBDA n : jpeg_make_c_derived_tbl(htbls.ac[n]))]
      withTables == [scan EXCEPT !.tables = derived]
      e == EncodeFrom(start_pass_huff(scan, FALSE), withTables, mcus)
  IN  [htbls |-> htbls, error |-> e.error, out |-> finish_pass_huff(e, withTables).out]
=============================================================================
