------------------------- MODULE JpegHuffmanDecoder -------------------------
(***************************************************************************)
(* The Huffman entropy decoder of libjpeg (jdhuff.c), over a data source   *)
(* that may suspend.                                                       *)
(*                                                                         *)
(* The state of the decoder is a record d as in JpegRestarts; bits is the  *)
(* bit buffer.  Blocks and scans are as in JpegHuffmanEncoder; coef_limit  *)
(* gives for each block of an MCU how many of its coefficients are needed. *)
(***************************************************************************)
EXTENDS JpegHuffmanTables, JpegRestarts

MIN_GET_BITS == 25

\* The place in zigzag order of row v, column h of an n x n block.
ZigzagOrder(n, v, h) ==
  Cardinality({<<i, j>> \in (0..(n - 1)) \X (0..(n - 1)) :
                 i + j < v + h \/ (i + j = v + h /\ IF (v + h) % 2 = 1 THEN i < v ELSE j < h)})

\* Mutant of CoefLimit: the last position, not how many come up to it.
CoefLimitOneShort(n, v, h) ==
  LET clipped(size) == IF size <= 0 \/ size > n THEN n ELSE size
  IN  ZigzagOrder(n, clipped(v) - 1, clipped(h) - 1)

\* The number of coefficients that matter to a component scaled to h x v samples a block, when
\* blocks are n x n coefficients.
CoefLimit(n, v, h) ==
  LET clipped(size) == IF size <= 0 \/ size > n THEN n ELSE size
  IN  1 + ZigzagOrder(n, clipped(v) - 1, clipped(h) - 1)

-----------------------------------------------------------------------------
(* Bits. *)

\* A marker ends the data: the buffer is then filled with zeros, and insufficient_data is set
\* once more bits are asked for than were left.
NoMoreBytes(d, nbits) ==
  IF nbits <= Len(d.bits) THEN d
  ELSE [d EXCEPT !.insufficient_data = TRUE,
                 !.bits = @ \o Tabulate(MIN_GET_BITS - Len(@), LAMBDA i : 0)]

RECURSIVE jpeg_fill_bit_buffer(_, _)
jpeg_fill_bit_buffer(d, nbits) ==
  LET byte == ReadByte(d)
      next == ReadPastFill(byte)
      loaded(e, c) == [e EXCEPT !.bits = @ \o Tabulate(8, LAMBDA i : (c \div 2^(8 - i)) % 2)]
  IN  IF d.unread_marker /= 0 THEN NoMoreBytes(d, nbits)
      ELSE IF Len(d.bits) >= MIN_GET_BITS THEN d
      ELSE IF byte.suspended THEN byte
      ELSE IF byte.value /= 255 THEN jpeg_fill_bit_buffer(loaded(byte, byte.value), nbits)
      ELSE IF next.suspended THEN next
      ELSE IF next.value = 0 THEN jpeg_fill_bit_buffer(loaded(next, 255), nbits)
      ELSE NoMoreBytes([next EXCEPT !.unread_marker = next.value], nbits)

CheckBitBuffer(d, nbits) == IF Len(d.bits) < nbits THEN jpeg_fill_bit_buffer(d, nbits) ELSE d

\* CHECK_BIT_BUFFER and GET_BITS.
GetBits(d, nbits) ==
  LET filled == CheckBitBuffer(d, nbits)
      value[i \in 0..nbits] == IF i = 0 THEN 0 ELSE 2 * value[i - 1] + filled.bits[i]
  IN  IF filled.suspended THEN filled
      ELSE [filled EXCEPT !.value = value[nbits], !.bits = SubSeq(@, nbits + 1, Len(@))]

HUFF_EXTEND(x, s) == IF s > 0 /\ x < 2^(s - 1) THEN x - 2^s + 1 ELSE x

\* Figure F.16: one more bit until the code is one of its length.  A code of 17 bits is
\* corrupt, and zero is the safest result.
RECURSIVE DecodeLonger(_, _, _, _)
DecodeLonger(d, tbl, code, l) ==
  IF d.suspended THEN d
  ELSE IF l > 16 THEN [d EXCEPT !.value = 0]
  ELSE IF l = 0 \/ code > tbl.maxcode[l]
       THEN LET more == GetBits(d, 1) IN DecodeLonger(more, tbl, 2 * code + more.value, l + 1)
  ELSE [d EXCEPT !.value = tbl.huffval[code + tbl.valoffset[l]]]

\* HUFF_DECODE: the lookahead table only shortens the way to the same symbol, but it asks for
\* as many bytes as the buffer takes.
jpeg_huff_decode(d, tbl) ==
  LET ahead == IF Len(d.bits) < 8 THEN jpeg_fill_bit_buffer(d, 0) ELSE d
  IN  DecodeLonger(ahead, tbl, 0, 0)

\* A symbol's low half is a number of bits: they follow, and stand for a signed value.
GetValue(d, s) == LET read == GetBits(d, s) IN [read EXCEPT !.value = HUFF_EXTEND(@, s)]

-----------------------------------------------------------------------------
(* Restarts. *)

process_restart(d, scan) ==
  LET read == read_restart_marker([d EXCEPT !.bits = <<>>])
  IN  IF read.suspended THEN read
      ELSE [read EXCEPT !.last_dc_val = [ci \in 1..4 |-> 0], !.EOBRUN = 0,
                        !.restarts_to_go = scan.restart_interval,
                        !.insufficient_data = @ /\ read.unread_marker /= 0]

RestartBeforeMcu(d, scan) ==
  IF scan.restart_interval > 0 /\ d.restarts_to_go = 0 THEN process_restart(d, scan) ELSE d

-----------------------------------------------------------------------------
(* The MCU decoders.  Each works on a copy of the state and of the blocks, *)
(* [d, mcu].                                                               *)

\* If the source suspends, the MCU is decoded again later: of the state only what is permanent
\* has changed, and of the blocks some coefficients.
Completed(before, work) ==
  IF work.d.suspended
  THEN [work EXCEPT !.d = [before EXCEPT !.suspended = TRUE, !.unread_marker = work.d.unread_marker,
                                         !.insufficient_data = work.d.insufficient_data]]
  ELSE [work EXCEPT !.d.restarts_to_go = @ - 1]

\* natural_order sends what lies beyond the band, in corrupt data, to the last coefficient.
Position(k, Se) == IF k > Se THEN 63 ELSE k

\* The next DC value of the component of a block, which is unused if used is false.
DecodeDC(d, scan, blkn, used) ==
  LET ci == scan.MCU_membership[blkn]
      symbol == jpeg_huff_decode(d, scan.tables.dc[scan.tbl_no[ci]])
      diff == GetValue(symbol, symbol.value)
      value == diff.value + d.last_dc_val[ci]
  IN  IF symbol.suspended THEN symbol
      ELSE IF diff.suspended \/ ~used THEN diff
      ELSE [diff EXCEPT !.last_dc_val[ci] = value, !.value = value]

\* The AC coefficients of a block from position k on; those from limit on are thrown away.
RECURSIVE DecodeAC(_, _, _, _, _, _)
DecodeAC(work, blkn, tbl, k, limit, Se) ==
  LET symbol == jpeg_huff_decode(work.d, tbl)
      r == symbol.value \div 16
      s == symbol.value % 16
      value == GetValue(symbol, s)
      kept == IF k < limit THEN [work.mcu EXCEPT ![blkn][Position(k + r, Se)] = value.value] ELSE work.mcu
  IN  IF k > Se THEN work
      ELSE IF symbol.suspended \/ (s = 0 /\ r < 15) THEN [work EXCEPT !.d = symbol]
      ELSE IF s = 0 THEN DecodeAC([work EXCEPT !.d = symbol], blkn, tbl, k + 16, limit, Se)
      ELSE IF value.suspended THEN [work EXCEPT !.d = value]
      ELSE DecodeAC([d |-> value, mcu |-> kept], blkn, tbl, k + r + 1, limit, Se)

\* Sequential mode, for blocks of full size (decode_mcu) or not (decode_mcu_sub).
RECURSIVE decode_mcu(_, _, _)
decode_mcu(work, scan, blkn) ==
  LET limit == scan.coef_limit[blkn]
      dc == DecodeDC(work.d, scan, blkn, limit > 0)
      mcu == IF limit > 0 THEN [work.mcu EXCEPT ![blkn][0] = dc.value] ELSE work.mcu
      tbl == scan.tables.ac[scan.tbl_no[scan.MCU_membership[blkn]]]
  IN  IF work.d.suspended \/ blkn > Len(work.mcu) THEN work
      ELSE IF dc.suspended THEN [work EXCEPT !.d = dc]
      ELSE decode_mcu(DecodeAC([d |-> dc, mcu |-> mcu], blkn, tbl, 1, limit, scan.lim_Se), scan, blkn + 1)

RECURSIVE decode_mcu_DC_first(_, _, _)
decode_mcu_DC_first(work, scan, blkn) ==
  LET dc == DecodeDC(work.d, scan, blkn, TRUE)
  IN  IF blkn > Len(work.mcu) THEN work
      ELSE IF dc.suspended THEN [work EXCEPT !.d = dc]
      ELSE decode_mcu_DC_first([d |-> dc, mcu |-> [work.mcu EXCEPT ![blkn][0] = dc.value * 2^scan.Al]],
                               scan, blkn + 1)

RECURSIVE decode_mcu_DC_refine(_, _, _)
decode_mcu_DC_refine(work, scan, blkn) ==
  LET bit == GetBits(work.d, 1)
      p1 == 2^scan.Al
      set(coef) == IF bit.value = 1 /\ (coef \div p1) % 2 = 0 THEN coef + p1 ELSE coef
  IN  IF blkn > Len(work.mcu) THEN work
      ELSE IF bit.suspended THEN [work EXCEPT !.d = bit]
      ELSE decode_mcu_DC_refine([d |-> bit, mcu |-> [work.mcu EXCEPT ![blkn][0] = set(@)]], scan, blkn + 1)

\* A run of blocks without coefficients: 2^r and r more bits, this block being the first.
DecodeEobRun(symbol, r) ==
  LET extra == GetBits(symbol, r)
  IN  IF extra.suspended THEN extra ELSE [extra EXCEPT !.EOBRUN = 2^r + extra.value]

RECURSIVE decode_mcu_AC_first(_, _, _)
decode_mcu_AC_first(work, scan, k) ==
  LET symbol == jpeg_huff_decode(work.d, scan.tables.ac[scan.tbl_no[scan.MCU_membership[1]]])
      r == symbol.value \div 16
      s == symbol.value % 16
      value == GetValue(symbol, s)
      run == DecodeEobRun(symbol, r)
      coef == [work.mcu EXCEPT ![1][Position(k + r, scan.Se)] = value.value * 2^scan.Al]
  IN  IF work.d.EOBRUN > 0 THEN [work EXCEPT !.d.EOBRUN = @ - 1]
      ELSE IF k > scan.Se THEN work
      ELSE IF symbol.suspended THEN [work EXCEPT !.d = symbol]
      ELSE IF s = 0 /\ r = 15 THEN decode_mcu_AC_first([work EXCEPT !.d = symbol], scan, k + 16)
      ELSE IF s = 0 THEN IF run.suspended THEN [work EXCEPT !.d = run]
                         ELSE [work EXCEPT !.d = [run EXCEPT !.EOBRUN = @ - 1]]
      ELSE IF value.suspended THEN [work EXCEPT !.d = value]
      ELSE decode_mcu_AC_first([d |-> value, mcu |-> coef], scan, k + r + 1)

\* Mutant of Corrected: a second attempt corrects again.
CorrectedAgain(coef, bit, p1) ==
  IF bit = 1 THEN IF coef >= 0 THEN coef + p1 ELSE coef - p1 ELSE coef

\* A correction bit raises the magnitude of a coefficient, unless a suspended attempt did.
Corrected(coef, bit, p1) ==
  IF bit = 1 /\ (coef \div p1) % 2 = 0 THEN IF coef >= 0 THEN coef + p1 ELSE coef - p1 ELSE coef

\* From position k past the nonzero coefficients, correcting them, and r zeros: work.k is where
\* the next zero, or the end of the band, is.
RECURSIVE Advance(_, _, _, _)
Advance(work, scan, k, r) ==
  LET coef == work.mcu[1][k]
      bit == GetBits(work.d, 1)
      corrected == [work.mcu EXCEPT ![1][k] = Corrected(@, bit.value, 2^scan.Al)]
  IN  IF k > scan.Se THEN [work EXCEPT !.k = k]
      ELSE IF coef = 0 THEN IF r = 0 THEN [work EXCEPT !.k = k] ELSE Advance(work, scan, k + 1, r - 1)
      ELSE IF bit.suspended THEN [work EXCEPT !.d = bit]
      ELSE Advance([work EXCEPT !.d = bit, !.mcu = corrected], scan, k + 1, r)

\* Up to the end of the band or the start of a run of EOBs, where EOBRUN is set; newnz holds the
\* positions of the new coefficients.
RECURSIVE RefineBand(_, _)
RefineBand(work, scan) ==
  LET symbol == jpeg_huff_decode(work.d, scan.tables.ac[scan.tbl_no[scan.MCU_membership[1]]])
      r == symbol.value \div 16
      s == symbol.value % 16
      sign == GetBits(symbol, 1)
      run == DecodeEobRun(symbol, r)
      passed == Advance([work EXCEPT !.d = IF s = 0 THEN symbol ELSE sign], scan, work.k, r)
      pos == Position(passed.k, scan.Se)
      grown == [passed EXCEPT !.mcu[1][pos] = IF sign.value = 1 THEN 2^scan.Al ELSE -(2^scan.Al),
                              !.newnz = @ \cup {pos}]
  IN  IF work.d.suspended \/ work.k > scan.Se THEN work
      ELSE IF symbol.suspended THEN [work EXCEPT !.d = symbol]
      ELSE IF s = 0 /\ r < 15 THEN [work EXCEPT !.d = run]
      ELSE IF s > 0 /\ sign.suspended THEN [work EXCEPT !.d = sign]
      ELSE IF passed.d.suspended THEN passed
      ELSE IF s = 0 THEN RefineBand([passed EXCEPT !.k = @ + 1], scan)
      ELSE RefineBand([grown EXCEPT !.k = @ + 1], scan)

\* New coefficients are taken back if the source suspends: they would pass for old ones.
decode_mcu_AC_refine(work, scan) ==
  LET start == [d |-> work.d, mcu |-> work.mcu, k |-> scan.Ss, newnz |-> {}]
      band == IF work.d.EOBRUN > 0 THEN start ELSE RefineBand(start, scan)
      rest == Advance(band, scan, band.k, DCTSIZE2)
      done == IF band.d.suspended \/ band.d.EOBRUN = 0 THEN band
              ELSE IF rest.d.suspended THEN rest
              ELSE [rest EXCEPT !.d.EOBRUN = @ - 1]
      undone == [k \in 0..63 |-> IF k \in done.newnz THEN 0 ELSE done.mcu[1][k]]
  IN  [d |-> done.d, mcu |-> IF done.d.suspended THEN <<undone>> ELSE done.mcu]

-----------------------------------------------------------------------------
(* A whole scan. *)

start_pass_huff_decoder(scan, bytes, pos, available) ==
  [bytes |-> bytes, pos |-> pos, available |-> available, suspended |-> FALSE, value |-> 0,
   bits |-> <<>>, unread_marker |-> 0, insufficient_data |-> FALSE,
   last_dc_val |-> [ci \in 1..4 |-> 0], EOBRUN |-> 0,
   restarts_to_go |-> scan.restart_interval, next_restart_num |-> 0]

DecodeMcu(d, scan, mcu) ==
  LET restarted == RestartBeforeMcu(d, scan)
      work == [d |-> restarted, mcu |-> mcu]
      decoded == CASE ~scan.progressive -> decode_mcu(work, scan, 1)
                   [] scan.progressive /\ scan.Ah = 0 /\ scan.Ss = 0 -> decode_mcu_DC_first(work, scan, 1)
                   [] scan.progressive /\ scan.Ah = 0 /\ scan.Ss > 0 -> decode_mcu_AC_first(work, scan, scan.Ss)
                   [] scan.progressive /\ scan.Ah > 0 /\ scan.Ss = 0 -> decode_mcu_DC_refine(work, scan, 1)
                   [] scan.progressive /\ scan.Ah > 0 /\ scan.Ss > 0 -> decode_mcu_AC_refine(work, scan)
      dcRefinement == scan.progressive /\ scan.Ah > 0 /\ scan.Ss = 0
  IN  IF restarted.suspended THEN work
      ELSE IF restarted.insufficient_data /\ ~dcRefinement THEN Completed(restarted, work)
      ELSE Completed(restarted, decoded)

\* The MCUs of a scan, given what earlier scans left in them.  Where the source suspends, it has
\* all the rest of the bytes when it is asked again.
RECURSIVE DecodeScan(_, _, _, _)
DecodeScan(d, scan, mcus, n) ==
  LET work == DecodeMcu(d, scan, mcus[n])
  IN  IF n > Len(mcus) THEN mcus
      ELSE IF work.d.suspended
           THEN DecodeScan([work.d EXCEPT !.suspended = FALSE, !.available = Len(work.d.bytes)], scan,
                           [mcus EXCEPT ![n] = work.mcu], n)
      ELSE DecodeScan(work.d, scan, [mcus EXCEPT ![n] = work.mcu], n + 1)
=============================================================================
