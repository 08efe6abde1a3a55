------------------------- MODULE JpegArithmeticDecoder -------------------------
(***************************************************************************)
(* The arithmetic entropy decoder of libjpeg (jdarith.c).                  *)
(*                                                                         *)
(* The state of the decoder is a record d as in JpegRestarts, with the     *)
(* registers c and a and the shift counter ct, which is -1 after an error  *)
(* in the data.  A source that suspends is an error of the application     *)
(* that ends the scan: the rest of the MCU then shows nothing.             *)
(***************************************************************************)
EXTENDS JpegArithmeticModel, JpegRestarts

-----------------------------------------------------------------------------
(* Decisions. *)

\* What the byte after a byte 0xFF makes of it: a data byte, or a marker.
AfterFF(code) ==
  IF code.suspended THEN [code EXCEPT !.value = 0]
  ELSE IF code.value = 0 THEN [code EXCEPT !.value = 255]
  ELSE [code EXCEPT !.unread_marker = code.value, !.value = 0]

DataByte(byte) ==
  IF byte.suspended THEN [byte EXCEPT !.value = 0]
  ELSE IF byte.value # 255 THEN byte
  ELSE AfterFF(ReadPastFill(byte))

\* The next byte of data; when a marker ends it, zeros, as many as are asked for.
NextData(d) == IF d.unread_marker # 0 THEN [d EXCEPT !.value = 0] ELSE DataByte(ReadByte(d))

\* Two bytes are read before the first decision.
Append8(d) ==
  LET ct == d.ct + 8
  IN  [d EXCEPT !.c = 256 * @ + d.value,
                !.ct = IF ct < 0 THEN ct + 1 ELSE ct,
                !.a = IF ct + 1 = 0 THEN 32768 ELSE @]

RECURSIVE Renormalize(_)
Renormalize(d) ==
  LET counted == [d EXCEPT !.ct = @ - 1]
      loaded == IF counted.ct < 0 THEN Append8(NextData(counted)) ELSE counted
  IN  IF d.a >= 32768 THEN d ELSE Renormalize([loaded EXCEPT !.a = 2 * @])

\* A decision with the interval at least 2^15 wide.
Divide(d, bin, state, row) ==
  LET qe == row[1]
      a == d.a - qe
      temp == a * 2^d.ct
      upper == d.c >= temp
      lps == IF upper THEN a >= qe ELSE a < qe
      narrowed == IF upper THEN [d EXCEPT !.c = @ - temp, !.a = qe] ELSE [d EXCEPT !.a = a]
  IN  IF ~ upper /\ a >= 32768 THEN [narrowed EXCEPT !.value = state.mps]
      ELSE [narrowed EXCEPT !.value = IF lps THEN 1 - state.mps ELSE state.mps,
                            !.stats = Updated(@, bin, IF lps THEN Estimate_after_LPS(state, row)
                                                      ELSE Estimate_after_MPS(state, row))]

arith_decode(d, bin) ==
  LET state == StateOf(d.stats, bin) IN Divide(Renormalize(d), bin, state, Row(state))

Corrupt(d) == [d EXCEPT !.ct = -1]

-----------------------------------------------------------------------------
(* Values. *)

\* A category is a record of the state, the power of two m below the magnitude less one, the bin
\* offset and the sign.  Each decision for more doubles m and goes on to the next bin.
RECURSIVE Category(_, _, _)
Category(category, class, tbl) ==
  LET next == arith_decode(category.d, <<class, tbl, category.offset>>)
  IN  IF next.value = 0 THEN [category EXCEPT !.d = next]
      ELSE IF 2 * category.m = 32768 THEN [category EXCEPT !.d = Corrupt(next)]
      ELSE Category([category EXCEPT !.d = next, !.m = 2 * @, !.offset = @ + 1], class, tbl)

\* The bits of a value below m.
RECURSIVE Pattern(_, _, _, _)
Pattern(d, bin, m, v) ==
  LET next == arith_decode(d, bin)
  IN  IF m <= 1 THEN [d EXCEPT !.value = v]
      ELSE Pattern(next, bin, m \div 2, v + next.value * (m \div 2))

DecodeMagnitude(category, class, tbl) ==
  LET pattern == Pattern(category.d, <<class, tbl, category.offset + 14>>, category.m, category.m)
  IN  IF category.d.ct = -1 THEN category.d
      ELSE [pattern EXCEPT !.value = IF category.sign = 1 THEN -(@ + 1) ELSE @ + 1]

\* DC: the state d has just decided the sign.
DcCategory(d, tbl, S) ==
  LET more == arith_decode(d, dc_stats(tbl, S))
  IN  IF more.value = 0 THEN [d |-> more, m |-> 0, offset |-> S, sign |-> d.value]
      ELSE Category([d |-> more, m |-> 1, offset |-> 20, sign |-> d.value], "dc", tbl)

AddDifference(category, tbl, ci) ==
  LET diff == DecodeMagnitude(category, "dc", tbl)
  IN  IF diff.ct = -1 THEN diff
      ELSE [diff EXCEPT !.dc_context[ci] = DcContext(category.m, category.sign), !.last_dc_val[ci] = @ + diff.value]

NonzeroDifference(d, tbl, ci) ==
  LET context == d.dc_context[ci]
      signed == arith_decode(d, dc_stats(tbl, context + 1))
  IN  AddDifference(DcCategory(signed, tbl, context + 2 + signed.value), tbl, ci)

\* The next DC value of component ci.
DecodeDC(d, tbl, ci) ==
  LET nonzero == arith_decode(d, dc_stats(tbl, d.dc_context[ci]))
  IN  IF nonzero.value = 0 THEN [nonzero EXCEPT !.dc_context[ci] = 0] ELSE NonzeroDifference(nonzero, tbl, ci)

\* AC: the same, of a coefficient that is not zero.
LargeAcCategory(d, tbl, k, sign) ==
  LET large == arith_decode(d, ac_stats(tbl, 3 * (k - 1) + 2))
  IN  IF large.value = 0 THEN [d |-> large, m |-> 1, offset |-> 3 * (k - 1) + 2, sign |-> sign]
      ELSE Category([d |-> large, m |-> 2, offset |-> X2(k), sign |-> sign], "ac", tbl)

AcCategory(d, tbl, k) ==
  LET more == arith_decode(d, ac_stats(tbl, 3 * (k - 1) + 2))
  IN  IF more.value = 0 THEN [d |-> more, m |-> 0, offset |-> 3 * (k - 1) + 2, sign |-> d.value]
      ELSE LargeAcCategory(more, tbl, k, d.value)

DecodeCoefficient(d, tbl, k) == DecodeMagnitude(AcCategory(arith_decode(d, fixed_bin), tbl, k), "ac", tbl)

\* The next position from k on with a coefficient; an error if there is none up to Se.
RECURSIVE SkipZeros(_, _, _, _)
SkipZeros(d, tbl, k, Se) ==
  LET nonzero == arith_decode(d, ac_stats(tbl, 3 * (k - 1) + 1))
  IN  IF nonzero.value = 1 THEN [d |-> nonzero, k |-> k]
      ELSE IF k + 1 > Se THEN [d |-> Corrupt(nonzero), k |-> k]
      ELSE SkipZeros(nonzero, tbl, k + 1, Se)

-----------------------------------------------------------------------------
(* The MCU decoders, on a state and the blocks, [d, mcu]. *)

\* A coefficient has 16 bits.
JCOEF(value) == ((value + 32768) % 65536) - 32768

With(work, d, blkn, k, value) == [d |-> d, mcu |-> [work.mcu EXCEPT ![blkn][k] = JCOEF(value)]]

\* A band from position k on, where the block may end.
RECURSIVE DecodeAC(_, _, _, _, _, _), NextCoefficient(_, _, _, _, _, _), PlaceCoefficient(_, _, _, _, _, _, _)
DecodeAC(work, blkn, tbl, k, Se, Al) ==
  LET ended == arith_decode(work.d, ac_stats(tbl, 3 * (k - 1)))
  IN  IF k > Se THEN work
      ELSE IF ended.value = 1 THEN [work EXCEPT !.d = ended]
      ELSE NextCoefficient(work, SkipZeros(ended, tbl, k, Se), blkn, tbl, Se, Al)

NextCoefficient(work, found, blkn, tbl, Se, Al) ==
  IF found.d.ct = -1 THEN [work EXCEPT !.d = found.d]
  ELSE PlaceCoefficient(work, DecodeCoefficient(found.d, tbl, found.k), blkn, tbl, found.k, Se, Al)

PlaceCoefficient(work, coef, blkn, tbl, k, Se, Al) ==
  IF coef.ct = -1 THEN [work EXCEPT !.d = coef]
  ELSE DecodeAC(With(work, coef, blkn, k, coef.value * 2^Al), blkn, tbl, k + 1, Se, Al)

\* A DC coefficient; the block it begins has an AC band in sequential mode only.
PlaceDC(work, dc, scan, blkn) ==
  LET ci == scan.MCU_membership[blkn]
  IN  IF dc.ct = -1 THEN [work EXCEPT !.d = dc]
      ELSE With(work, dc, blkn, 0, dc.last_dc_val[ci] * 2^scan.Al)

DecodeBlockDC(work, scan, blkn) ==
  LET ci == scan.MCU_membership[blkn]
  IN  PlaceDC(work, DecodeDC(work.d, scan.tbl_no[ci], ci), scan, blkn)

RECURSIVE decode_mcu(_, _, _), DecodeBlockAC(_, _, _)
decode_mcu(work, scan, blkn) ==
  IF blkn > Len(work.mcu) \/ work.d.ct = -1 THEN work
  ELSE DecodeBlockAC(DecodeBlockDC(work, scan, blkn), scan, blkn)

DecodeBlockAC(work, scan, blkn) ==
  IF work.d.ct = -1 THEN work
  ELSE decode_mcu(DecodeAC(work, blkn, scan.tbl_no[scan.MCU_membership[blkn]], 1, scan.lim_Se, 0), scan, blkn + 1)

RECURSIVE decode_mcu_DC_first(_, _, _)
decode_mcu_DC_first(work, scan, blkn) ==
  IF blkn > Len(work.mcu) \/ work.d.ct = -1 THEN work
  ELSE decode_mcu_DC_first(DecodeBlockDC(work, scan, blkn), scan, blkn + 1)

decode_mcu_AC_first(work, scan) == DecodeAC(work, 1, scan.tbl_no[1], scan.Ss, scan.Se, scan.Al)

RECURSIVE decode_mcu_DC_refine(_, _, _)
decode_mcu_DC_refine(work, scan, blkn) ==
  LET bit == arith_decode(work.d, fixed_bin)
      p1 == 2^scan.Al
      set(coef) == IF bit.value = 1 /\ (coef \div p1) % 2 = 0 THEN coef + p1 ELSE coef
  IN  IF blkn > Len(work.mcu) THEN work
      ELSE decode_mcu_DC_refine(With(work, bit, blkn, 0, set(work.mcu[blkn][0])), scan, blkn + 1)

\* A coefficient of a refinement scan: a correction bit, or the decision that it is still zero.
Corrected(work, bit, k, p1) ==
  LET coef == work.mcu[1][k]
  IN  With(work, bit, 1, k, IF bit.value = 0 THEN coef ELSE IF coef < 0 THEN coef - p1 ELSE coef + p1)

NewlyNonzero(work, sign, k, p1) == With(work, sign, 1, k, IF sign.value = 1 THEN -p1 ELSE p1)

\* From position k on; atStart says that the end of the block may be there, if it is after kex.
RECURSIVE RefineBand(_, _, _, _, _), RefineCoefficient(_, _, _, _)
RefineBand(work, scan, k, kex, atStart) ==
  LET ended == arith_decode(work.d, ac_stats(scan.tbl_no[1], 3 * (k - 1)))
  IN  IF k > scan.Se THEN IF atStart THEN work ELSE [work EXCEPT !.d = Corrupt(@)]
      ELSE IF ~ (atStart /\ k > kex) THEN RefineCoefficient(work, scan, k, kex)
      ELSE IF ended.value = 1 THEN [work EXCEPT !.d = ended]
      ELSE RefineCoefficient([work EXCEPT !.d = ended], scan, k, kex)

RefineCoefficient(work, scan, k, kex) ==
  LET bit == arith_decode(work.d, ac_stats(scan.tbl_no[1], 3 * (k - 1) + 2))
      nonzero == arith_decode(work.d, ac_stats(scan.tbl_no[1], 3 * (k - 1) + 1))
  IN  IF work.mcu[1][k] # 0 THEN RefineBand(Corrected(work, bit, k, 2^scan.Al), scan, k + 1, kex, TRUE)
      ELSE IF nonzero.value = 0 THEN RefineBand([work EXCEPT !.d = nonzero], scan, k + 1, kex, FALSE)
      ELSE RefineBand(NewlyNonzero(work, arith_decode(nonzero, fixed_bin), k, 2^scan.Al), scan, k + 1, kex, TRUE)

decode_mcu_AC_refine(work, scan) ==
  RefineBand(work, scan, scan.Ss, Max({0} \cup {k \in 1..scan.Se : work.mcu[1][k] # 0}), TRUE)

-----------------------------------------------------------------------------
(* A whole scan. *)

start_interval(d) ==
  [d EXCEPT !.c = 0, !.a = 0, !.ct = -16, !.stats = NoStats,
            !.last_dc_val = [ci \in 1..4 |-> 0], !.dc_context = [ci \in 1..4 |-> 0]]

process_restart(d, scan) ==
  [start_interval(read_restart_marker(d)) EXCEPT !.restarts_to_go = scan.restart_interval]

RestartBeforeMcu(d, scan) ==
  IF scan.restart_interval = 0 THEN d
  ELSE [IF d.restarts_to_go = 0 THEN process_restart(d, scan) ELSE d EXCEPT !.restarts_to_go = @ - 1]

start_pass(scan, bytes, pos, available) ==
  start_interval([bytes |-> bytes, pos |-> pos, available |-> available, suspended |-> FALSE, value |-> 0,
                  unread_marker |-> 0, c |-> 0, a |-> 0, ct |-> 0, stats |-> NoStats,
                  last_dc_val |-> <<>>, dc_context |-> <<>>,
                  restarts_to_go |-> scan.restart_interval, next_restart_num |-> 0])

DecodeMcu(d, scan, mcu) ==
  LET work == [d |-> d, mcu |-> mcu]
  IN  IF scan.progressive /\ scan.Ah > 0 /\ scan.Ss = 0 THEN decode_mcu_DC_refine(work, scan, 1)
      ELSE IF d.ct = -1 THEN work
      ELSE IF ~ scan.progressive THEN decode_mcu(work, scan, 1)
      ELSE IF scan.Ss = 0 THEN decode_mcu_DC_first(work, scan, 1)
      ELSE IF scan.Ah = 0 THEN decode_mcu_AC_first(work, scan)
      ELSE decode_mcu_AC_refine(work, scan)

\* The MCUs of a scan, given what earlier scans left in them; none after a source that suspends.
RECURSIVE DecodeScan(_, _, _, _), AfterMcu(_, _, _, _)
DecodeScan(d, scan, mcus, n) ==
  IF n > Len(mcus) THEN mcus ELSE AfterMcu(DecodeMcu(RestartBeforeMcu(d, scan), scan, mcus[n]), scan, mcus, n)

AfterMcu(work, scan, mcus, n) ==
  IF work.d.suspended THEN [i \in 1..(n - 1) |-> mcus[i]]
  ELSE DecodeScan(work.d, scan, [mcus EXCEPT ![n] = work.mcu], n + 1)
=============================================================================
