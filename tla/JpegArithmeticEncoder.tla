------------------------- MODULE JpegArithmeticEncoder -------------------------
(***************************************************************************)
(* The arithmetic entropy encoder of libjpeg (jcarith.c): the binary       *)
(* decisions an MCU is made of, and the bytes they are coded in.           *)
(*                                                                         *)
(* Blocks and scans are as in JpegHuffmanEncoder.  A decision is           *)
(* <<bin, symbol>>.  The state of the encoder is a record e: the registers *)
(* c and a, the shift counter ct, the byte in buffer (-1: none) and the    *)
(* counts sc and zc of bytes 0xFF and 0x00 that wait behind and before it; *)
(* pending are the decisions that are still to be coded.                   *)
(***************************************************************************)
EXTENDS JpegArithmeticModel

-----------------------------------------------------------------------------
(* Bytes. *)

stuffed(byte) == IF byte = 255 THEN <<255, 0>> ELSE <<byte>>
Zeros(n) == Tabulate(n, LAMBDA i : 0)

\* The byte in the buffer, after the zeros that were pending before it.
EmitBuffer(e, byte) == [e EXCEPT !.out = @ \o Zeros(e.zc) \o stuffed(byte), !.zc = 0]

\* An overflow: it goes through the stacked bytes 0xFF, which become zeros, to the buffer.
Carry(e) ==
  LET emitted == IF e.buffer >= 0 THEN EmitBuffer(e, e.buffer + 1) ELSE e
  IN  [emitted EXCEPT !.zc = @ + e.sc, !.sc = 0]

\* No overflow can reach the buffer and the stacked bytes any more.
Release(e) ==
  LET emitted == IF e.buffer = 0 THEN [e EXCEPT !.zc = @ + 1]
                 ELSE IF e.buffer > 0 THEN EmitBuffer(e, e.buffer) ELSE e
  IN  IF e.sc = 0 THEN emitted
      ELSE [emitted EXCEPT !.out = @ \o Zeros(emitted.zc) \o FlattenSeq(Tabulate(e.sc, LAMBDA i : <<255, 0>>)),
                           !.zc = 0, !.sc = 0]

\* Eight more bits of the code register are ready.
ByteOut(e) ==
  LET temp == e.c \div 2^19
      moved == IF temp > 255 THEN [Carry(e) EXCEPT !.buffer = temp % 256]
               ELSE IF temp = 255 THEN [e EXCEPT !.sc = @ + 1]
               ELSE [Release(e) EXCEPT !.buffer = temp]
  IN  [moved EXCEPT !.c = @ % 2^19, !.ct = @ + 8]

RECURSIVE Renormalize(_)
Renormalize(e) ==
  LET shifted == [e EXCEPT !.a = 2 * @, !.c = 2 * @, !.ct = @ - 1]
      next == IF shifted.ct = 0 THEN ByteOut(shifted) ELSE shifted
  IN  IF next.a < 32768 THEN Renormalize(next) ELSE next

\* Codes a decision: the smaller part of the interval, for either symbol, is the upper one.
Divide(e, bin, val, state, row) ==
  LET qe == row[1]
      a == e.a - qe
      lps == val # state.mps
      upper == IF lps THEN a >= qe ELSE a < qe
      narrowed == IF upper THEN [e EXCEPT !.c = @ + a, !.a = qe] ELSE [e EXCEPT !.a = a]
      estimated == [narrowed EXCEPT !.stats = Updated(@, bin, IF lps THEN Estimate_after_LPS(state, row)
                                                              ELSE Estimate_after_MPS(state, row))]
  IN  IF ~ lps /\ a >= 32768 THEN [e EXCEPT !.a = a] ELSE Renormalize(estimated)

arith_encode(e, bin, val) == LET state == StateOf(e.stats, bin) IN Divide(e, bin, val, state, Row(state))

RECURSIVE CodePending(_)
CodePending(e) ==
  IF e.pending = <<>> THEN e
  ELSE CodePending([arith_encode(e, Head(e.pending)[1], Head(e.pending)[2]) EXCEPT !.pending = Tail(@)])

EncodeDecisions(e, decisions) == CodePending([e EXCEPT !.pending = decisions])

\* The end of a scan or restart interval: of the code values left the one with most trailing
\* zeros is written, without its zero bytes.
finish_pass(e) ==
  LET top == ((e.a - 1 + e.c) \div 65536) * 65536
      c == (IF top < e.c THEN top + 32768 ELSE top) * 2^e.ct
      sent == IF c >= 2^27 THEN Carry(e) ELSE Release(e)
      high == (c \div 2^19) % 256
      low == (c \div 2^11) % 256
  IN  IF high = 0 /\ low = 0 THEN sent
      ELSE [sent EXCEPT !.out = @ \o Zeros(sent.zc) \o stuffed(high)
                                  \o (IF low = 0 THEN <<>> ELSE stuffed(low)),
                        !.zc = 0]

-----------------------------------------------------------------------------
(* The decisions about a coefficient. *)

\* The bits of v below its highest one, from the top; all of them are coded with one bin.
Pattern(v, bin) ==
  LET n == BitLength(v) IN IF v < 2 THEN <<>> ELSE Tabulate(n - 1, LAMBDA i : <<bin, (v \div 2^(n - 1 - i)) % 2>>)

\* A DC difference, and what its statistics are conditioned on.
DcDecisions(tbl, context, diff) ==
  LET sign == IF diff < 0 THEN 1 ELSE 0
      v == Magnitude(diff) - 1
      n == BitLength(v)
      S == context + 2 + sign
      category == IF v = 0 THEN <<<<dc_stats(tbl, S), 0>>>>
                  ELSE <<<<dc_stats(tbl, S), 1>>>>
                         \o Tabulate(n, LAMBDA i : <<dc_stats(tbl, 19 + i), IF i < n THEN 1 ELSE 0>>)
  IN  IF diff = 0 THEN <<<<dc_stats(tbl, context), 0>>>>
      ELSE <<<<dc_stats(tbl, context), 1>>, <<dc_stats(tbl, context + 1), sign>>>> \o category
             \o Pattern(v, dc_stats(tbl, 33 + n))

\* The bins of AC coefficient k: for the end of the block, for a zero, and for its magnitude.
SE(tbl, k) == ac_stats(tbl, 3 * (k - 1))
S0(tbl, k) == ac_stats(tbl, 3 * (k - 1) + 1)
SP(tbl, k) == ac_stats(tbl, 3 * (k - 1) + 2)

AcMagnitude(tbl, k, v) ==
  LET n == BitLength(v)
      category == CASE n = 0 -> <<<<SP(tbl, k), 0>>>>
                    [] n = 1 -> <<<<SP(tbl, k), 1>>, <<SP(tbl, k), 0>>>>
                    [] n > 1 -> <<<<SP(tbl, k), 1>>, <<SP(tbl, k), 1>>>>
                                  \o Tabulate(n - 1, LAMBDA i : <<ac_stats(tbl, X2(k) + i - 1), IF i < n - 1 THEN 1 ELSE 0>>)
  IN  category \o Pattern(v, ac_stats(tbl, X2(k) + n + 12))

\* A coefficient that was zero up to now.
NewCoefficient(tbl, k, coef) ==
  IF coef = 0 THEN <<<<S0(tbl, k), 0>>>>
  ELSE <<<<S0(tbl, k), 1>>, <<fixed_bin, IF coef < 0 THEN 1 ELSE 0>>>>

FirstDecisions(tbl, k, coef) ==
  NewCoefficient(tbl, k, coef) \o IF coef = 0 THEN <<>> ELSE AcMagnitude(tbl, k, Magnitude(coef) - 1)

RefineDecisions(tbl, k, coef) ==
  IF Magnitude(coef) > 1 THEN <<<<SP(tbl, k), Magnitude(coef) % 2>>>> ELSE NewCoefficient(tbl, k, coef)

\* The last coefficient that is not zero at a precision of Al.
EndOfBlock(block, Se, Al) == Max({0} \cup {k \in 1..Se : PointTransform(block[k], Al) # 0})

\* A band: whether the block ends is decided at its start and after each coefficient that is not
\* zero, where it is not known (after kex); then come the decisions of the coefficient itself.
BandDecisions(tbl, block, Ss, Se, Al, kex, refine) ==
  LET ke == EndOfBlock(block, Se, Al)
      coef(k) == PointTransform(block[k], Al)
      decisions(k) == IF refine THEN RefineDecisions(tbl, k, coef(k)) ELSE FirstDecisions(tbl, k, coef(k))
      eob(k) == IF k > kex /\ (k = Ss \/ coef(k - 1) # 0) THEN <<<<SE(tbl, k), 0>>>> ELSE <<>>
      next == Max({Ss, ke + 1})
  IN  FlattenSeq(Tabulate(Max({0, ke - Ss + 1}), LAMBDA i : eob(Ss + i - 1) \o decisions(Ss + i - 1)))
        \o IF next <= Se THEN <<<<SE(tbl, next), 1>>>> ELSE <<>>

-----------------------------------------------------------------------------
(* MCUs. *)

start_interval(e) ==
  [e EXCEPT !.c = 0, !.a = 65536, !.sc = 0, !.zc = 0, !.ct = 11, !.buffer = -1, !.stats = NoStats,
            !.last_dc_val = [ci \in 1..4 |-> 0], !.dc_context = [ci \in 1..4 |-> 0]]

emit_restart(e) ==
  start_interval([finish_pass(e) EXCEPT !.out = @ \o <<255, RST0 + e.next_restart_num>>])

RestartBeforeMcu(e, scan) ==
  IF scan.restart_interval = 0 THEN e
  ELSE IF e.restarts_to_go = 0
       THEN [emit_restart(e) EXCEPT !.restarts_to_go = scan.restart_interval - 1, !.next_restart_num = (@ + 1) % 8]
  ELSE [e EXCEPT !.restarts_to_go = @ - 1]

\* The DC coefficient of a block, at a precision of Al.
EncodeDC(e, scan, block, ci) ==
  LET value == block[0] \div 2^scan.Al
      diff == value - e.last_dc_val[ci]
      v == Magnitude(diff) - 1
      m == IF v = 0 THEN 0 ELSE 2^(BitLength(v) - 1)
      coded == EncodeDecisions(e, DcDecisions(scan.tbl_no[ci], e.dc_context[ci], diff))
  IN  [coded EXCEPT !.last_dc_val[ci] = value,
                    !.dc_context[ci] = IF diff = 0 THEN 0 ELSE DcContext(m, IF diff < 0 THEN 1 ELSE 0)]

RECURSIVE encode_mcu_DC_first(_, _, _, _)
encode_mcu_DC_first(e, scan, mcu, blkn) ==
  IF blkn > Len(mcu) THEN e
  ELSE encode_mcu_DC_first(EncodeDC(e, scan, mcu[blkn], scan.MCU_membership[blkn]), scan, mcu, blkn + 1)

encode_mcu_DC_refine(e, scan, mcu) ==
  EncodeDecisions(e, Tabulate(Len(mcu), LAMBDA blkn : <<fixed_bin, (mcu[blkn][0] \div 2^scan.Al) % 2>>))

encode_mcu_AC_first(e, scan, mcu) ==
  EncodeDecisions(e, BandDecisions(scan.tbl_no[1], mcu[1], scan.Ss, scan.Se, scan.Al, 0, FALSE))

encode_mcu_AC_refine(e, scan, mcu) ==
  LET kex == EndOfBlock(mcu[1], EndOfBlock(mcu[1], scan.Se, scan.Al), scan.Ah)
  IN  EncodeDecisions(e, BandDecisions(scan.tbl_no[1], mcu[1], scan.Ss, scan.Se, scan.Al, kex, TRUE))

RECURSIVE encode_mcu(_, _, _, _)
encode_mcu(e, scan, mcu, blkn) ==
  LET ci == scan.MCU_membership[blkn]
      dc == EncodeDC(e, scan, mcu[blkn], ci)
      ac == BandDecisions(scan.tbl_no[ci], mcu[blkn], 1, scan.lim_Se, 0, 0, FALSE)
  IN  IF blkn > Len(mcu) THEN e ELSE encode_mcu(EncodeDecisions(dc, ac), scan, mcu, blkn + 1)

-----------------------------------------------------------------------------
(* A whole pass. *)

start_pass(scan) ==
  start_interval([c |-> 0, a |-> 0, sc |-> 0, zc |-> 0, ct |-> 0, buffer |-> 0, out |-> <<>>, pending |-> <<>>,
                  stats |-> NoStats, last_dc_val |-> <<>>, dc_context |-> <<>>,
                  restarts_to_go |-> scan.restart_interval, next_restart_num |-> 0])

EncodeMcu(e, scan, mcu) ==
  CASE ~ scan.progressive -> encode_mcu(e, scan, mcu, 1)
    [] scan.progressive /\ scan.Ah = 0 /\ scan.Ss = 0 -> encode_mcu_DC_first(e, scan, mcu, 1)
    [] scan.progressive /\ scan.Ah = 0 /\ scan.Ss > 0 -> encode_mcu_AC_first(e, scan, mcu)
    [] scan.progressive /\ scan.Ah > 0 /\ scan.Ss = 0 -> encode_mcu_DC_refine(e, scan, mcu)
    [] scan.progressive /\ scan.Ah > 0 /\ scan.Ss > 0 -> encode_mcu_AC_refine(e, scan, mcu)

RECURSIVE EncodeFrom(_, _, _)
EncodeFrom(e, scan, mcus) ==
  IF mcus = <<>> THEN e
  ELSE EncodeFrom(EncodeMcu(RestartBeforeMcu(e, scan), scan, Head(mcus)), scan, Tail(mcus))

\* The bytes of a scan; no statistics are gathered for it.
EncodeScan(scan, mcus) == finish_pass(EncodeFrom(start_pass(scan), scan, mcus)).out
=============================================================================
