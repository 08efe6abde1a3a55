-------------------------- MODULE JpegInverseDct --------------------------
(***************************************************************************)
(* The inverse DCT of libjpeg (jidctint.c, jidctfst.c, jddctmgr.c): a      *)
(* block of 8x8 coefficients becomes a block of w x h samples, for the 31  *)
(* sizes the decoder may choose.                                           *)
(*                                                                         *)
(* Every routine runs a one-dimensional kernel over the columns, keeps     *)
(* PASS1_BITS extra bits, and runs a kernel over the rows.  A kernel       *)
(* multiplies by constants scaled by 2^13 and drops no bit before its last *)
(* shift, so both passes of a routine, and routines that share a size,     *)
(* share a kernel.  A constant c stands for FIX(c / 2^13); a variable the  *)
(* code assigns again gets a letter (tmp0, tmp0a, tmp0b).                  *)
(***************************************************************************)
EXTENDS JpegCommon

\* DESCALE by n bits, for divisor = 2^n: an arithmetic shift that rounds.
Descale(x, divisor) == (x + divisor \div 2) \div divisor

\* Mutant of RangeLimit: the sample is centred but not limited.
RangeLimitMissing(x) == (x + 128) % 256

\* range_limit[x & RANGE_MASK]: samples are centred at 128; beyond ten bits the mask wraps.
RangeLimit(x) ==
  LET masked == x % 1024
  IN  IF masked < 128 THEN masked + 128
      ELSE IF masked < 512 THEN 255
      ELSE IF masked < 896 THEN 0
      ELSE masked - 896

\* The final output stage of every kernel: sums first, differences mirrored, and for an
\* odd size the middle sample has no odd part.
Outputs(even, odd) ==
  LET size == Len(even) + Len(odd)
  IN  Tabulate(size, LAMBDA i : IF i <= Len(odd) THEN even[i] + odd[i]
                               ELSE IF i <= Len(even) THEN even[i]
                               ELSE even[size + 1 - i] - odd[size + 1 - i])

-----------------------------------------------------------------------------
(* The kernels: y[0..7] are coefficients, the result is scaled by 2^13. *)

Kernel1(y) == <<8192 * y[0]>>

Kernel2(y) == Outputs(<<8192 * y[0]>>, <<8192 * y[1]>>)

Kernel3(y) ==
  LET tmp0 == 8192 * y[0]
      tmp12 == 5793 * y[2]
      tmp10 == tmp0 + tmp12
      tmp2 == tmp0 - tmp12 - tmp12
      tmp0a == 10033 * y[1]
  IN  Outputs(<<tmp10, tmp2>>, <<tmp0a>>)

Kernel4(y) ==
  LET tmp10 == 8192 * (y[0] + y[2])
      tmp12 == 8192 * (y[0] - y[2])
      z1 == 4433 * (y[1] + y[3])
      tmp0 == z1 + 6270 * y[1]
      tmp2 == z1 - 15137 * y[3]
  IN  Outputs(<<tmp10, tmp12>>, <<tmp0, tmp2>>)

Kernel5(y) ==
  LET tmp12 == 8192 * y[0]
      z1 == 6476 * (y[2] + y[4])
      z2 == 2896 * (y[2] - y[4])
      z3 == tmp12 + z2
      tmp10 == z3 + z1
      tmp11 == z3 - z1
      tmp12a == tmp12 - 4 * z2
      z1a == 6810 * (y[1] + y[3])
      tmp0 == z1a + 4209 * y[1]
      tmp1 == z1a - 17828 * y[3]
  IN  Outputs(<<tmp10, tmp11, tmp12a>>, <<tmp0, tmp1>>)

Kernel6(y) ==
  LET tmp0 == 8192 * y[0]
      tmp10 == 5793 * y[4]
      tmp1 == tmp0 + tmp10
      tmp11 == tmp0 - tmp10 - tmp10
      tmp0a == 10033 * y[2]
      tmp10a == tmp1 + tmp0a
      tmp12 == tmp1 - tmp0a
      tmp1a == 2998 * (y[1] + y[5])
      tmp0b == tmp1a + 8192 * (y[1] + y[3])
      tmp2 == tmp1a + 8192 * (y[5] - y[3])
      tmp1b == 8192 * (y[1] - y[3] - y[5])
  IN  Outputs(<<tmp10a, tmp11, tmp12>>, <<tmp0b, tmp1b, tmp2>>)

Kernel7(y) ==
  LET tmp13 == 8192 * y[0]
      tmp10 == 7223 * (y[4] - y[6])
      tmp12 == 2578 * (y[2] - y[4])
      tmp11 == tmp10 + tmp12 + tmp13 - 15083 * y[4]
      tmp0 == y[2] + y[6]
      tmp0a == 10438 * tmp0 + tmp13
      tmp10a == tmp10 + tmp0a - 637 * y[6]
      tmp12a == tmp12 + tmp0a - 20239 * y[2]
      tmp13a == tmp13 + 11585 * (y[4] - tmp0)
      tmp1 == 7663 * (y[1] + y[3])
      tmp2 == 1395 * (y[1] - y[3])
      tmp2a == -11295 * (y[3] + y[5])
      tmp1b == tmp1 + tmp2 + tmp2a
      z2a == 5027 * (y[1] + y[5])
      tmp0c == tmp1 - tmp2 + z2a
      tmp2b == tmp2a + z2a + 15326 * y[5]
  IN  Outputs(<<tmp10a, tmp11, tmp12a, tmp13a>>, <<tmp0c, tmp1b, tmp2b>>)

Kernel8(y) ==
  LET z1 == 4433 * (y[2] + y[6])
      tmp2 == z1 + 6270 * y[2]
      tmp3 == z1 - 15137 * y[6]
      tmp0 == 8192 * (y[0] + y[4])
      tmp1 == 8192 * (y[0] - y[4])
      tmp10 == tmp0 + tmp2
      tmp13 == tmp0 - tmp2
      tmp11 == tmp1 + tmp3
      tmp12 == tmp1 - tmp3
      z2 == y[7] + y[3]
      z3 == y[5] + y[1]
      z1a == 9633 * (z2 + z3)
      z2b == z1a - 16069 * z2
      z3b == z1a - 3196 * z3
      z1b == -7373 * (y[7] + y[1])
      tmp0b == 2446 * y[7] + z1b + z2b
      tmp3b == 12299 * y[1] + z1b + z3b
      z1c == -20995 * (y[5] + y[3])
      tmp1b == 16819 * y[5] + z1c + z3b
      tmp2b == 25172 * y[3] + z1c + z2b
  IN  Outputs(<<tmp10, tmp11, tmp12, tmp13>>, <<tmp3b, tmp2b, tmp1b, tmp0b>>)

Kernel9(y) ==
  LET tmp0 == 8192 * y[0]
      tmp3 == 5793 * y[6]
      tmp1 == tmp0 + tmp3
      tmp2 == tmp0 - tmp3 - tmp3
      tmp0a == 5793 * (y[2] - y[4])
      tmp11 == tmp2 + tmp0a
      tmp14 == tmp2 - tmp0a - tmp0a
      tmp0b == 10887 * (y[2] + y[4])
      tmp2a == 8875 * y[2]
      tmp3a == 2012 * y[4]
      tmp10 == tmp1 + tmp0b - tmp3a
      tmp12 == tmp1 - tmp0b + tmp2a
      tmp13 == tmp1 - tmp2a + tmp3a
      z2 == -10033 * y[3]
      tmp2b == 7447 * (y[1] + y[5])
      tmp3b == 3962 * (y[1] + y[7])
      tmp0c == tmp2b + tmp3b - z2
      tmp1a == 11409 * (y[5] - y[7])
      tmp2c == tmp2b + z2 - tmp1a
      tmp3c == tmp3b + z2 + tmp1a
      tmp1b == 10033 * (y[1] - y[5] - y[7])
  IN  Outputs(<<tmp10, tmp11, tmp12, tmp13, tmp14>>, <<tmp0c, tmp1b, tmp2c, tmp3c>>)

Kernel10(y) ==
  LET z3 == 8192 * y[0]
      z1 == 9373 * y[4]
      z2 == 3580 * y[4]
      tmp10 == z3 + z1
      tmp11 == z3 - z2
      tmp22 == z3 - 2 * (z1 - z2)
      z1a == 6810 * (y[2] + y[6])
      tmp12 == z1a + 4209 * y[2]
      tmp13 == z1a - 17828 * y[6]
      tmp20 == tmp10 + tmp12
      tmp24 == tmp10 - tmp12
      tmp21 == tmp11 + tmp13
      tmp23 == tmp11 - tmp13
      z3a == 8192 * y[5]
      tmp11a == y[3] + y[7]
      tmp13a == y[3] - y[7]
      tmp12a == 2531 * tmp13a
      z2a == 7791 * tmp11a
      z4 == z3a + tmp12a
      tmp10a == 11443 * y[1] + z2a + z4
      tmp14 == 1812 * y[1] - z2a + z4
      z2b == 4815 * tmp11a
      z4a == z3a - tmp12a - 4096 * tmp13a
      tmp12b == 8192 * (y[1] - tmp13a) - z3a
      tmp11b == 10323 * y[1] - z2b - z4a
      tmp13b == 5260 * y[1] - z2b + z4a
  IN  Outputs(<<tmp20, tmp21, tmp22, tmp23, tmp24>>, <<tmp10a, tmp11b, tmp12b, tmp13b, tmp14>>)

Kernel11(y) ==
  LET tmp10 == 8192 * y[0]
      tmp20 == 20862 * (y[4] - y[6])
      tmp23 == 3529 * (y[4] - y[2])
      z4 == y[2] + y[6]
      z4a == z4 - y[4]
      tmp25 == tmp10 + 11116 * z4a
      tmp21 == tmp20 + tmp23 + tmp25 - 14924 * y[4]
      tmp20a == tmp20 + tmp25 + 17333 * y[6]
      tmp23a == tmp23 + tmp25 - 12399 * y[2]
      tmp24a == tmp25 - 9467 * z4
      tmp22 == tmp24a - 6461 * y[6]
      tmp24b == tmp24a + 15929 * y[4] - 11395 * y[2]
      tmp25a == tmp10 - 11585 * z4a
      tmp11 == y[1] + y[3]
      tmp14 == 3264 * (tmp11 + y[5] + y[7])
      tmp11a == 7274 * tmp11
      tmp12 == 5492 * (y[1] + y[5])
      tmp13 == tmp14 + 3000 * (y[1] + y[7])
      tmp10a == tmp11a + tmp12 + tmp13 - 7562 * y[1]
      z1 == tmp14 - 9527 * (y[3] + y[5])
      tmp12a == tmp12 + z1 - 9766 * y[5]
      z1a == -14731 * (y[3] + y[7])
      tmp11c == tmp11a + z1 + 16984 * y[3] + z1a
      tmp13a == tmp13 + z1a + 17223 * y[7]
      tmp14a == tmp14 + 8203 * y[5] - 12019 * y[3] - 13802 * y[7]
  IN  Outputs(<<tmp20a, tmp21, tmp22, tmp23a, tmp24b, tmp25a>>, <<tmp10a, tmp11c, tmp12a, tmp13a, tmp14a>>)

Kernel12(y) ==
  LET z3 == 8192 * y[0]
      z4 == 10033 * y[4]
      tmp10 == z3 + z4
      tmp11 == z3 - z4
      z4a == 11190 * y[2]
      z1 == 8192 * y[2]
      z2 == 8192 * y[6]
      tmp12 == z1 - z2
      tmp21 == z3 + tmp12
      tmp24 == z3 - tmp12
      tmp12a == z4a + z2
      tmp20 == tmp10 + tmp12a
      tmp25 == tmp10 - tmp12a
      tmp12b == z4a - z1 - z2
      tmp22 == tmp11 + tmp12b
      tmp23 == tmp11 - tmp12b
      tmp11a == 10703 * y[3]
      tmp14 == -4433 * y[3]
      tmp10a == y[1] + y[5]
      tmp15 == 7053 * (tmp10a + y[7])
      tmp12c == tmp15 + 2139 * tmp10a
      tmp10b == tmp12c + tmp11a + 2295 * y[1]
      tmp13 == -8565 * (y[5] + y[7])
      tmp12d == tmp12c + tmp13 + tmp14 - 12112 * y[5]
      tmp13a == tmp13 + tmp15 - tmp11a + 12998 * y[7]
      tmp15a == tmp15 + tmp14 - 5540 * y[1] - 16244 * y[7]
      z1a == y[1] - y[7]
      z2a == y[3] - y[5]
      z3a == 4433 * (z1a + z2a)
      tmp11b == z3a + 6270 * z1a
      tmp14a == z3a - 15137 * z2a
  IN  Outputs(<<tmp20, tmp21, tmp22, tmp23, tmp24, tmp25>>, <<tmp10b, tmp11b, tmp12d, tmp13a, tmp14a, tmp15a>>)

Kernel13(y) ==
  LET z1 == 8192 * y[0]
      tmp10 == y[4] + y[6]
      tmp11 == y[4] - y[6]
      tmp12 == 9465 * tmp10
      tmp13 == 793 * tmp11 + z1
      tmp20 == 11249 * y[2] + tmp12 + tmp13
      tmp22 == 4108 * y[2] - tmp12 + tmp13
      tmp12a == 2592 * tmp10
      tmp13a == 3989 * tmp11 + z1
      tmp21 == 8672 * y[2] - tmp12a + tmp13a
      tmp25 == tmp12a - 10258 * y[2] + tmp13a
      tmp12b == 3570 * tmp10
      tmp13b == 7678 * tmp11 - z1
      tmp23 == -1396 * y[2] - tmp12b - tmp13b
      tmp24 == tmp12b - 6581 * y[2] - tmp13b
      tmp26 == 11585 * (tmp11 - y[2]) + z1
      tmp11a == 10832 * (y[1] + y[3])
      tmp12c == 9534 * (y[1] + y[5])
      tmp15 == y[1] + y[7]
      tmp13c == 7682 * tmp15
      tmp10a == tmp11a + tmp12c + tmp13c - 16549 * y[1]
      tmp14 == -2773 * (y[3] + y[5])
      tmp14a == -9534 * (y[3] + y[7])
      tmp11c == tmp11a + tmp14 + 6859 * y[3] + tmp14a
      tmp14b == -5384 * (y[5] + y[7])
      tmp12e == tmp12c + tmp14 - 12879 * y[5] + tmp14b
      tmp13e == tmp13c + tmp14a + 18068 * y[7] + tmp14b
      tmp15a == 2773 * tmp15
      z1a == 7682 * (y[5] - y[3])
      tmp14d == tmp15a + 2611 * y[1] - 3818 * y[3] + z1a
      tmp15b == tmp15a + z1a + 3150 * y[5] - 14273 * y[7]
  IN  Outputs(<<tmp20, tmp21, tmp22, tmp23, tmp24, tmp25, tmp26>>, <<tmp10a, tmp11c, tmp12e, tmp13e, tmp14d, tmp15b>>)

Kernel14(y) ==
  LET z1 == 8192 * y[0]
      z2 == 10438 * y[4]
      z3 == 2578 * y[4]
      z4 == 7223 * y[4]
      tmp10 == z1 + z2
      tmp11 == z1 + z3
      tmp12 == z1 - z4
      tmp23 == z1 - 2 * (z2 + z3 - z4)
      z3a == 9058 * (y[2] + y[6])
      tmp13 == z3a + 2237 * y[2]
      tmp14 == z3a - 14084 * y[6]
      tmp15 == 5027 * y[2] - 11295 * y[6]
      tmp20 == tmp10 + tmp13
      tmp26 == tmp10 - tmp13
      tmp21 == tmp11 + tmp14
      tmp25 == tmp11 - tmp14
      tmp22 == tmp12 + tmp15
      tmp24 == tmp12 - tmp15
      z4a == 8192 * y[7]
      tmp14a == y[1] + y[5]
      tmp11a == 10935 * (y[1] + y[3])
      tmp12a == 9810 * tmp14a
      tmp10a == tmp11a + tmp12a + z4a - 9232 * y[1]
      tmp14b == 6164 * tmp14a
      z1a == y[1] - y[3]
      tmp15a == 3826 * z1a - z4a
      tmp16a == tmp14b - 8693 * y[1] + tmp15a
      tmp13a == -1297 * (y[3] + y[5]) - z4a
      tmp11b == tmp11a + tmp13a - 3474 * y[3]
      tmp12b == tmp12a + tmp13a - 19447 * y[5]
      tmp13b == 11512 * (y[5] - y[3])
      tmp14c == tmp14b + tmp13b + z4a - 13850 * y[5]
      tmp15b == tmp15a + tmp13b + 5529 * y[3]
      tmp13c == 8192 * (z1a - y[5]) + z4a
  IN  Outputs(<<tmp20, tmp21, tmp22, tmp23, tmp24, tmp25, tmp26>>, <<tmp10a, tmp11b, tmp12b, tmp13c, tmp14c, tmp15b, tmp16a>>)

Kernel15(y) ==
  LET z1 == 8192 * y[0]
      tmp10 == 3580 * y[6]
      tmp11 == 9373 * y[6]
      tmp12 == z1 - tmp10
      tmp13 == z1 + tmp11
      z1a == z1 - 2 * (tmp11 - tmp10)
      z4 == y[2] - y[4]
      z3 == y[4] + y[2]
      tmp10a == 10958 * z3
      tmp11a == 374 * z4
      z2 == 11795 * y[2]
      tmp20 == tmp13 + tmp10a + tmp11a
      tmp23 == tmp12 - tmp10a + tmp11a + z2
      tmp10b == 4482 * z3
      tmp11b == 3271 * z4
      tmp25 == tmp13 - tmp10b - tmp11b
      tmp26 == tmp12 + tmp10b - tmp11b - z2
      tmp10c == 6476 * z3
      tmp11c == 2896 * z4
      tmp21 == tmp12 + tmp10c + tmp11c
      tmp24 == tmp13 - tmp10c + tmp11c
      tmp11d == tmp11c + tmp11c
      tmp22 == z1a + tmp11d
      tmp27 == z1a - tmp11d - tmp11d
      z3a == 10033 * y[5]
      tmp13a == y[3] - y[7]
      tmp15 == 6810 * (y[1] + tmp13a)
      tmp11e == tmp15 + 4209 * y[1]
      tmp14 == tmp15 - 17828 * tmp13a
      tmp13b == -6810 * y[3]
      tmp15a == -11018 * y[3]
      z2a == y[1] - y[7]
      tmp12a == z3a + 11522 * z2a
      tmp10d == tmp12a + 20131 * y[7] - tmp15a
      tmp16 == tmp12a - 9113 * y[1] + tmp13b
      tmp12b == 10033 * z2a - z3a
      z2b == 4712 * (y[1] + y[7])
      tmp13c == tmp13b + z2b + 3897 * y[1] - z3a
      tmp15b == tmp15a + z2b - 7121 * y[7] + z3a
  IN  Outputs(<<tmp20, tmp21, tmp22, tmp23, tmp24, tmp25, tmp26, tmp27>>, <<tmp10d, tmp11e, tmp12b, tmp13c, tmp14, tmp15b, tmp16>>)

Kernel16(y) ==
  LET tmp0 == 8192 * y[0]
      tmp1 == 10703 * y[4]
      tmp2 == 4433 * y[4]
      tmp10 == tmp0 + tmp1
      tmp11 == tmp0 - tmp1
      tmp12 == tmp0 + tmp2
      tmp13 == tmp0 - tmp2
      z3 == y[2] - y[6]
      z4 == 2260 * z3
      z3a == 11363 * z3
      tmp0a == z3a + 20995 * y[6]
      tmp1a == z4 + 7373 * y[2]
      tmp2a == z3a - 4926 * y[2]
      tmp3 == z4 - 4176 * y[6]
      tmp20 == tmp10 + tmp0a
      tmp27 == tmp10 - tmp0a
      tmp21 == tmp12 + tmp1a
      tmp26 == tmp12 - tmp1a
      tmp22 == tmp13 + tmp2a
      tmp25 == tmp13 - tmp2a
      tmp23 == tmp11 + tmp3
      tmp24 == tmp11 - tmp3
      tmp11a == y[1] + y[5]
      tmp1b == 11086 * (y[1] + y[3])
      tmp2b == 10217 * tmp11a
      tmp3a == 8956 * (y[1] + y[7])
      tmp10a == 7350 * (y[1] - y[7])
      tmp11b == 5461 * tmp11a
      tmp12a == 3363 * (y[1] - y[3])
      tmp0b == tmp1b + tmp2b + tmp3a - 18730 * y[1]
      tmp13a == tmp10a + tmp11b + tmp12a - 15038 * y[1]
      z1 == 1136 * (y[3] + y[5])
      z1a == 11529 * (y[5] - y[3])
      z2 == y[3] + y[7]
      z1b == -5461 * z2
      tmp1d == tmp1b + z1 + 589 * y[3] + z1b
      z2a == -10217 * z2
      tmp12c == tmp12a + z1a + 16154 * y[3] + z2a
      z2b == -11086 * (y[5] + y[7])
      tmp2d == tmp2b + z1 - 9222 * y[5] + z2b
      tmp3c == tmp3a + z1b + 8728 * y[7] + z2b
      z2c == 3363 * (y[7] - y[5])
      tmp10c == tmp10a + z2a + 25733 * y[7] + z2c
      tmp11d == tmp11b + z1a - 6278 * y[5] + z2c
  IN  Outputs(<<tmp20, tmp21, tmp22, tmp23, tmp24, tmp25, tmp26, tmp27>>, <<tmp0b, tmp1d, tmp2d, tmp3c, tmp10c, tmp11d, tmp12c, tmp13a>>)

\* The islow kernel skips the arithmetic for a column or row whose AC terms are all zero.
Kernel8OrFlat(y) ==
  IF \A k \in 1..7 : y[k] = 0 THEN Tabulate(8, LAMBDA i : 8192 * y[0]) ELSE Kernel8(y)

-----------------------------------------------------------------------------
(* The routines.  coef and quant are indexed 0..63, row by row. *)

\* columns of the input are transformed by OnColumns, then the rows by OnRows.
Transform(coef, quant, columns, OnColumns(_), OnRows(_)) ==
  LET column(c) == LET y == OnColumns([k \in 0..7 |-> coef[8 * k + c] * quant[8 * k + c]])
                   IN  Tabulate(Len(y), LAMBDA i : Descale(y[i], 2048))
      workspace == Tabulate(columns, LAMBDA c : column(c - 1))
      row(r) == LET x == OnRows([k \in 0..(columns - 1) |-> workspace[k + 1][r]])
                IN  Tabulate(Len(x), LAMBDA i : RangeLimit(Descale(x[i], 262144)))
  IN  Tabulate(Len(workspace[1]), row)

jpeg_idct_islow(coef, quant) == Transform(coef, quant, 8, Kernel8OrFlat, Kernel8OrFlat)
jpeg_idct_7x7(coef, quant) == Transform(coef, quant, 7, Kernel7, Kernel7)
jpeg_idct_6x6(coef, quant) == Transform(coef, quant, 6, Kernel6, Kernel6)
jpeg_idct_5x5(coef, quant) == Transform(coef, quant, 5, Kernel5, Kernel5)
jpeg_idct_4x4(coef, quant) == Transform(coef, quant, 4, Kernel4, Kernel4)
jpeg_idct_3x3(coef, quant) == Transform(coef, quant, 3, Kernel3, Kernel3)
jpeg_idct_2x2(coef, quant) == Transform(coef, quant, 2, Kernel2, Kernel2)
jpeg_idct_1x1(coef, quant) == Transform(coef, quant, 1, Kernel1, Kernel1)
jpeg_idct_9x9(coef, quant) == Transform(coef, quant, 8, Kernel9, Kernel9)
jpeg_idct_10x10(coef, quant) == Transform(coef, quant, 8, Kernel10, Kernel10)
jpeg_idct_11x11(coef, quant) == Transform(coef, quant, 8, Kernel11, Kernel11)
jpeg_idct_12x12(coef, quant) == Transform(coef, quant, 8, Kernel12, Kernel12)
jpeg_idct_13x13(coef, quant) == Transform(coef, quant, 8, Kernel13, Kernel13)
jpeg_idct_14x14(coef, quant) == Transform(coef, quant, 8, Kernel14, Kernel14)
jpeg_idct_15x15(coef, quant) == Transform(coef, quant, 8, Kernel15, Kernel15)
jpeg_idct_16x16(coef, quant) == Transform(coef, quant, 8, Kernel16, Kernel16)
jpeg_idct_16x8(coef, quant) == Transform(coef, quant, 8, Kernel8OrFlat, Kernel16)
jpeg_idct_14x7(coef, quant) == Transform(coef, quant, 8, Kernel7, Kernel14)
jpeg_idct_12x6(coef, quant) == Transform(coef, quant, 8, Kernel6, Kernel12)
jpeg_idct_10x5(coef, quant) == Transform(coef, quant, 8, Kernel5, Kernel10)
jpeg_idct_8x4(coef, quant) == Transform(coef, quant, 8, Kernel4, Kernel8)
jpeg_idct_6x3(coef, quant) == Transform(coef, quant, 6, Kernel3, Kernel6)
jpeg_idct_4x2(coef, quant) == Transform(coef, quant, 4, Kernel2, Kernel4)
jpeg_idct_2x1(coef, quant) == Transform(coef, quant, 2, Kernel1, Kernel2)
jpeg_idct_8x16(coef, quant) == Transform(coef, quant, 8, Kernel16, Kernel8)
jpeg_idct_7x14(coef, quant) == Transform(coef, quant, 7, Kernel14, Kernel7)
jpeg_idct_6x12(coef, quant) == Transform(coef, quant, 6, Kernel12, Kernel6)
jpeg_idct_5x10(coef, quant) == Transform(coef, quant, 5, Kernel10, Kernel5)
jpeg_idct_4x8(coef, quant) == Transform(coef, quant, 4, Kernel8OrFlat, Kernel4)
jpeg_idct_3x6(coef, quant) == Transform(coef, quant, 3, Kernel6, Kernel3)
jpeg_idct_2x4(coef, quant) == Transform(coef, quant, 2, Kernel4, Kernel2)
jpeg_idct_1x2(coef, quant) == Transform(coef, quant, 1, Kernel2, Kernel1)

\* jidctfst.c keeps 8 bits of each constant and shifts every product at once, rounding down:
\* in 32 bits a product and its shift are exact.
Times(x, c) == (x * c) \div 256

KernelFast(y) ==
  IF \A k \in 1..7 : y[k] = 0 THEN Tabulate(8, LAMBDA i : y[0])
  ELSE LET tmp10 == y[0] + y[4]
           tmp11 == y[0] - y[4]
           tmp13 == y[2] + y[6]
           tmp12 == Times(y[2] - y[6], 362) - tmp13
           z13 == y[5] + y[3]
           z10 == y[5] - y[3]
           z11 == y[1] + y[7]
           z12 == y[1] - y[7]
           tmp7 == z11 + z13
           z5 == Times(z10 + z12, 473)
           tmp6 == Times(z10, -669) + z5 - tmp7
           tmp5 == Times(z11 - z13, 362) - tmp6
           tmp4 == Times(z12, 277) - z5 + tmp5
       IN  Outputs(<<tmp10 + tmp13, tmp11 + tmp12, tmp11 - tmp12, tmp10 - tmp13>>,
                   <<tmp7, tmp6, tmp5, -tmp4>>)

jpeg_idct_ifast(coef, quant) ==
  LET workspace == Tabulate(8, LAMBDA c : KernelFast([k \in 0..7 |->
                                            coef[8 * k + c - 1] * quant[8 * k + c - 1]]))
      row(r) == LET x == KernelFast([k \in 0..7 |-> workspace[k + 1][r]])
                IN  Tabulate(8, LAMBDA i : RangeLimit(x[i] \div 32))
  IN  Tabulate(8, row)

-----------------------------------------------------------------------------
(* jddctmgr.c: which routine, with which multipliers. *)

aanscales ==
  << 16384, 22725, 21407, 19266, 16384, 12873,  8867,  4520,
     22725, 31521, 29692, 26722, 22725, 17855, 12299,  6270,
     21407, 29692, 27969, 25172, 21407, 16819, 11585,  5906,
     19266, 26722, 25172, 22654, 19266, 15137, 10426,  5315,
     16384, 22725, 21407, 19266, 16384, 12873,  8867,  4520,
     12873, 17855, 16819, 15137, 12873, 10114,  6967,  3552,
      8867, 12299, 11585, 10426,  8867,  6967,  4799,  2446,
      4520,  6270,  5906,  5315,  4520,  3552,  2446,  1247 >>

\* The multiplier table of the fast method carries the scale factors of the AA&N algorithm
\* and two fractional bits; every other table is the quantization table itself.
Multipliers(quantval, fast) ==
  IF fast THEN [k \in 0..63 |-> Descale(quantval[k] * aanscales[k + 1], 4096)] ELSE quantval

\* The fast method exists for 8x8 blocks only: a component the decoder scales is transformed
\* by jidctint.c whatever dct_method says.
UsesFast(w, h, dct_method) == w = 8 /\ h = 8 /\ dct_method = "JDCT_IFAST"

inverse_DCT(w, h, dct_method, coef, quantval) ==
  LET quant == Multipliers(quantval, UsesFast(w, h, dct_method))
  IN  CASE w = 8 /\ h = 8 -> IF UsesFast(w, h, dct_method) THEN jpeg_idct_ifast(coef, quant)
                                                         ELSE jpeg_idct_islow(coef, quant)
        [] w = 1 /\ h = 1 -> jpeg_idct_1x1(coef, quant)
        [] w = 2 /\ h = 2 -> jpeg_idct_2x2(coef, quant)
        [] w = 3 /\ h = 3 -> jpeg_idct_3x3(coef, quant)
        [] w = 4 /\ h = 4 -> jpeg_idct_4x4(coef, quant)
        [] w = 5 /\ h = 5 -> jpeg_idct_5x5(coef, quant)
        [] w = 6 /\ h = 6 -> jpeg_idct_6x6(coef, quant)
        [] w = 7 /\ h = 7 -> jpeg_idct_7x7(coef, quant)
        [] w = 9 /\ h = 9 -> jpeg_idct_9x9(coef, quant)
        [] w = 10 /\ h = 10 -> jpeg_idct_10x10(coef, quant)
        [] w = 11 /\ h = 11 -> jpeg_idct_11x11(coef, quant)
        [] w = 12 /\ h = 12 -> jpeg_idct_12x12(coef, quant)
        [] w = 13 /\ h = 13 -> jpeg_idct_13x13(coef, quant)
        [] w = 14 /\ h = 14 -> jpeg_idct_14x14(coef, quant)
        [] w = 15 /\ h = 15 -> jpeg_idct_15x15(coef, quant)
        [] w = 16 /\ h = 16 -> jpeg_idct_16x16(coef, quant)
        [] w = 16 /\ h = 8 -> jpeg_idct_16x8(coef, quant)
        [] w = 14 /\ h = 7 -> jpeg_idct_14x7(coef, quant)
        [] w = 12 /\ h = 6 -> jpeg_idct_12x6(coef, quant)
        [] w = 10 /\ h = 5 -> jpeg_idct_10x5(coef, quant)
        [] w = 8 /\ h = 4 -> jpeg_idct_8x4(coef, quant)
        [] w = 6 /\ h = 3 -> jpeg_idct_6x3(coef, quant)
        [] w = 4 /\ h = 2 -> jpeg_idct_4x2(coef, quant)
        [] w = 2 /\ h = 1 -> jpeg_idct_2x1(coef, quant)
        [] w = 8 /\ h = 16 -> jpeg_idct_8x16(coef, quant)
        [] w = 7 /\ h = 14 -> jpeg_idct_7x14(coef, quant)
        [] w = 6 /\ h = 12 -> jpeg_idct_6x12(coef, quant)
        [] w = 5 /\ h = 10 -> jpeg_idct_5x10(coef, quant)
        [] w = 4 /\ h = 8 -> jpeg_idct_4x8(coef, quant)
        [] w = 3 /\ h = 6 -> jpeg_idct_3x6(coef, quant)
        [] w = 2 /\ h = 4 -> jpeg_idct_2x4(coef, quant)
        [] w = 1 /\ h = 2 -> jpeg_idct_1x2(coef, quant)
=============================================================================
