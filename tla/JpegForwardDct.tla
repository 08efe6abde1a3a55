--------------------------- MODULE JpegForwardDct ---------------------------
(***************************************************************************)
(* The forward DCT of libjpeg (jfdctint.c, jfdctfst.c, jcdctmgr.c): a      *)
(* block of w x h samples becomes 8x8 quantized coefficients, for the 31   *)
(* sizes the compressor may choose.                                        *)
(*                                                                         *)
(* Every routine runs a one-dimensional kernel over the rows and the same  *)
(* kind of kernel over the columns.  The even outputs come from the sums   *)
(* of mirrored inputs, the odd ones from their differences.  The two       *)
(* passes of a size do the same steps with other constants: the column     *)
(* pass folds the factor (8/size) in.  A constant c stands for             *)
(* FIX(c / 2^13), in the order the code uses them; where a row pass shifts *)
(* left instead of multiplying, the constant is a power of two.            *)
(***************************************************************************)
EXTENDS JpegInverseDct

\* y[0..size-1] folded about its middle; an odd size keeps its middle element as a sum.
PairSums(y, size) ==
  Tabulate((size + 1) \div 2, LAMBDA i : IF 2 * i = size + 1 THEN y[i - 1] ELSE y[i - 1] + y[size - i])
PairDifferences(y, size) == Tabulate(size \div 2, LAMBDA i : y[i - 1] - y[size - i])

-----------------------------------------------------------------------------
(* The kernels: s are sums, d differences, c constants; the result is      *)
(* scaled by 2^13, one element for each of the first 8 coefficients.       *)

Forward1(s, d, c) == <<8192 * s[1]>>

Forward2(s, d, c) == <<8192 * s[1], 8192 * d[1]>>

Forward3(s, d, c) ==
  <<c[1] * (s[1] + s[2]), c[3] * d[1], c[2] * (s[1] - s[2] - s[2])>>

Forward4(s, d, c) ==
  LET tmp0 == c[1] * (d[1] + d[2])
  IN  <<8192 * (s[1] + s[2]), tmp0 + c[2] * d[1], 8192 * (s[1] - s[2]), tmp0 - c[3] * d[2]>>

Forward5(s, d, c) ==
  LET tmp10 == s[1] + s[2]
      tmp11a == c[2] * (s[1] - s[2])
      tmp10b == c[3] * (tmp10 - 4 * s[3])
      tmp10c == c[4] * (d[1] + d[2])
  IN  <<c[1] * (tmp10 + s[3]), tmp10c + c[5] * d[1], tmp11a + tmp10b, tmp10c - c[6] * d[2],
        tmp11a - tmp10b>>

Forward6(s, d, c) ==
  LET tmp10 == s[1] + s[3]
      tmp10a == c[4] * (d[1] + d[3])
  IN  <<c[1] * (tmp10 + s[2]), tmp10a + c[5] * (d[1] + d[2]), c[2] * (s[1] - s[3]),
        c[6] * (d[1] - d[2] - d[3]), c[3] * (tmp10 - s[2] - s[2]),
        tmp10a + c[7] * (d[3] - d[2])>>

Forward7(s, d, c) ==
  LET z1 == s[1] + s[3]
      tmp3 == s[4] + s[4]
      z1c == c[2] * (z1 - tmp3 - tmp3)
      z2 == c[3] * (s[1] - s[3])
      z3 == c[4] * (s[2] - s[3])
      z2a == c[5] * (s[1] - s[2])
      tmp1 == c[7] * (d[1] + d[2])
      tmp2 == c[8] * (d[1] - d[2])
      tmp2a == -c[9] * (d[2] + d[3])
      tmp3a == c[10] * (d[1] + d[3])
  IN  <<c[1] * (z1 + s[2] + s[4]), tmp1 - tmp2 + tmp3a, z1c + z2 + z3, tmp1 + tmp2 + tmp2a,
        z2a + z3 - c[6] * (s[2] - tmp3), tmp2a + tmp3a + c[11] * d[3], z1c - z2 + z2a>>

Forward8(s, d, c) ==
  LET tmp10 == s[1] + s[4]
      tmp12 == s[1] - s[4]
      tmp11 == s[2] + s[3]
      tmp13 == s[2] - s[3]
      z1 == c[1] * (tmp12 + tmp13)
      tmp12a == d[1] + d[3]
      tmp13a == d[2] + d[4]
      z1a == c[4] * (tmp12a + tmp13a)
      tmp10b == -c[9] * (d[1] + d[4])
      tmp11b == -c[10] * (d[2] + d[3])
      tmp12c == z1a - c[11] * tmp12a
      tmp13c == z1a - c[12] * tmp13a
  IN  <<8192 * (tmp10 + tmp11), c[5] * d[1] + tmp10b + tmp12c, z1 + c[2] * tmp12,
        c[6] * d[2] + tmp11b + tmp13c, 8192 * (tmp10 - tmp11), c[7] * d[3] + tmp11b + tmp12c,
        z1 - c[3] * tmp13, c[8] * d[4] + tmp10b + tmp13c>>

Forward9(s, d, c) ==
  LET z1 == s[1] + s[3] + s[4]
      z2 == s[2] + s[5]
      z1a == c[3] * (s[1] - s[3])
      z2a == c[4] * (s[2] - s[5] - s[5])
      tmp11 == c[8] * d[2]
      tmp0 == c[9] * (d[1] + d[3])
      tmp1 == c[10] * (d[1] + d[4])
      tmp2 == c[11] * (d[3] - d[4])
  IN  <<c[1] * (z1 + z2), tmp11 + tmp0 + tmp1, c[5] * (s[3] - s[4]) + z1a + z2a,
        c[7] * (d[1] - d[3] - d[4]), c[6] * (s[4] - s[1]) + z1a - z2a, tmp0 - tmp11 - tmp2,
        c[2] * (z1 - z2 - z2), tmp1 - tmp11 + tmp2>>

Forward10(s, d, c) ==
  LET tmp10 == s[1] + s[5]
      tmp13 == s[1] - s[5]
      tmp11 == s[2] + s[4]
      tmp14 == s[2] - s[4]
      tmp12 == s[3] + s[3]
      tmp10a == c[4] * (tmp13 + tmp14)
      tmp10b == d[1] + d[5]
      tmp11a == d[2] - d[4]
      tmp2 == c[8] * d[3]
      tmp12a == c[13] * (d[1] - d[5]) - c[14] * (d[2] + d[4])
      tmp13a == c[15] * (tmp10b + tmp11a) + c[16] * tmp11a - tmp2
  IN  <<c[1] * (tmp10 + tmp11 + s[3]),
        c[9] * d[1] + c[10] * d[2] + tmp2 + c[11] * d[4] + c[12] * d[5], tmp10a + c[5] * tmp13,
        tmp12a + tmp13a, c[2] * (tmp10 - tmp12) - c[3] * (tmp11 - tmp12),
        c[7] * (tmp10b - tmp11a - d[3]), tmp10a - c[6] * tmp14, tmp12a - tmp13a>>

Forward11(s, d, c) ==
  LET tmp5 == s[6] + s[6]
      tmp0 == s[1] - tmp5
      tmp1 == s[2] - tmp5
      tmp2 == s[3] - tmp5
      tmp3 == s[4] - tmp5
      tmp4 == s[5] - tmp5
      z1 == c[2] * (tmp0 + tmp3) + c[3] * (tmp2 + tmp4)
      z2 == c[4] * (tmp1 - tmp3)
      z3 == c[5] * (tmp0 - tmp1)
      tmp1a == c[13] * (d[1] + d[2])
      tmp2a == c[14] * (d[1] + d[3])
      tmp3a == c[15] * (d[1] + d[4])
      tmp4a == -c[18] * (d[2] + d[3])
      tmp5a == -c[19] * (d[2] + d[4])
      tmp10 == c[22] * (d[3] + d[4])
  IN  <<c[1] * (s[1] + s[2] + s[3] + s[4] + s[5] + s[6]),
        tmp1a + tmp2a + tmp3a - c[16] * d[1] + c[17] * d[5],
        z1 + z2 - c[6] * tmp3 - c[7] * tmp4,
        tmp1a + tmp4a + tmp5a + c[20] * d[2] - c[21] * d[5],
        z2 + z3 + c[8] * tmp1 - c[9] * tmp2 + c[10] * tmp4,
        tmp2a + tmp4a + tmp10 - c[23] * d[3] + c[24] * d[5],
        z1 + z3 - c[11] * tmp0 - c[12] * tmp2,
        tmp3a + tmp5a + tmp10 + c[25] * d[4] - c[26] * d[5]>>

Forward12(s, d, c) ==
  LET tmp10 == s[1] + s[6]
      tmp13 == s[1] - s[6]
      tmp14 == s[2] - s[5]
      tmp12 == s[3] + s[4]
      tmp15 == s[3] - s[4]
      tmp10a == c[6] * (d[2] + d[5])
      tmp14a == tmp10a + c[7] * d[2]
      tmp15a == tmp10a - c[8] * d[5]
      tmp12a == c[9] * (d[1] + d[3])
      tmp13a == c[10] * (d[1] + d[4])
      tmp11a == -c[13] * (d[3] + d[4])
  IN  <<c[1] * (tmp10 + s[2] + s[5] + tmp12),
        tmp12a + tmp13a + tmp14a - c[11] * d[1] + c[12] * d[6],
        c[4] * (tmp14 - tmp15) + c[5] * (tmp13 + tmp15),
        tmp15a + c[18] * (d[1] - d[4]) - c[19] * (d[3] + d[6]), c[3] * (tmp10 - tmp12),
        tmp12a + tmp11a - tmp15a - c[14] * d[3] + c[15] * d[6], c[2] * (tmp13 - tmp14 - tmp15),
        tmp13a + tmp11a - tmp14a + c[16] * d[4] - c[17] * d[6]>>

Forward13(s, d, c) ==
  LET tmp6 == s[7] + s[7]
      tmp0 == s[1] - tmp6
      tmp1 == s[2] - tmp6
      tmp2 == s[3] - tmp6
      tmp3 == s[4] - tmp6
      tmp4 == s[5] - tmp6
      tmp5 == s[6] - tmp6
      z1 == c[8] * (tmp0 - tmp2) - c[9] * (tmp3 - tmp4) - c[10] * (tmp1 - tmp5)
      z2 == c[11] * (tmp0 + tmp2) - c[12] * (tmp3 + tmp4) + c[13] * (tmp1 + tmp5)
      tmp1a == c[14] * (d[1] + d[2])
      tmp2a == c[15] * (d[1] + d[3])
      tmp3a == c[16] * (d[1] + d[4]) + c[17] * (d[5] + d[6])
      tmp4a == c[20] * (d[5] - d[6]) - c[21] * (d[2] + d[3])
      tmp5a == -c[22] * (d[2] + d[4])
      tmp6a == -c[25] * (d[3] + d[4])
  IN  <<c[1] * (s[1] + s[2] + s[3] + s[4] + s[5] + s[6] + s[7]),
        tmp1a + tmp2a + tmp3a - c[18] * d[1] + c[19] * d[5],
        c[2] * tmp0 + c[3] * tmp1 + c[4] * tmp2 - c[5] * tmp3 - c[6] * tmp4 - c[7] * tmp5,
        tmp1a + tmp4a + tmp5a + c[23] * d[2] - c[24] * d[5], z1 + z2,
        tmp2a + tmp4a + tmp6a - c[26] * d[3] + c[27] * d[6], z1 - z2,
        tmp3a + tmp5a + tmp6a + c[28] * d[4] - c[29] * d[6]>>

Forward14(s, d, c) ==
  LET tmp10 == s[1] + s[7]
      tmp14 == s[1] - s[7]
      tmp11 == s[2] + s[6]
      tmp15 == s[2] - s[6]
      tmp12 == s[3] + s[5]
      tmp16 == s[3] - s[5]
      tmp13 == s[4] + s[4]
      tmp10a == c[5] * (tmp14 + tmp15)
      tmp10b == d[2] + d[3]
      tmp11a == d[6] - d[5]
      tmp3 == c[11] * d[4]
      tmp10d == c[13] * tmp11a - c[12] * tmp10b - tmp3
      tmp11c == c[14] * (d[1] + d[3]) + c[15] * (d[5] + d[7])
      tmp12a == c[18] * (d[1] + d[2]) + c[19] * (d[6] - d[7])
  IN  <<c[1] * (tmp10 + tmp11 + tmp12 + s[4]),
        tmp11c + tmp12a + tmp3 - c[22] * d[1] - c[23] * d[7],
        tmp10a + c[6] * tmp14 + c[7] * tmp16, tmp10d + tmp12a - c[20] * d[2] - c[21] * d[6],
        c[2] * (tmp10 - tmp13) + c[3] * (tmp11 - tmp13) - c[4] * (tmp12 - tmp13),
        tmp10d + tmp11c - c[16] * d[3] + c[17] * d[5], tmp10a - c[8] * tmp15 - c[9] * tmp16,
        c[10] * (d[1] - tmp10b + d[4] - tmp11a - d[7])>>

Forward15(s, d, c) ==
  LET z1 == s[1] + s[5] + s[6]
      z2 == s[2] + s[4] + s[7]
      z3 == s[3] + s[8]
      z3a == z3 + z3
      tmp2 == s[3] + ((s[2] + s[5]) \div 2) - s[8] - s[8]
      z3b == c[8] * (s[1] - s[4]) + c[9] * (s[7] - s[6]) + c[10] * (s[2] - s[5])
      tmp12 == c[14] * d[3]
      tmp4 == c[15] * (d[1] - d[7]) + c[16] * (d[2] + d[5]) + c[17] * (d[4] + d[6])
  IN  <<c[1] * (z1 + z2 + z3), c[18] * d[4] - c[19] * d[5] + c[20] * d[7] + tmp4 + tmp12,
        c[4] * (s[4] - tmp2) - c[5] * (s[7] - tmp2) + z3b,
        c[12] * (d[1] - d[5] - d[6]) + c[13] * (d[2] - d[4] - d[7]),
        c[6] * (s[6] - tmp2) - c[7] * (s[1] - tmp2) + z3b,
        c[11] * (d[1] - d[3] - d[4] + d[6] + d[7]), c[2] * (z1 - z3a) - c[3] * (z2 - z3a),
        tmp4 - c[21] * d[1] - c[22] * d[2] - c[23] * d[6] - tmp12>>

Forward16(s, d, c) ==
  LET tmp10 == s[1] + s[8]
      tmp14 == s[1] - s[8]
      tmp11 == s[2] + s[7]
      tmp15 == s[2] - s[7]
      tmp12 == s[3] + s[6]
      tmp16 == s[3] - s[6]
      tmp13 == s[4] + s[5]
      tmp17 == s[4] - s[5]
      tmp10a == c[3] * (tmp17 - tmp15) + c[4] * (tmp14 - tmp16)
      tmp11a == c[9] * (d[1] + d[2]) + c[10] * (d[7] - d[8])
      tmp12a == c[11] * (d[1] + d[3]) + c[12] * (d[6] + d[8])
      tmp13a == c[13] * (d[1] + d[4]) + c[14] * (d[5] - d[8])
      tmp14a == c[15] * (d[2] + d[3]) + c[16] * (d[7] - d[6])
      tmp15a == -c[17] * (d[2] + d[4]) - c[18] * (d[5] + d[7])
      tmp16a == c[20] * (d[6] - d[5]) - c[19] * (d[3] + d[4])
  IN  <<8192 * (tmp10 + tmp11 + tmp12 + tmp13),
        tmp11a + tmp12a + tmp13a - c[21] * d[1] + c[22] * d[8],
        tmp10a + c[5] * tmp15 + c[6] * tmp16,
        tmp11a + tmp14a + tmp15a + c[23] * d[2] - c[24] * d[7],
        c[1] * (tmp10 - tmp13) + c[2] * (tmp11 - tmp12),
        tmp12a + tmp14a + tmp16a - c[25] * d[3] + c[26] * d[6],
        tmp10a - c[7] * tmp14 - c[8] * tmp17,
        tmp13a + tmp15a + tmp16a + c[27] * d[4] + c[28] * d[5]>>
-----------------------------------------------------------------------------
(* The constants of each size, and the two passes. *)

RowConstants ==
  << <<>>,
     <<>>,
     <<8192, 5793, 10033>>,
     <<4433, 6270, 15137>>,
     <<8192, 6476, 2896, 6810, 4209, 17828>>,
     <<8192, 10033, 5793, 2998, 8192, 8192, 8192>>,
     <<8192, 2896, 7542, 2578, 7223, 5793, 7663, 1395, 11295, 5027, 15326>>,
     <<4433, 6270, 15137, 9633, 12299, 25172, 16819, 2446, 7373, 20995, 3196, 16069>>,
     <<8192, 5793, 10887, 5793, 8875, 2012, 10033, 10033, 7447, 3962, 11409>>,
     <<8192, 9373, 3580, 6810, 4209, 17828, 8192, 8192, 11443, 10323, 5260, 1812, 7791,
       4815, 2531, 4096>>,
     <<8192, 11116, 1649, 7587, 9746, 8342, 11395, 511, 11116, 4813, 13275, 6461, 10538,
       8756, 6263, 14090, 3264, 6263, 11467, 10456, 8756, 3264, 16294, 11467, 10695, 10538>>,
     <<8192, 8192, 10033, 1, 11190, 4433, 6270, 15137, 9191, 7053, 4758, 1512, 1512,
       19165, 7053, 5946, 9191, 10703, 4433>>,
     <<8192, 11249, 8672, 4108, 1396, 6581, 10258, 9465, 3570, 2592, 793, 7678, 3989,
       10832, 9534, 7682, 2773, 16549, 2611, 7682, 2773, 9534, 6859, 19183, 5384, 12879,
       18515, 18068, 14273>>,
     <<8192, 10438, 2578, 7223, 9058, 2237, 5027, 14084, 11295, 8192, 8192, 1297, 11512,
       9810, 6164, 19447, 9175, 10935, 3826, 3474, 25148, 9232, 9231>>,
     <<8192, 9373, 3580, 12543, 18336, 6541, 748, 11332, 7752, 6476, 10033, 11018, 6810,
       10033, 11522, 11018, 4712, 3897, 4209, 13930, 2912, 17828, 7121>>,
     <<10703, 4433, 2260, 11363, 11893, 17799, 1730, 8697, 11086, 3363, 10217, 5461, 8956,
       7350, 1136, 11529, 5461, 10217, 11086, 3363, 18730, 6387, 589, 13631, 9222, 10055,
       8728, 17760>> >>

ColumnConstants ==
  << <<>>,
     <<>>,
     <<14564, 10298, 17837>>,
     <<4433, 6270, 15137>>,
     <<10486, 8290, 3707, 8716, 5387, 22820>>,
     <<14564, 17837, 10298, 5331, 14564, 14564, 14564>>,
     <<10700, 3783, 9850, 3367, 9434, 7566, 10009, 1822, 14752, 6565, 20017>>,
     <<4433, 6270, 15137, 9633, 12299, 25172, 16819, 2446, 7373, 20995, 3196, 16069>>,
     <<12945, 9154, 17203, 9154, 14024, 3179, 15855, 15855, 11768, 6262, 18029>>,
     <<10486, 11997, 4582, 8716, 5387, 22820, 10486, 10486, 14647, 13213, 6732, 2320,
       9973, 6163, 3240, 5243>>,
     <<8666, 11759, 1744, 8026, 10310, 8825, 12054, 540, 11759, 5091, 14043, 6835, 11148,
       9262, 6626, 14905, 3453, 6626, 12131, 11061, 9262, 3453, 17237, 12131, 11314, 11148>>,
     <<7282, 7282, 8918, 7282, 9947, 3941, 5573, 13455, 8170, 6269, 4229, 1344, 1344,
       17036, 6269, 5285, 8170, 9514, 3941>>,
     <<6205, 8520, 6568, 3112, 1058, 4985, 7770, 7169, 2704, 1963, 601, 5816, 3021, 8204,
       7221, 5819, 2100, 12534, 1978, 5819, 2100, 7221, 5195, 14529, 4078, 9754, 14023,
       13685, 10811>>,
     <<5350, 6817, 1684, 4717, 5915, 1461, 3283, 9198, 7376, 5350, 5350, 847, 7518, 6406,
       4025, 12700, 5992, 7141, 2499, 2269, 16423, 6029, 679>>,
     <<9321, 10664, 4073, 14271, 20862, 7442, 852, 12893, 8820, 7369, 11415, 12536, 7748,
       11415, 13109, 12536, 5361, 4434, 4788, 15850, 3314, 20284, 8102>>,
     <<10703, 4433, 2260, 11363, 11893, 17799, 1730, 8697, 11086, 3363, 10217, 5461, 8956,
       7350, 1136, 11529, 5461, 10217, 11086, 3363, 18730, 6387, 589, 13631, 9222, 10055,
       8728, 17760>> >>

ForwardKernel(size, y, c) ==
  LET s == PairSums(y, size)
      d == PairDifferences(y, size)
  IN  CASE size = 1 -> Forward1(s, d, c[1])
        [] size = 2 -> Forward2(s, d, c[2])
        [] size = 3 -> Forward3(s, d, c[3])
        [] size = 4 -> Forward4(s, d, c[4])
        [] size = 5 -> Forward5(s, d, c[5])
        [] size = 6 -> Forward6(s, d, c[6])
        [] size = 7 -> Forward7(s, d, c[7])
        [] size = 8 -> Forward8(s, d, c[8])
        [] size = 9 -> Forward9(s, d, c[9])
        [] size = 10 -> Forward10(s, d, c[10])
        [] size = 11 -> Forward11(s, d, c[11])
        [] size = 12 -> Forward12(s, d, c[12])
        [] size = 13 -> Forward13(s, d, c[13])
        [] size = 14 -> Forward14(s, d, c[14])
        [] size = 15 -> Forward15(s, d, c[15])
        [] size = 16 -> Forward16(s, d, c[16])

\* Both passes over a w x h block of samples[row][column].  Samples are centred first: only the
\* DC term of a kernel depends on a constant offset, and there the code subtracts it.  Each pass
\* divides by its power of two, rounding; the other coefficients are pre-zeroed.
ForwardTransform(samples, w, h, rowDivisor, columnDivisor) ==
  LET width == IF w < 8 THEN w ELSE 8
      height == IF h < 8 THEN h ELSE 8
      rows == Tabulate(h, LAMBDA y : ForwardKernel(w, [x \in 0..(w - 1) |-> samples[y][x + 1] - 128],
                                                   RowConstants))
      columns == Tabulate(width, LAMBDA u : ForwardKernel(h,
                   [y \in 0..(h - 1) |-> Descale(rows[y + 1][u], rowDivisor)], ColumnConstants))
  IN  [k \in 0..63 |-> LET u == k % 8
                           v == k \div 8
                       IN  IF u < width /\ v < height THEN Descale(columns[u + 1][v + 1], columnDivisor)
                                                      ELSE 0]

jpeg_fdct_islow(samples) == ForwardTransform(samples, 8, 8, 2048, 32768)
jpeg_fdct_7x7(samples) == ForwardTransform(samples, 7, 7, 2048, 32768)
jpeg_fdct_6x6(samples) == ForwardTransform(samples, 6, 6, 2048, 32768)
jpeg_fdct_5x5(samples) == ForwardTransform(samples, 5, 5, 1024, 32768)
jpeg_fdct_4x4(samples) == ForwardTransform(samples, 4, 4, 512, 32768)
jpeg_fdct_3x3(samples) == ForwardTransform(samples, 3, 3, 512, 32768)
jpeg_fdct_2x2(samples) == ForwardTransform(samples, 2, 2, 2048, 2048)
jpeg_fdct_1x1(samples) == ForwardTransform(samples, 1, 1, 1024, 1024)
jpeg_fdct_9x9(samples) == ForwardTransform(samples, 9, 9, 4096, 32768)
jpeg_fdct_10x10(samples) == ForwardTransform(samples, 10, 10, 4096, 32768)
jpeg_fdct_11x11(samples) == ForwardTransform(samples, 11, 11, 4096, 32768)
jpeg_fdct_12x12(samples) == ForwardTransform(samples, 12, 12, 8192, 16384)
jpeg_fdct_13x13(samples) == ForwardTransform(samples, 13, 13, 8192, 16384)
jpeg_fdct_14x14(samples) == ForwardTransform(samples, 14, 14, 8192, 16384)
jpeg_fdct_15x15(samples) == ForwardTransform(samples, 15, 15, 8192, 32768)
jpeg_fdct_16x16(samples) == ForwardTransform(samples, 16, 16, 2048, 131072)
jpeg_fdct_16x8(samples) == ForwardTransform(samples, 16, 8, 2048, 65536)
jpeg_fdct_14x7(samples) == ForwardTransform(samples, 14, 7, 2048, 65536)
jpeg_fdct_12x6(samples) == ForwardTransform(samples, 12, 6, 2048, 65536)
jpeg_fdct_10x5(samples) == ForwardTransform(samples, 10, 5, 2048, 32768)
jpeg_fdct_8x4(samples) == ForwardTransform(samples, 8, 4, 1024, 32768)
jpeg_fdct_6x3(samples) == ForwardTransform(samples, 6, 3, 1024, 32768)
jpeg_fdct_4x2(samples) == ForwardTransform(samples, 4, 2, 256, 32768)
jpeg_fdct_2x1(samples) == ForwardTransform(samples, 2, 1, 256, 8192)
jpeg_fdct_8x16(samples) == ForwardTransform(samples, 8, 16, 2048, 65536)
jpeg_fdct_7x14(samples) == ForwardTransform(samples, 7, 14, 2048, 32768)
jpeg_fdct_6x12(samples) == ForwardTransform(samples, 6, 12, 2048, 32768)
jpeg_fdct_5x10(samples) == ForwardTransform(samples, 5, 10, 2048, 32768)
jpeg_fdct_4x8(samples) == ForwardTransform(samples, 4, 8, 1024, 32768)
jpeg_fdct_3x6(samples) == ForwardTransform(samples, 3, 6, 1024, 32768)
jpeg_fdct_2x4(samples) == ForwardTransform(samples, 2, 4, 1024, 8192)
jpeg_fdct_1x2(samples) == ForwardTransform(samples, 1, 2, 8192, 256)

\* jfdctfst.c keeps 8 bits of each constant and shifts every product at once, rounding down.
ForwardFast(y) ==
  LET s == PairSums(y, 8)
      d == PairDifferences(y, 8)
      tmp10 == s[1] + s[4]
      tmp13 == s[1] - s[4]
      tmp11 == s[2] + s[3]
      z1 == Times(s[2] - s[3] + tmp13, 181)
      tmp10a == d[4] + d[3]
      tmp12a == d[2] + d[1]
      z5 == Times(tmp10a - tmp12a, 98)
      z2 == Times(tmp10a, 139) + z5
      z4 == Times(tmp12a, 334) + z5
      z3 == Times(d[3] + d[2], 181)
      z11 == d[1] + z3
      z13 == d[1] - z3
  IN  <<tmp10 + tmp11, z11 + z4, tmp13 + z1, z13 - z2, tmp10 - tmp11, z13 + z2, tmp13 - z1, z11 - z4>>

jpeg_fdct_ifast(samples) ==
  LET rows == Tabulate(8, LAMBDA y : ForwardFast([x \in 0..7 |-> samples[y][x + 1] - 128]))
      columns == Tabulate(8, LAMBDA u : ForwardFast([y \in 0..7 |-> rows[y + 1][u]]))
  IN  [k \in 0..63 |-> columns[(k % 8) + 1][(k \div 8) + 1]]

-----------------------------------------------------------------------------
(* jcdctmgr.c: which routine, with which divisors. *)

Divisors(quantval, fast) ==
  [k \in 0..63 |-> IF fast THEN Descale(quantval[k] * aanscales[k + 1], 2048) ELSE 8 * quantval[k]]

\* Mutant of Quantized: the quotient is truncated.
QuantizedTruncated(temp, qval) == IF temp < 0 THEN -((-temp) \div qval) ELSE temp \div qval

\* The quotient rounds half away from zero.
Quantized(temp, qval) ==
  IF temp < 0 THEN -((qval \div 2 - temp) \div qval) ELSE (temp + qval \div 2) \div qval

ForwardMethod(w, h, dct_method, samples) ==
  CASE w = 8 /\ h = 8 -> IF UsesFast(w, h, dct_method) THEN jpeg_fdct_ifast(samples)
                                                    ELSE jpeg_fdct_islow(samples)
    [] w = 7 /\ h = 7 -> jpeg_fdct_7x7(samples)
    [] w = 6 /\ h = 6 -> jpeg_fdct_6x6(samples)
    [] w = 5 /\ h = 5 -> jpeg_fdct_5x5(samples)
    [] w = 4 /\ h = 4 -> jpeg_fdct_4x4(samples)
    [] w = 3 /\ h = 3 -> jpeg_fdct_3x3(samples)
    [] w = 2 /\ h = 2 -> jpeg_fdct_2x2(samples)
    [] w = 1 /\ h = 1 -> jpeg_fdct_1x1(samples)
    [] w = 9 /\ h = 9 -> jpeg_fdct_9x9(samples)
    [] w = 10 /\ h = 10 -> jpeg_fdct_10x10(samples)
    [] w = 11 /\ h = 11 -> jpeg_fdct_11x11(samples)
    [] w = 12 /\ h = 12 -> jpeg_fdct_12x12(samples)
    [] w = 13 /\ h = 13 -> jpeg_fdct_13x13(samples)
    [] w = 14 /\ h = 14 -> jpeg_fdct_14x14(samples)
    [] w = 15 /\ h = 15 -> jpeg_fdct_15x15(samples)
    [] w = 16 /\ h = 16 -> jpeg_fdct_16x16(samples)
    [] w = 16 /\ h = 8 -> jpeg_fdct_16x8(samples)
    [] w = 14 /\ h = 7 -> jpeg_fdct_14x7(samples)
    [] w = 12 /\ h = 6 -> jpeg_fdct_12x6(samples)
    [] w = 10 /\ h = 5 -> jpeg_fdct_10x5(samples)
    [] w = 8 /\ h = 4 -> jpeg_fdct_8x4(samples)
    [] w = 6 /\ h = 3 -> jpeg_fdct_6x3(samples)
    [] w = 4 /\ h = 2 -> jpeg_fdct_4x2(samples)
    [] w = 2 /\ h = 1 -> jpeg_fdct_2x1(samples)
    [] w = 8 /\ h = 16 -> jpeg_fdct_8x16(samples)
    [] w = 7 /\ h = 14 -> jpeg_fdct_7x14(samples)
    [] w = 6 /\ h = 12 -> jpeg_fdct_6x12(samples)
    [] w = 5 /\ h = 10 -> jpeg_fdct_5x10(samples)
    [] w = 4 /\ h = 8 -> jpeg_fdct_4x8(samples)
    [] w = 3 /\ h = 6 -> jpeg_fdct_3x6(samples)
    [] w = 2 /\ h = 4 -> jpeg_fdct_2x4(samples)
    [] w = 1 /\ h = 2 -> jpeg_fdct_1x2(samples)

forward_DCT(w, h, dct_method, samples, quantval) ==
  LET workspace == ForwardMethod(w, h, dct_method, samples)
      divisors == Divisors(quantval, UsesFast(w, h, dct_method))
  IN  [k \in 0..63 |-> Quantized(workspace[k], divisors[k])]
=============================================================================
