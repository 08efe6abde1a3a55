-------------------------- MODULE JpegArithmeticModel --------------------------
(***************************************************************************)
(* What the two sides of libjpeg's arithmetic coding share: the table of   *)
(* probability estimates (jaricom.c) and the statistics bins that the      *)
(* decisions about a coefficient are coded with (jcarith.c, jdarith.c).    *)
(*                                                                         *)
(* A bin is <<class, table, offset>>; its state is a row of the table and  *)
(* the more probable symbol.  The bins that were used since the last       *)
(* restart are the domain of a function, the others are in their first     *)
(* state.                                                                  *)
(***************************************************************************)
EXTENDS JpegCommon

\* Qe_Value, Next_Index_LPS, Next_Index_MPS, Switch_MPS of each row, from row 0.
jpeg_aritab ==
  << <<23069, 1, 1, 1>>, <<9606, 14, 2, 0>>, <<4372, 16, 3, 0>>, <<2059, 18, 4, 0>>, <<984, 20, 5, 0>>, <<474, 23, 6, 0>>,
     <<229, 25, 7, 0>>, <<111, 28, 8, 0>>, <<54, 30, 9, 0>>, <<26, 33, 10, 0>>, <<13, 35, 11, 0>>, <<6, 9, 12, 0>>,
     <<3, 10, 13, 0>>, <<1, 12, 13, 0>>, <<23167, 15, 15, 1>>, <<16165, 36, 16, 0>>, <<11506, 38, 17, 0>>, <<8316, 39, 18, 0>>,
     <<6073, 40, 19, 0>>, <<4482, 42, 20, 0>>, <<3311, 43, 21, 0>>, <<2465, 45, 22, 0>>, <<1839, 46, 23, 0>>, <<1372, 48, 24, 0>>,
     <<1030, 49, 25, 0>>, <<771, 51, 26, 0>>, <<576, 52, 27, 0>>, <<433, 54, 28, 0>>, <<324, 56, 29, 0>>, <<245, 57, 30, 0>>,
     <<183, 59, 31, 0>>, <<138, 60, 32, 0>>, <<104, 62, 33, 0>>, <<78, 63, 34, 0>>, <<59, 32, 35, 0>>, <<44, 33, 9, 0>>,
     <<23265, 37, 37, 1>>, <<18508, 64, 38, 0>>, <<14861, 65, 39, 0>>, <<12017, 67, 40, 0>>, <<9759, 68, 41, 0>>, <<7987, 69, 42, 0>>,
     <<6568, 70, 43, 0>>, <<5400, 72, 44, 0>>, <<4471, 73, 45, 0>>, <<3700, 74, 46, 0>>, <<3067, 75, 47, 0>>, <<2552, 77, 48, 0>>,
     <<2145, 78, 49, 0>>, <<1798, 79, 50, 0>>, <<1485, 48, 51, 0>>, <<1246, 50, 52, 0>>, <<1039, 50, 53, 0>>, <<867, 51, 54, 0>>,
     <<724, 52, 55, 0>>, <<604, 53, 56, 0>>, <<504, 54, 57, 0>>, <<420, 55, 58, 0>>, <<352, 56, 59, 0>>, <<293, 57, 60, 0>>,
     <<246, 58, 61, 0>>, <<203, 59, 62, 0>>, <<171, 61, 63, 0>>, <<143, 61, 32, 0>>, <<23314, 65, 65, 1>>, <<19716, 80, 66, 0>>,
     <<16684, 81, 67, 0>>, <<14296, 82, 68, 0>>, <<12264, 83, 69, 0>>, <<10556, 84, 70, 0>>, <<9081, 86, 71, 0>>, <<7903, 87, 72, 0>>,
     <<6825, 87, 73, 0>>, <<5966, 72, 74, 0>>, <<5156, 72, 75, 0>>, <<4508, 74, 76, 0>>, <<3947, 74, 77, 0>>, <<3409, 75, 78, 0>>,
     <<2998, 77, 79, 0>>, <<2624, 77, 48, 0>>, <<22578, 80, 81, 1>>, <<19740, 88, 82, 0>>, <<17294, 89, 83, 0>>, <<15325, 90, 84, 0>>,
     <<13550, 91, 85, 0>>, <<11950, 92, 86, 0>>, <<10650, 93, 87, 0>>, <<9494, 86, 71, 0>>, <<21872, 88, 89, 1>>, <<19625, 95, 90, 0>>,
     <<17625, 96, 91, 0>>, <<15906, 97, 92, 0>>, <<14372, 99, 93, 0>>, <<12980, 99, 94, 0>>, <<11799, 93, 86, 0>>, <<22184, 95, 96, 1>>,
     <<20294, 101, 97, 0>>, <<18405, 102, 98, 0>>, <<16847, 103, 99, 0>>, <<15421, 104, 100, 0>>, <<14174, 99, 93, 0>>, <<21041, 105, 102, 0>>,
     <<19471, 106, 103, 0>>, <<17977, 107, 104, 0>>, <<16734, 103, 99, 0>>, <<22055, 105, 106, 1>>, <<20711, 108, 107, 0>>, <<19333, 109, 103, 0>>,
     <<21911, 110, 109, 0>>, <<20559, 111, 107, 0>>, <<23056, 110, 111, 1>>, <<21794, 112, 109, 0>>, <<23019, 112, 111, 1>>, <<23069, 113, 113, 0>> >>

Row(state) == jpeg_aritab[state.index + 1]

\* The states after the less and after the more probable symbol, given the row of the state.
Estimate_after_LPS(state, row) == [index |-> row[2], mps |-> IF row[4] = 1 THEN 1 - state.mps ELSE state.mps]
Estimate_after_MPS(state, row) == [state EXCEPT !.index = row[3]]

-----------------------------------------------------------------------------
(* Bins. *)

dc_stats(tbl, offset) == <<"dc", tbl, offset>>
ac_stats(tbl, offset) == <<"ac", tbl, offset>>

\* One of fixed probability 0.5.
fixed_bin == <<"fixed", 0, 0>>

NoStats == [bin \in {} |-> 0]

StateOf(stats, bin) ==
  IF bin \in DOMAIN stats THEN stats[bin]
  ELSE [index |-> IF bin = fixed_bin THEN 113 ELSE 0, mps |-> 0]

Updated(stats, bin, state) == [b \in DOMAIN stats \cup {bin} |-> IF b = bin THEN state ELSE stats[b]]

-----------------------------------------------------------------------------
(* Conditioning, with the values that hold unless a DAC marker says so. *)

arith_dc_L == 0
arith_dc_U == 1
arith_ac_K == 5

\* The context of the next DC difference: m is the highest power of two in the magnitude less one.
DcContext(m, sign) ==
  IF m < 2^arith_dc_L \div 2 THEN 0
  ELSE IF m > 2^arith_dc_U \div 2 THEN 12 + 4 * sign
  ELSE 4 + 4 * sign

\* Where the magnitude category of a large AC coefficient goes on.
X2(k) == IF k <= arith_ac_K THEN 189 ELSE 217
=============================================================================
