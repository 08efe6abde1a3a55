----------------------------- MODULE JpegCommon -----------------------------
(* What the models of libjpeg's algorithms share. *)
EXTENDS Integers, Sequences, SequencesExt

DCTSIZE == 8
DCTSIZE2 == 64

\* The codes of the markers RST0 and EOI; a marker is its code after a byte 0xFF.
RST0 == 208
EOI == 217

\* The sequence Op(1), ..., Op(n).
Tabulate(n, Op(_)) == SubSeq([i \in 1..n |-> Op(i)], 1, n)

\* A set of numbers, smallest first.
Ascending(S) == Tabulate(Cardinality(S), LAMBDA k : CHOOSE s \in S : Cardinality({r \in S : r < s}) = k - 1)

Magnitude(x) == IF x < 0 THEN -x ELSE x

\* The number of bits of a magnitude below 2^16.
BitLength(x) == CHOOSE n \in 0..16 : Magnitude(x) < 2^n /\ (n = 0 \/ Magnitude(x) >= 2^(n - 1))

\* x shifted right by n bits, rounding towards zero.
PointTransform(x, n) == IF x < 0 THEN -((-x) \div 2^n) ELSE x \div 2^n
=============================================================================
