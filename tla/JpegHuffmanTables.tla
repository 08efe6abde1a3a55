------------------------- MODULE JpegHuffmanTables -------------------------
(***************************************************************************)
(* The Huffman tables of libjpeg: how jchuff.c chooses one for a set of    *)
(* symbol counts and derives the code of each symbol, and how jdhuff.c     *)
(* derives what it needs to read those codes back.                         *)
(*                                                                         *)
(* A JHUFF_TBL is a record: bits[l] codes have length l, and huffval lists *)
(* the symbols by increasing length.  A function of the code that may exit *)
(* with an error has an operator beside it that tells when it does not.    *)
(***************************************************************************)
EXTENDS JpegCommon

-----------------------------------------------------------------------------
(* The code of a table. *)

\* Figure C.1: the code length of each symbol of huffval.
HuffSize(htbl) == FlattenSeq(Tabulate(16, LAMBDA l : Tabulate(htbl.bits[l], LAMBDA i : l)))

\* Figure C.2: the codes themselves, in the same order.
HuffCode(htbl) ==
  LET huffsize == HuffSize(htbl)
      code[p \in 1..Len(huffsize)] ==
        IF p = 1 THEN 0 ELSE (code[p - 1] + 1) * 2^(huffsize[p] - huffsize[p - 1])
  IN  Tabulate(Len(huffsize), LAMBDA p : code[p])

\* No code is all ones, and none overflows its length.
LegalTree(htbl) ==
  LET huffsize == HuffSize(htbl)
      huffcode == HuffCode(htbl)
  IN  Len(huffsize) <= 256 /\ \A p \in 1..Len(huffsize) : huffcode[p] + 1 < 2^huffsize[p]

CTableAccepted(htbl, isDC) ==
  LET lastp == Len(HuffSize(htbl))
      maxsymbol == IF isDC THEN 15 ELSE 255
  IN  /\ LegalTree(htbl)
      /\ \A p \in 1..lastp : htbl.huffval[p] \in 0..maxsymbol
      /\ \A p, q \in 1..lastp : p /= q => htbl.huffval[p] /= htbl.huffval[q]

\* The code of each symbol, and its length: 0 for a symbol without one.
jpeg_make_c_derived_tbl(htbl) ==
  LET huffsize == HuffSize(htbl)
      huffcode == HuffCode(htbl)
      coded == {htbl.huffval[p] : p \in 1..Len(huffsize)}
      place(symbol) == CHOOSE p \in 1..Len(huffsize) : htbl.huffval[p] = symbol
  IN  Tabulate(256, LAMBDA i : IF i - 1 \in coded THEN [ehufco |-> huffcode[place(i - 1)],
                                                       ehufsi |-> huffsize[place(i - 1)]]
                                                  ELSE [ehufco |-> 0, ehufsi |-> 0])

DTableAccepted(htbl, isDC) ==
  LegalTree(htbl) /\ (isDC => \A p \in 1..Len(HuffSize(htbl)) : htbl.huffval[p] <= 15)

\* For each length its largest code, and the distance from a code to its place in huffval.
\* The table of eight bits of lookahead holds nothing these do not.
jpeg_make_d_derived_tbl(htbl) ==
  LET huffsize == HuffSize(htbl)
      huffcode == HuffCode(htbl)
      last(l) == Len(SelectSeq(huffsize, LAMBDA size : size <= l))
      first(l) == last(l) - htbl.bits[l] + 1
  IN  [maxcode |-> Tabulate(16, LAMBDA l : IF htbl.bits[l] = 0 THEN -1 ELSE huffcode[last(l)]),
       valoffset |-> Tabulate(16, LAMBDA l : IF htbl.bits[l] = 0 THEN 0
                                           ELSE first(l) - huffcode[first(l)]),
       huffval |-> htbl.huffval]

-----------------------------------------------------------------------------
(* The table for a set of counts. *)

MAX_CLEN == 32

\* Huffman's procedure.  A tree has the number of one of its symbols, the count of all of them
\* and, for each, its depth; of two trees with the same count the larger number goes first.
RECURSIVE Merged(_)
Merged(trees) ==
  LET smallest(S) == CHOOSE t \in S : \A u \in S : \/ t.freq < u.freq
                                                   \/ t.freq = u.freq /\ t.symbol >= u.symbol
      c1 == smallest(trees)
      c2 == smallest(trees \ {c1})
      deeper == {[leaf EXCEPT !.codesize = @ + 1] : leaf \in c1.leaves \cup c2.leaves}
  IN  IF trees = {c1} THEN c1.leaves
      ELSE Merged((trees \ {c1, c2}) \cup
                  {[symbol |-> c1.symbol, freq |-> c1.freq + c2.freq, leaves |-> deeper]})

\* Mutant of CodeSizes: the pseudo-symbol is forgotten.
CodeSizesOfCounted(freq) ==
  Merged({[symbol |-> s, freq |-> freq[s], leaves |-> {[symbol |-> s, codesize |-> 0]}]
            : s \in {s \in DOMAIN freq : freq[s] > 0}})

\* The pseudo-symbol 256 takes the code of all ones.
CodeSizes(freq) ==
  LET symbols == {s \in DOMAIN freq : freq[s] > 0} \cup {256}
  IN  Merged({[symbol |-> s, freq |-> IF s = 256 THEN 1 ELSE freq[s],
               leaves |-> {[symbol |-> s, codesize |-> 0]}] : s \in symbols})

\* Codes longer than 16 bits are taken away two at a time: one takes their common prefix, and a
\* shorter code becomes the prefix of the other and of its own symbol.
RECURSIVE Limited(_, _)
Limited(bits, i) ==
  IF i = 16 THEN bits
  ELSE IF bits[i] = 0 THEN Limited(bits, i - 1)
  ELSE LET j == CHOOSE j \in 1..(i - 2) : bits[j] > 0 /\ \A k \in (j + 1)..(i - 2) : bits[k] = 0
       IN  Limited(Tabulate(MAX_CLEN, LAMBDA l :
                     bits[l] + (IF l = i THEN -2 ELSE 0) + (IF l = i - 1 THEN 1 ELSE 0)
                             + (IF l = j + 1 THEN 2 ELSE 0) + (IF l = j THEN -1 ELSE 0)), i)

\* No code is longer than MAX_CLEN.
OptimalTableMade(freq) == \A leaf \in CodeSizes(freq) : leaf.codesize <= MAX_CLEN

jpeg_gen_optimal_table(freq) ==
  LET leaves == CodeSizes(freq)
      withSize(l) == {leaf.symbol : leaf \in {leaf \in leaves : leaf.codesize = l}}
      bits == Limited(Tabulate(MAX_CLEN, LAMBDA l : Cardinality(withSize(l))), MAX_CLEN)
      longest == CHOOSE l \in 1..16 : bits[l] > 0 /\ \A k \in (l + 1)..16 : bits[k] = 0
  IN  [bits |-> Tabulate(16, LAMBDA l : IF l = longest THEN bits[l] - 1 ELSE bits[l]),
       huffval |-> FlattenSeq(Tabulate(MAX_CLEN, LAMBDA l : Ascending(withSize(l) \ {256})))]
=============================================================================
