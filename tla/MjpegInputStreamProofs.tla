------------------------- MODULE MjpegInputStreamProofs -------------------------
(***************************************************************************)
(* Proofs about MjpegInputStream for every set of streams, however many    *)
(* pictures they have, and every length of the buffer.                     *)
(***************************************************************************)
EXTENDS MjpegInputStream, TLAPS, FiniteSetTheorems, WellFoundedInduction

(* A length in every header, or the reader that looks everywhere.          *)
Exact == stream.given \/ ~ isNative

(* What a picture has to be like to be found by the k-th call.             *)
Promised(k) == Exact \/ (k < Len(stream.pictures) /\ ~ Shrunk(stream, k))

Exceptions == {Nothing, "IOException", "EOFException", "RuntimeException"}

Readers ==
    [bytes : Seq(Nat), pos : Nat, mark : Nat, value : Int, mContentLength : Int, frame : Seq(Nat), thrown : Exceptions]

ReaderTypeOK ==
    /\ stream \in Streams
    /\ isNative \in BOOLEAN
    /\ calls \in Nat
    /\ reader \in Readers
    /\ reader.bytes = stream.bytes
    /\ reader.pos <= Len(stream.bytes)

(* The reader is behind the picture, and by no more than a header.         *)
BehindThePicture ==
    LET picture == stream.pictures[calls]
    IN  /\ ~ Thrown(reader)
        /\ reader.pos \in picture.end..(picture.end + IF Exact THEN 0 ELSE HeaderLength(stream, calls))
        /\ reader.mContentLength = reader.pos - picture.soi
        /\ reader.frame = SubSeq(stream.bytes, picture.soi + 1, reader.pos)

ReaderInv ==
    /\ ReaderTypeOK
    /\ calls = 0 => reader.pos = 0 /\ reader.mContentLength = -1
    /\ calls > 0 => /\ calls \in Pictures(stream)
                    /\ Promised(calls) => BehindThePicture

-------------------------------------------------------------------------------
(* Induction.  The initial segments of the numbers of a set are finite     *)
(* sets, of which one is the smallest.                                     *)
LEMMA WellOrdered ==
  ASSUME NEW S \in SUBSET Nat, S # {}
  PROVE  \E m \in S : \A n \in S : m <= n
<1> DEFINE T == {0..n : n \in S}
           R == StrictSubsetOrdering(Nat)
<1>1. IsWellFoundedOn(R, FiniteSubsetsOf(Nat))
  BY FS_StrictSubsetOrderingWellFounded
<1>2. T \subseteq FiniteSubsetsOf(Nat) /\ T # {}
  <2>1. ASSUME NEW n \in S PROVE 0..n \in FiniteSubsetsOf(Nat)
    <3>1. IsFiniteSet(0..n)
      BY FS_Interval
    <3>2. 0..n \subseteq Nat
      OBVIOUS
    <3> QED BY <3>1, <3>2 DEF FiniteSubsetsOf
  <2>2. T # {}
    OBVIOUS
  <2> QED
    BY <2>1, <2>2
<1>3. \A x, y \in T : x \subseteq y /\ x # y => <<x, y>> \in R
  BY <1>2 DEF StrictSubsetOrdering, FiniteSubsetsOf
<1>4. PICK x \in T : \A y \in T : ~ (<<y, x>> \in R)
  <2> HIDE DEF T, R
  <2> QED BY <1>1, <1>2, WFMin
<1>5. PICK m \in S : x = 0..m
  BY <1>4
<1>6. ASSUME NEW n \in S, n < m PROVE FALSE
  <2>1. 0..n \in T /\ 0..n \subseteq 0..m /\ 0..n # 0..m
    <3>1. m \in 0..m /\ m \notin 0..n
      BY <1>6
    <3> QED BY <1>6, <3>1
  <2> QED
    BY <1>3, <1>4, <1>5, <2>1
<1> QED
  BY <1>6

(* A set with zero and the successor of each of its numbers has all.       *)
LEMMA Induction ==
  ASSUME NEW S, 0 \in S, \A n \in Nat : n \in S => n + 1 \in S
  PROVE  \A n \in Nat : n \in S
<1> DEFINE T == Nat \ S
<1> SUFFICES ASSUME T # {} PROVE FALSE
  OBVIOUS
<1>1. PICK m \in T : \A n \in T : m <= n
  <2> T \in SUBSET Nat
    OBVIOUS
  <2> HIDE DEF T
  <2> QED BY WellOrdered
<1>2. m # 0 /\ m - 1 \in Nat /\ m - 1 \notin T
  BY <1>1
<1> QED
  BY <1>1, <1>2

-------------------------------------------------------------------------------
(* What a read leaves of a reader: its place and value, its mark, or the   *)
(* picture.                                                                *)
Moved(r, p, v) == [r EXCEPT !.pos = p, !.value = v]
Marked(r) == [r EXCEPT !.mark = r.pos, !.frame = <<>>, !.thrown = Nothing]
Pictured(r, first, last) ==
    [r EXCEPT !.mContentLength = last - first, !.pos = last, !.frame = SubSeq(r.bytes, first + 1, last)]

LEMMA ReaderFields ==
    ASSUME NEW r \in Readers
    PROVE  /\ r.bytes \in Seq(Nat) /\ Len(r.bytes) \in Nat
           /\ r.pos \in Nat /\ r.mark \in Nat /\ r.value \in Int /\ r.mContentLength \in Int
<1>1. r.bytes \in Seq(Nat) /\ r.pos \in Nat /\ r.mark \in Nat /\ r.value \in Int /\ r.mContentLength \in Int
  BY DEF Readers
<1> QED
  BY <1>1

LEMMA MovedFields ==
    ASSUME NEW r \in Readers, NEW p \in Nat, NEW v \in Int
    PROVE  /\ Moved(r, p, v) \in Readers
           /\ Moved(r, p, v).pos = p /\ Moved(r, p, v).value = v
           /\ Moved(r, p, v).bytes = r.bytes /\ Moved(r, p, v).mark = r.mark
           /\ Moved(r, p, v).mContentLength = r.mContentLength
           /\ Moved(r, p, v).thrown = r.thrown
  BY DEF Moved, Readers

LEMMA MovedTwice ==
    ASSUME NEW r \in Readers, NEW p \in Nat, NEW v \in Int, NEW q \in Nat, NEW w \in Int
    PROVE  Moved(Moved(r, p, v), q, w) = Moved(r, q, w)
  BY DEF Moved, Readers

LEMMA PlaceChanged ==
    ASSUME NEW r \in Readers, NEW p \in Nat, NEW v \in Int, NEW q \in Nat
    PROVE  [Moved(r, p, v) EXCEPT !.pos = q] = Moved(r, q, v)
  BY DEF Moved, Readers

LEMMA ValueChanged ==
    ASSUME NEW r \in Readers, NEW p \in Nat, NEW v \in Int, NEW w \in Int
    PROVE  [Moved(r, p, v) EXCEPT !.value = w] = Moved(r, p, w)
  BY DEF Moved, Readers

LEMMA MarkedFields ==
    ASSUME NEW r \in Readers
    PROVE  /\ Marked(r) \in Readers
           /\ Marked(r).pos = r.pos /\ Marked(r).mark = r.pos
           /\ Marked(r).bytes = r.bytes /\ Marked(r).mContentLength = r.mContentLength
           /\ Marked(r).thrown = Nothing
<1>1. <<>> \in Seq(Nat)
  OBVIOUS
<1>2. Nothing \in Exceptions
  BY DEF Exceptions
<1> QED
  BY <1>1, <1>2 DEF Marked, Readers

LEMMA PicturedFields ==
    ASSUME NEW r \in Readers, NEW first \in Nat, NEW last \in Nat, first <= last, last <= Len(r.bytes)
    PROVE  /\ Pictured(r, first, last) \in Readers
           /\ Pictured(r, first, last).pos = last
           /\ Pictured(r, first, last).mContentLength = last - first
           /\ Pictured(r, first, last).bytes = r.bytes
           /\ Pictured(r, first, last).frame = SubSeq(r.bytes, first + 1, last)
           /\ Pictured(r, first, last).thrown = r.thrown
<1>1. SubSeq(r.bytes, first + 1, last) \in Seq(Nat)
  BY ReaderFields
<1>2. last - first \in Int
  OBVIOUS
<1> DEFINE frame == SubSeq(r.bytes, first + 1, last)
<1> HIDE DEF frame
<1>3. /\ Pictured(r, first, last) = [r EXCEPT !.mContentLength = last - first, !.pos = last, !.frame = frame]
      /\ frame \in Seq(Nat)
  BY <1>1 DEF Pictured, frame
<1> QED
  BY <1>2, <1>3 DEF Readers, frame

-------------------------------------------------------------------------------
(* Looking for a sequence. *)

(* The recursive function SeqIndex exists, so it satisfies its equation.   *)
LEMMA SeqIndexEquation ==
    ASSUME NEW r \in Readers, r.pos <= Len(r.bytes), NEW sequence
    PROVE  /\ SeqIndex(r, sequence)[0] = 0
           /\ \A k \in 1..(Len(r.bytes) - r.pos) :
                SeqIndex(r, sequence)[k] = Compared(sequence, SeqIndex(r, sequence)[k - 1], r.bytes[r.pos + k])
<1> DEFINE step(i, k) == Compared(sequence, i, r.bytes[r.pos + k])
           Equation(f, n) == f = [k \in 0..n |-> IF k = 0 THEN 0 ELSE step(f[k - 1], k)]
           Solved == {n \in Nat : \E f : Equation(f, n)}
           left == Len(r.bytes) - r.pos
<1>1. left \in Nat
  BY DEF Readers
<1>2. SeqIndex(r, sequence) = CHOOSE f : Equation(f, left)
  BY DEF SeqIndex
<1> HIDE DEF step, left
<1>3. 0 \in Solved
  <2>1. Equation([k \in 0..0 |-> 0], 0)
    OBVIOUS
  <2> QED
    BY <2>1
<1>4. ASSUME NEW n \in Nat, n \in Solved PROVE n + 1 \in Solved
  <2>1. PICK f : Equation(f, n)
    BY <1>4
  <2> DEFINE g == [k \in 0..(n + 1) |-> IF k <= n THEN f[k] ELSE step(f[n], n + 1)]
  <2>2. ASSUME NEW k \in 0..(n + 1)
        PROVE  g[k] = IF k = 0 THEN 0 ELSE step(g[k - 1], k)
    <3>1. CASE k = 0
      BY <2>1, <3>1
    <3>2. CASE k \in 1..n
      BY <2>1, <3>2
    <3>3. CASE k = n + 1
      BY <3>3
    <3> QED
      BY <3>1, <3>2, <3>3
  <2>3. Equation(g, n + 1)
    BY <2>2
  <2> HIDE DEF g, Equation
  <2>4. \E h : Equation(h, n + 1)
    BY <2>3
  <2> QED
    BY <2>4
<1>5. left \in Solved
  <2> HIDE DEF Solved
  <2> QED
    BY <1>1, <1>3, <1>4, Induction
<1>6. Equation(SeqIndex(r, sequence), left)
  <2>1. \E f : Equation(f, left)
    BY <1>5
  <2> HIDE DEF Equation
  <2> QED
    BY <1>2, <2>1
<1>7. ASSUME NEW k \in 0..left
      PROVE  SeqIndex(r, sequence)[k] = IF k = 0 THEN 0 ELSE step(SeqIndex(r, sequence)[k - 1], k)
  BY <1>6
<1> QED
  BY <1>1, <1>7 DEF step, left

(* The sequence 255, b ends at end for the first time behind p, and before *)
(* it no 255 has b or a 255 behind it.                                     *)
EndsAt(bytes, p, end, b) ==
    /\ p + 2 <= end /\ end <= Len(bytes)
    /\ bytes[end - 1] = 255 /\ bytes[end] = b
    /\ \A i \in (p + 1)..(end - 2) : bytes[i] = 255 => bytes[i + 1] \notin {b, 255}

Compares(m, bytes, p, n, b) ==
    /\ m[0] = 0
    /\ \A k \in 1..n : m[k] = Compared(<<255, b>>, m[k - 1], bytes[p + k])

FoundAfter(m, n) ==
    /\ \A k \in 0..(n - 1) : m[k] \in {0, 1}
    /\ m[n] = 2

(* Until then seqIndex tells a byte 255 from another one.                  *)
LEMMA Matcher ==
    ASSUME NEW m, NEW s, NEW p \in Nat, NEW end \in Nat, NEW b, b # 255,
           EndsAt(s, p, end, b), Compares(m, s, p, end - p, b)
    PROVE  FoundAfter(m, end - p)
<1> USE DEF EndsAt, Compares
<1> DEFINE expected(k) == IF k >= 1 /\ s[p + k] = 255 THEN 1 ELSE 0
           Good == {k \in Nat : k < end - p => m[k] = expected(k)}
<1>1. ASSUME NEW c
      PROVE  /\ Compared(<<255, b>>, 0, c) = IF c = 255 THEN 1 ELSE 0
             /\ Compared(<<255, b>>, 1, c) = IF c = b THEN 2 ELSE 0
  BY DEF Compared
<1>2. 0 \in Good
  OBVIOUS
<1>3. ASSUME NEW k \in Nat, k \in Good, k + 1 < end - p
      PROVE  m[k + 1] = expected(k + 1)
  <2>1. k + 1 \in 1..(end - p) /\ p + (k + 1) = (p + k) + 1 /\ (k + 1) - 1 = k /\ k + 1 >= 1
    BY <1>3
  <2>2. m[k] = expected(k)
    BY <1>3
  <2>3. m[k + 1] = Compared(<<255, b>>, m[k], s[(p + k) + 1])
    BY <2>1
  <2>4. CASE m[k] = 0
    <3>1. m[k + 1] = IF s[(p + k) + 1] = 255 THEN 1 ELSE 0
      BY <1>1, <2>3, <2>4
    <3> QED
      BY <2>1, <3>1
  <2>5. CASE m[k] = 1
    <3>1. k >= 1 /\ s[p + k] = 255
      BY <2>2, <2>5
    <3>2. p + k \in (p + 1)..(end - 2)
      BY <1>3, <3>1
    <3>3. s[(p + k) + 1] \notin {b, 255}
      BY <3>1, <3>2
    <3>4. m[k + 1] = IF s[(p + k) + 1] = b THEN 2 ELSE 0
      BY <1>1, <2>3, <2>5
    <3> QED
      BY <2>1, <3>3, <3>4
  <2> QED
    BY <2>2, <2>4, <2>5
<1>4. \A k \in Nat : k \in Good
  <2>1. \A k \in Nat : k \in Good => k + 1 \in Good
    BY <1>3
  <2> HIDE DEF Good
  <2> QED
    BY <1>2, <2>1, Induction
<1>5. \A k \in 0..(end - p - 1) : m[k] = expected(k)
  BY <1>4
<1>6. m[end - p] = 2
  <2> DEFINE d == end - p
  <2>1. d - 1 \in 0..(d - 1) /\ d - 1 >= 1 /\ p + (d - 1) = end - 1 /\ p + d = end /\ d \in 1..d
    OBVIOUS
  <2>2. m[d - 1] = 1
    BY <1>5, <2>1
  <2>3. m[d] = Compared(<<255, b>>, m[d - 1], s[p + d])
    BY <2>1
  <2>4. m[d] = Compared(<<255, b>>, 1, b)
    BY <2>1, <2>2, <2>3
  <2> QED
    BY <1>1, <2>4
<1> QED
  BY <1>5, <1>6 DEF FoundAfter

(* What Look gives when the sequence ends at end: the place, unless the    *)
(* limit comes first.                                                      *)
LEMMA LookFinds ==
    ASSUME NEW r \in Readers, r.pos <= Len(r.bytes), NEW b, b # 255, NEW end \in Nat,
           EndsAt(r.bytes, r.pos, end, b), NEW limit \in Nat
    PROVE  Look(r, <<255, b>>, limit) =
             IF end - r.pos <= limit THEN Moved(r, end, end - r.pos) ELSE Moved(r, r.pos + limit, -1)
<1>1. r.pos \in Nat /\ Len(r.bytes) \in Nat
  <2>1. r.bytes \in Seq(Nat) /\ r.pos \in Nat
    BY DEF Readers
  <2> QED
    BY <2>1
<1>2. PICK m : m = SeqIndex(r, <<255, b>>)
  OBVIOUS
<1>3. PICK left \in Nat, d \in Nat :
        left = Len(r.bytes) - r.pos /\ d = end - r.pos /\ d >= 2 /\ d <= left /\ r.pos + d = end
  BY <1>1 DEF EndsAt
<1> DEFINE found == {k \in 1..limit : k <= left /\ m[k] = 2}
           first == CHOOSE k \in found : \A j \in found : k <= j
<1>4. FoundAfter(m, d)
  <2>1. m[0] = 0 /\ \A k \in 1..left : m[k] = Compared(<<255, b>>, m[k - 1], r.bytes[r.pos + k])
    BY <1>2, <1>3, SeqIndexEquation
  <2>2. Compares(m, r.bytes, r.pos, end - r.pos, b)
    <3>1. \A k \in 1..(end - r.pos) : k \in 1..left
      BY <1>3
    <3> QED
      BY <2>1, <3>1 DEF Compares
  <2>3. r.pos \in Nat /\ EndsAt(r.bytes, r.pos, end, b)
    BY <1>1
  <2> QED
    BY <1>3, <2>2, <2>3, Matcher
<1>5. Look(r, <<255, b>>, limit) =
        IF found # {} THEN Moved(r, r.pos + first, first)
        ELSE IF left < limit THEN Throws([r EXCEPT !.pos = Len(r.bytes)], "EOFException")
        ELSE Moved(r, r.pos + limit, -1)
  BY <1>2, <1>3 DEF Look, Readers, Moved
<1>6. CASE d <= limit
  <2>1. d \in found
    BY <1>3, <1>4, <1>6 DEF FoundAfter
  <2>2. ASSUME NEW k \in found PROVE d <= k
    BY <1>3, <1>4, <2>2 DEF FoundAfter
  <2>3. first = d
    <3>1. \A k \in found : k \in Nat
      OBVIOUS
    <3> HIDE DEF found
    <3>2. \E k \in found : \A j \in found : k <= j
      BY <2>1, <2>2
    <3>3. first \in found /\ \A j \in found : first <= j
      BY <3>2
    <3> HIDE DEF first
    <3> QED
      BY <2>1, <2>2, <3>1, <3>3
  <2> HIDE DEF first, found
  <2> QED
    BY <1>3, <1>5, <1>6, <2>1, <2>3
<1>7. CASE limit < d
  <2>1. ASSUME NEW k \in found PROVE FALSE
    BY <1>3, <1>4, <1>7, <2>1 DEF FoundAfter
  <2> HIDE DEF first, found
  <2> QED
    BY <1>3, <1>5, <1>7, <2>1
<1> HIDE DEF first, found
<1> QED
  BY <1>3, <1>6, <1>7

(* Whatever Look finds, it goes on and does not leave the stream.          *)
LEMMA LookGoesOn ==
    ASSUME NEW r \in Readers, r.pos <= Len(r.bytes), NEW sequence, NEW limit \in Nat
    PROVE  \/ Look(r, sequence, limit) = [r EXCEPT !.pos = Len(r.bytes), !.thrown = "EOFException"]
           \/ \E p \in Nat, v \in Int :
                /\ Look(r, sequence, limit) = Moved(r, p, v)
                /\ r.pos <= p /\ p <= Len(r.bytes) /\ v <= p - r.pos
<1>1. r.pos \in Nat /\ Len(r.bytes) \in Nat
  <2>1. r.bytes \in Seq(Nat) /\ r.pos \in Nat
    BY DEF Readers
  <2> QED
    BY <2>1
<1>0. PICK left \in Nat : left = Len(r.bytes) - r.pos
  BY <1>1
<1> DEFINE found == {k \in 1..limit : k <= left /\ SeqIndex(r, sequence)[k] = Len(sequence)}
           first == CHOOSE k \in found : \A j \in found : k <= j
<1>2. Look(r, sequence, limit) =
        IF found # {} THEN Moved(r, r.pos + first, first)
        ELSE IF left < limit THEN Throws([r EXCEPT !.pos = Len(r.bytes)], "EOFException")
        ELSE Moved(r, r.pos + limit, -1)
  BY <1>0 DEF Look, Readers, Moved
<1>3. CASE found # {}
  <2>1. found \in SUBSET Nat
    OBVIOUS
  <2>2. \E k \in found : \A j \in found : k <= j
    <3> HIDE DEF found
    <3> QED
      BY <1>3, <2>1, WellOrdered
  <2>3. first \in found
    <3> HIDE DEF found
    <3> QED
      BY <2>2
  <2>4. first \in Nat /\ first <= left
    <3> HIDE DEF first
    <3> QED
      BY <2>3
  <2> HIDE DEF first, found
  <2>5. r.pos + first \in Nat /\ first \in Int /\ r.pos + first <= Len(r.bytes) /\ r.pos <= r.pos + first
        /\ first <= (r.pos + first) - r.pos
    BY <1>0, <1>1, <2>4
  <2> QED
    BY <1>2, <1>3, <2>5
<1>4. CASE found = {} /\ left < limit
  <2> HIDE DEF first, found
  <2> QED
    BY <1>2, <1>4 DEF Throws, Readers
<1>5. CASE found = {} /\ limit <= left
  <2> HIDE DEF first, found
  <2>1. r.pos + limit \in Nat /\ -1 \in Int /\ r.pos + limit <= Len(r.bytes) /\ r.pos <= r.pos + limit
        /\ -1 <= (r.pos + limit) - r.pos
    BY <1>0, <1>1, <1>5
  <2>2. Look(r, sequence, limit) = Moved(r, r.pos + limit, -1)
    BY <1>0, <1>1, <1>2, <1>5
  <2> QED
    BY <2>1, <2>2
<1> HIDE DEF first, found
<1>6. left < limit \/ limit <= left
  BY <1>0
<1> QED
  BY <1>3, <1>4, <1>5, <1>6

-------------------------------------------------------------------------------
(* The steps of a call. *)

LEMMA BufferLength == FRAME_MAX_LENGTH \in Nat
  BY StreamsAssumption

LEMMA MoveOfBuffer ==
    ASSUME NEW r \in Readers, r.pos - r.mark <= FRAME_MAX_LENGTH
    PROVE  reset(r) = [r EXCEPT !.pos = r.mark]
  BY ReaderFields, BufferLength DEF reset

LEMMA LookAlongBuffer ==
    ASSUME NEW r \in Readers, NEW b, b # 255, NEW end \in Nat, EndsAt(r.bytes, r.pos, end, b),
           end - r.pos <= FRAME_MAX_LENGTH
    PROVE  getEndOfSeqeunce(r, <<255, b>>) = Moved(r, end, end - r.pos)
<1>1. r.pos <= Len(r.bytes)
  BY ReaderFields DEF EndsAt
<1>2. Look(r, <<255, b>>, FRAME_MAX_LENGTH) =
        IF end - r.pos <= FRAME_MAX_LENGTH THEN Moved(r, end, end - r.pos)
        ELSE Moved(r, r.pos + FRAME_MAX_LENGTH, -1)
  BY <1>1, BufferLength, LookFinds
<1> QED
  BY <1>2 DEF getEndOfSeqeunce

(* The start of the picture is found, and the value is the length of the   *)
(* rest of the header.                                                     *)
LEMMA HeaderFound ==
    ASSUME NEW r \in Readers, NEW native \in BOOLEAN, NEW soi \in Nat, r.pos <= soi,
           EndsAt(r.bytes, r.pos, soi + 2, 216), soi + 2 - r.pos <= FRAME_MAX_LENGTH
    PROVE  headerOf(r, native) = Moved(Marked(r), soi + 2, soi - r.pos)
<1>1. r.pos \in Nat /\ r.bytes \in Seq(Nat) /\ Len(r.bytes) \in Nat
  BY ReaderFields
<1>2. PICK marked : marked = Marked(r)
  OBVIOUS
<1>3. marked \in Readers /\ marked.pos = r.pos /\ marked.bytes = r.bytes /\ marked.thrown = Nothing
  BY <1>2, MarkedFields
<1>4. PICK end \in Nat, n \in Int, m \in Int :
        end = soi + 2 /\ n = end - r.pos /\ m = soi - r.pos /\ n >= 0 /\ m = n - 2 /\ n <= FRAME_MAX_LENGTH
  BY <1>1
<1>5. getEndOfSeqeunce(marked, SOI_MARKER) = Moved(marked, end, n)
  <2>1. EndsAt(marked.bytes, marked.pos, end, 216) /\ end - marked.pos <= FRAME_MAX_LENGTH
    BY <1>3, <1>4
  <2>2. getEndOfSeqeunce(marked, <<255, 216>>) = Moved(marked, end, end - marked.pos)
    BY <1>3, <1>4, <2>1, LookAlongBuffer
  <2> QED
    BY <1>3, <1>4, <2>2 DEF SOI_MARKER
<1>6. Moved(marked, end, n).thrown = Nothing
  <2>1. marked \in Readers /\ end \in Nat /\ n \in Int
    BY <1>3, <1>4
  <2>2. Moved(marked, end, n).thrown = marked.thrown
    BY <2>1, MovedFields
  <2> QED
    BY <1>3, <2>2
<1>7. Moved(marked, end, n).value = n
  BY <1>3, <1>4, MovedFields
<1>8. Moved(marked, end, m).thrown = Nothing
  <2>1. marked \in Readers /\ end \in Nat /\ m \in Int
    BY <1>3, <1>4
  <2>2. Moved(marked, end, m).thrown = marked.thrown
    BY <2>1, MovedFields
  <2> QED
    BY <1>3, <2>2
<1>9. [Moved(marked, end, n) EXCEPT !.value = m] = Moved(marked, end, m)
  BY <1>3, <1>4, ValueChanged
<1>10. getStartOfSequence(marked, SOI_MARKER) = Moved(marked, end, m)
  BY <1>4, <1>5, <1>6, <1>7, <1>9 DEF getStartOfSequence, Thrown
<1>11. headerOf(r, native) =
        LET start == getStartOfSequence(Marked(r), SOI_MARKER)
        IN  IF Thrown(start) /\ native THEN reset(start) ELSE start
  BY DEF headerOf, Marked
<1> QED
  BY <1>2, <1>4, <1>8, <1>10, <1>11 DEF Thrown

LEMMA SkippedTo ==
    ASSUME NEW r \in Readers, NEW n \in Int, NEW p \in Nat, n >= 0, p = r.pos + n, p <= Len(r.bytes)
    PROVE  skipBytes(r, n) = [r EXCEPT !.pos = p]
<1>1. (IF n <= 0 THEN r.pos ELSE IF r.pos + n > Len(r.bytes) THEN Len(r.bytes) ELSE r.pos + n) = p
  BY ReaderFields
<1> QED
  BY <1>1 DEF skipBytes

(* Back to the mark, over the header, and value bytes are the picture.     *)
LEMMA FrameRead ==
    ASSUME NEW r \in Readers, NEW headerLen \in Nat, NEW native \in BOOLEAN, ~ Thrown(r), r.value >= 0,
           r.pos - r.mark <= FRAME_MAX_LENGTH, r.mark + headerLen + r.value <= Len(r.bytes)
    PROVE  readFrame(r, headerLen, native) = Pictured(r, r.mark + headerLen, r.mark + headerLen + r.value)
<1> DEFINE measured == [r EXCEPT !.mContentLength = r.value]
           back == [measured EXCEPT !.pos = r.mark]
           skipped == [back EXCEPT !.pos = r.mark + headerLen]
<1>1. r.pos \in Nat /\ r.mark \in Nat /\ r.value \in Int /\ r.bytes \in Seq(Nat) /\ Len(r.bytes) \in Nat
  BY ReaderFields
<1>2. reset(measured) = back
  <2>1. measured.pos = r.pos /\ measured.mark = r.mark /\ measured \in Readers
    BY <1>1 DEF Readers
  <2> HIDE DEF measured
  <2> QED
    BY <1>1, <2>1, MoveOfBuffer
<1>3. back \in Readers /\ ~ Thrown(back) /\ back.pos = r.mark /\ back.bytes = r.bytes
  BY <1>1 DEF Readers, Thrown
<1>4. skipBytes(back, headerLen) = skipped
  <2>1. PICK p \in Nat : p = r.mark + headerLen
    BY <1>1
  <2>2. p = back.pos + headerLen /\ p <= Len(back.bytes) /\ headerLen \in Int /\ headerLen >= 0
    <3> HIDE DEF back
    <3> QED
      BY <1>1, <1>3, <2>1
  <2> HIDE DEF back
  <2> QED
    BY <1>3, <2>1, <2>2, SkippedTo
<1>5. skipped.pos = r.mark + headerLen /\ skipped.bytes = r.bytes
  BY DEF Readers
<1>6. readFully(skipped, r.value) =
        [skipped EXCEPT !.pos = r.mark + headerLen + r.value,
                        !.frame = SubSeq(r.bytes, r.mark + headerLen + 1, r.mark + headerLen + r.value)]
  <2> HIDE DEF skipped
  <2> QED
    BY <1>1, <1>5 DEF readFully
<1>7. readFrame(r, headerLen, native) = readFully(skipped, r.value)
  <2> HIDE DEF skipped, back
  <2> QED
    BY <1>1, <1>2, <1>3, <1>4 DEF readFrame, Thrown
<1>8. (r.mark + headerLen + r.value) - (r.mark + headerLen) = r.value
  BY <1>1
<1> QED
  BY <1>6, <1>7, <1>8 DEF Readers, Pictured

LEMMA EndsAtLater ==
    ASSUME NEW bytes, NEW p \in Nat, NEW q \in Nat, NEW end \in Nat, NEW b,
           EndsAt(bytes, p, end, b), p <= q, q + 2 <= end
    PROVE  EndsAt(bytes, q, end, b)
  BY DEF EndsAt

(* The search from half a length on starts before the end.                 *)
Expected(mContentLength, pos, end) ==
    \/ mContentLength = -1
    \/ mContentLength >= 2 /\ pos + mContentLength \div 2 + 1 <= end

(* The search of the native reader, from startPos - 1 bytes on.            *)
LookedFrom(r, startPos, limit) ==
    LET end == Look(skipBytes(r, -1 + startPos), EOF_MARKER, limit)
    IN  IF Thrown(end) \/ end.value < 0 THEN end ELSE [end EXCEPT !.value = @ + -1 + startPos]

LEMMA LookNowhere ==
    ASSUME NEW r \in Readers, NEW end \in Nat, EndsAt(r.bytes, r.pos, end, 217)
    PROVE  LookedFrom(r, 0, 0) = Moved(r, r.pos, -1)
<1>1. r.pos \in Nat /\ Len(r.bytes) \in Nat /\ end <= Len(r.bytes) /\ r.pos + 2 <= end
  BY ReaderFields DEF EndsAt
<1>2. skipBytes(r, -1 + 0) = r
  BY DEF skipBytes, Readers
<1>3. Look(r, <<255, 217>>, 0) = IF end - r.pos <= 0 THEN Moved(r, end, end - r.pos) ELSE Moved(r, r.pos + 0, -1)
  <2>1. r.pos <= Len(r.bytes)
    BY <1>1
  <2> QED
    BY <1>1, <2>1, LookFinds
<1>4. Look(r, <<255, 217>>, 0) = Moved(r, r.pos, -1)
  BY <1>1, <1>3
<1>5. -1 \in Int
  OBVIOUS
<1>6. Moved(r, r.pos, -1).value = -1
  BY <1>1, <1>5, MovedFields
<1> QED
  BY <1>2, <1>4, <1>6 DEF LookedFrom, EOF_MARKER

(* It finds the end, or stops before it.                                   *)
LEMMA LookBefore ==
    ASSUME NEW r \in Readers, r.thrown = Nothing, NEW end \in Nat, EndsAt(r.bytes, r.pos, end, 217),
           NEW startPos \in Nat, startPos >= 1, r.pos + startPos + 1 <= end, NEW limit \in Nat
    PROVE  \/ LookedFrom(r, startPos, limit) = Moved(r, end, end - r.pos)
           \/ \E q \in Nat : q <= end /\ LookedFrom(r, startPos, limit) = Moved(r, q, -1)
<1>1. /\ r.pos \in Nat /\ Len(r.bytes) \in Nat /\ r.value \in Int
      /\ end <= Len(r.bytes) /\ r.pos + 2 <= end
  BY ReaderFields DEF EndsAt
<1>2. PICK n \in Nat : n = -1 + startPos
  OBVIOUS
<1>3. PICK q \in Nat : q = r.pos + n
  BY <1>1, <1>2
<1>4. q + 2 <= end /\ r.pos <= q /\ q <= Len(r.bytes) /\ n \in Int /\ n >= 0
  BY <1>1, <1>2, <1>3
<1>5. skipBytes(r, -1 + startPos) = Moved(r, q, r.value)
  <2>1. skipBytes(r, n) = [r EXCEPT !.pos = q]
    BY <1>3, <1>4, SkippedTo
  <2> QED
    BY <1>2, <2>1 DEF Moved, Readers
<1>6. PICK s : s = Moved(r, q, r.value)
  OBVIOUS
<1>7. s \in Readers /\ s.pos = q /\ s.bytes = r.bytes
  BY <1>1, <1>3, <1>6, MovedFields
<1>8. EndsAt(s.bytes, s.pos, end, 217)
  BY <1>1, <1>3, <1>4, <1>7, EndsAtLater
<1>9. PICK looked : looked = Look(s, <<255, 217>>, limit)
  OBVIOUS
<1>10. looked = IF end - q <= limit THEN Moved(s, end, end - q) ELSE Moved(s, q + limit, -1)
  <2>1. s.pos <= Len(s.bytes)
    BY <1>4, <1>7
  <2>2. Look(s, <<255, 217>>, limit) =
          IF end - s.pos <= limit THEN Moved(s, end, end - s.pos) ELSE Moved(s, s.pos + limit, -1)
    <3>1. 217 # 255
      OBVIOUS
    <3> QED
      BY <1>7, <1>8, <2>1, <3>1, LookFinds
  <2> QED
    BY <1>7, <1>9, <2>2
<1>11. LookedFrom(r, startPos, limit) =
         IF Thrown(looked) \/ looked.value < 0 THEN looked ELSE [looked EXCEPT !.value = looked.value + -1 + startPos]
  BY <1>5, <1>6, <1>9 DEF LookedFrom, EOF_MARKER
<1>12. CASE end - q <= limit
  <2>1. PICK d \in Int, v \in Int : d = end - q /\ v = end - r.pos
    <3>1. r.pos \in Nat /\ q \in Nat
      BY <1>1, <1>3
    <3>2. end - q \in Int /\ end - r.pos \in Int
      BY <3>1
    <3> QED
      BY <3>2
  <2>2. d >= 0
    BY <1>4, <2>1
  <2>3. d + -1 + startPos = v
    <3>1. r.pos \in Nat
      BY <1>1
    <3>2. d + n = v
      BY <1>3, <2>1, <3>1
    <3>3. d + -1 + startPos = d + n
      BY <1>2, <2>1
    <3> QED
      BY <3>2, <3>3
  <2>4. looked = Moved(r, end, d)
    <3>1. looked = Moved(Moved(r, q, r.value), end, d)
      BY <1>6, <1>10, <1>12, <2>1
    <3>2. r.value \in Int
      BY <1>1
    <3>3. Moved(Moved(r, q, r.value), end, d) = Moved(r, end, d)
      BY <1>3, <2>1, <3>2, MovedTwice
    <3> QED
      BY <3>1, <3>3
  <2>5. looked.value = d /\ looked.thrown = Nothing
    <3>1. d \in Int
      BY <2>1
    <3>2. looked.value = d
      BY <2>4, <3>1, MovedFields
    <3>3. looked.thrown = r.thrown
      BY <2>4, <3>1, MovedFields
    <3> QED
      BY <3>2, <3>3
  <2>6. LookedFrom(r, startPos, limit) = [looked EXCEPT !.value = v]
    BY <1>11, <2>2, <2>3, <2>5 DEF Thrown
  <2>7. [Moved(r, end, d) EXCEPT !.value = v] = Moved(r, end, v)
    BY <2>1, ValueChanged
  <2> QED
    BY <2>1, <2>4, <2>6, <2>7
<1>13. CASE ~ (end - q <= limit)
  <2>1. PICK p \in Nat : p = q + limit
    BY <1>3
  <2>2. p <= end
    BY <1>3, <1>13, <2>1
  <2>3. -1 \in Int
    OBVIOUS
  <2>4. looked = Moved(r, p, -1)
    <3>1. looked = Moved(Moved(r, q, r.value), p, -1)
      BY <1>6, <1>10, <1>13, <2>1
    <3>2. r.value \in Int
      BY <1>1
    <3>3. Moved(Moved(r, q, r.value), p, -1) = Moved(r, p, -1)
      BY <1>3, <2>1, <2>3, <3>2, MovedTwice
    <3> QED
      BY <3>1, <3>3
  <2>5. looked.value = -1
    BY <2>1, <2>3, <2>4, MovedFields
  <2>6. LookedFrom(r, startPos, limit) = Moved(r, p, -1)
    BY <1>11, <2>4, <2>5
  <2> QED
    BY <2>1, <2>2, <2>6
<1> QED
  BY <1>12, <1>13

LEMMA LookAround ==
    ASSUME NEW r \in Readers, r.thrown = Nothing, NEW end \in Nat, EndsAt(r.bytes, r.pos, end, 217),
           Expected(r.mContentLength, r.pos, end)
    PROVE  \/ getEndOfSeqeunceSimplified(r, EOF_MARKER) = Moved(r, end, end - r.pos)
           \/ \E q \in Nat : q <= end /\ getEndOfSeqeunceSimplified(r, EOF_MARKER) = Moved(r, q, -1)
<1> DEFINE L == r.mContentLength
           startPos == Half(L)
           endPos == Half(3 * L)
           limit == IF endPos < startPos THEN 0 ELSE endPos - startPos
<1>1. /\ r.pos \in Nat /\ Len(r.bytes) \in Nat /\ L \in Int
      /\ end <= Len(r.bytes) /\ r.pos + 2 <= end
  BY ReaderFields DEF EndsAt
<1>2. getEndOfSeqeunceSimplified(r, EOF_MARKER) = LookedFrom(r, startPos, limit)
  BY DEF getEndOfSeqeunceSimplified, LookedFrom
<1>3. CASE L = -1
  <2>1. startPos = 0 /\ limit = 0
    BY <1>3 DEF Half
  <2>2. getEndOfSeqeunceSimplified(r, EOF_MARKER) = Moved(r, r.pos, -1)
    <3>1. LookedFrom(r, 0, 0) = Moved(r, r.pos, -1)
      BY LookNowhere
    <3> QED
      BY <1>2, <2>1, <3>1
  <2>3. r.pos <= end
    BY <1>1
  <2> QED
    BY <1>1, <2>2, <2>3
<1>4. CASE L >= 2 /\ r.pos + L \div 2 + 1 <= end
  <2> HIDE DEF L
  <2>1. startPos = L \div 2 /\ startPos \in Nat /\ startPos >= 1
    BY <1>1, <1>4 DEF Half
  <2>2. endPos \in Nat
    BY <1>1, <1>4 DEF Half
  <2> HIDE DEF startPos, endPos
  <2>3. r.pos + startPos + 1 <= end
    BY <1>4, <2>1
  <2>4. limit \in Nat
    BY <2>1, <2>2
  <2> HIDE DEF limit
  <2>5. \/ LookedFrom(r, startPos, limit) = Moved(r, end, end - r.pos)
        \/ \E q \in Nat : q <= end /\ LookedFrom(r, startPos, limit) = Moved(r, q, -1)
    BY <2>1, <2>3, <2>4, LookBefore
  <2> QED
    BY <1>2, <2>5
<1> QED
  BY <1>3, <1>4 DEF Expected

(* From there, or from the mark.                                           *)
LEMMA LengthByNative ==
    ASSUME NEW r \in Readers, r.thrown = Nothing, NEW end \in Nat,
           EndsAt(r.bytes, r.pos, end, 217), EndsAt(r.bytes, r.mark, end, 217), end - r.mark <= FRAME_MAX_LENGTH,
           Expected(r.mContentLength, r.pos, end)
    PROVE  \/ lengthNative(r, -1) = Moved(r, end, end - r.pos)
           \/ lengthNative(r, -1) = Moved(r, end, end - r.mark)
<1>1. PICK looked : looked = getEndOfSeqeunceSimplified(r, EOF_MARKER)
  OBVIOUS
<1>2. \/ looked = Moved(r, end, end - r.pos)
      \/ \E q \in Nat : q <= end /\ looked = Moved(r, q, -1)
  BY <1>1, LookAround
<1>3. lengthNative(r, -1) =
        IF looked.thrown # Nothing \/ looked.value >= 0 THEN looked
        ELSE IF reset(looked).thrown # Nothing THEN reset(looked)
        ELSE getEndOfSeqeunce(reset(looked), EOF_MARKER)
  BY <1>1 DEF lengthNative, Thrown
<1>4. CASE looked = Moved(r, end, end - r.pos)
  <2>1. PICK v \in Int : v = end - r.pos
    BY ReaderFields
  <2>2. v >= 0
    BY <2>1, ReaderFields DEF EndsAt
  <2>3. looked.value = v
    BY <1>4, <2>1, MovedFields
  <2> QED
    BY <1>3, <1>4, <2>2, <2>3
<1>5. ASSUME NEW q \in Nat, q <= end, looked = Moved(r, q, -1)
      PROVE  lengthNative(r, -1) = Moved(r, end, end - r.mark)
  <2>1. -1 \in Int
    OBVIOUS
  <2>2. r.mark \in Nat
    BY ReaderFields
  <2>3. looked.value = -1
    BY <1>5, <2>1, MovedFields
  <2>4. looked.thrown = Nothing
    BY <1>5, <2>1, MovedFields
  <2>5. looked.pos = q
    BY <1>5, <2>1, MovedFields
  <2>6. looked.mark = r.mark
    BY <1>5, <2>1, MovedFields
  <2>7. looked \in Readers
    BY <1>5, <2>1, MovedFields
  <2>8. PICK back : back = Moved(r, r.mark, -1)
    OBVIOUS
  <2>9. reset(looked) = back
    <3>1. looked.pos - looked.mark <= FRAME_MAX_LENGTH
      BY <1>5, <2>2, <2>5, <2>6, BufferLength
    <3>2. reset(looked) = [looked EXCEPT !.pos = r.mark]
      BY <2>6, <2>7, <3>1, MoveOfBuffer
    <3>3. [Moved(r, q, -1) EXCEPT !.pos = r.mark] = Moved(r, r.mark, -1)
      BY <1>5, <2>1, <2>2, PlaceChanged
    <3> QED
      BY <1>5, <2>8, <3>2, <3>3
  <2>10. back \in Readers
    BY <2>1, <2>2, <2>8, MovedFields
  <2>11. back.pos = r.mark
    BY <2>1, <2>2, <2>8, MovedFields
  <2>12. back.thrown = Nothing
    BY <2>1, <2>2, <2>8, MovedFields
  <2>13. back.bytes = r.bytes
    BY <2>1, <2>2, <2>8, MovedFields
  <2>14. lengthNative(r, -1) = getEndOfSeqeunce(back, EOF_MARKER)
    BY <1>3, <2>3, <2>4, <2>9, <2>12
  <2>15. getEndOfSeqeunce(back, <<255, 217>>) = Moved(back, end, end - r.mark)
    <3>1. 217 # 255
      OBVIOUS
    <3>2. EndsAt(back.bytes, back.pos, end, 217)
      BY <2>11, <2>13
    <3>3. end - back.pos <= FRAME_MAX_LENGTH
      BY <2>11
    <3>4. getEndOfSeqeunce(back, <<255, 217>>) = Moved(back, end, end - back.pos)
      BY <2>10, <3>1, <3>2, <3>3, LookAlongBuffer
    <3> QED
      BY <2>11, <3>4
  <2>16. PICK v \in Int : v = end - r.mark
    BY <2>2
  <2>17. Moved(Moved(r, r.mark, -1), end, v) = Moved(r, end, v)
    BY <2>1, <2>2, <2>16, MovedTwice
  <2> QED
    BY <2>8, <2>14, <2>15, <2>16, <2>17 DEF EOF_MARKER
<1> QED
  BY <1>2, <1>4, <1>5

-------------------------------------------------------------------------------
(* A call. *)

(* It gives the bytes behind first up to last.                             *)
Gives(r, native, first, last) ==
    LET after == readMjpegFrame(r, native)
    IN  /\ after \in Readers
        /\ after.bytes = r.bytes /\ after.pos = last /\ after.thrown = Nothing
        /\ after.mContentLength = last - first
        /\ after.frame = SubSeq(r.bytes, first + 1, last)

(* The length of the picture when the reader is behind its header.         *)
Length(r, native, soi) ==
    LET header == Moved(Marked(r), soi, soi - r.pos)
        length == parseContentLength(SubSeq(r.bytes, r.pos + 1, soi))
    IN  IF native THEN lengthNative(header, length) ELSE lengthDefault(header, length)

(* With it, the call gives the picture.                                    *)
LEMMA CallOfLength ==
    ASSUME NEW r \in Readers, NEW native \in BOOLEAN, NEW soi \in Nat, r.pos <= soi,
           EndsAt(r.bytes, r.pos, soi + 2, 216), soi + 2 - r.pos <= FRAME_MAX_LENGTH,
           NEW q \in Nat, NEW v \in Nat, Length(r, native, soi) = Moved(Marked(r), q, v),
           q - r.pos <= FRAME_MAX_LENGTH, soi + v <= Len(r.bytes)
    PROVE  Gives(r, native, soi, soi + v)
<1>1. r.pos \in Nat
  BY ReaderFields
<1>2. PICK m : m = Marked(r)
  OBVIOUS
<1>3. m \in Readers /\ m.mark = r.pos /\ m.bytes = r.bytes /\ m.thrown = Nothing
  BY <1>2, MarkedFields
<1>4. PICK n \in Nat, e \in Nat : n \in Int /\ v \in Int /\ n = soi - r.pos /\ e = soi + 2
  BY <1>1
<1>5. headerOf(r, native) = Moved(m, e, n)
  BY <1>2, <1>4, HeaderFound
<1>6. Moved(m, e, n).thrown = m.thrown
  <2>1. n \in Int /\ e \in Nat /\ m \in Readers
    BY <1>3, <1>4
  <2> QED
    BY <2>1, MovedFields
<1>7. Moved(m, e, n).value = n
  BY <1>3, <1>4, MovedFields
<1>8. Moved(m, e, n).mark = m.mark
  <2>1. n \in Int /\ e \in Nat /\ m \in Readers
    BY <1>3, <1>4
  <2> QED
    BY <2>1, MovedFields
<1>9. r.pos + n = soi
  BY <1>1, <1>4
<1>10. [Moved(m, e, n) EXCEPT !.pos = soi] = Moved(m, soi, n)
  <2>1. n \in Int /\ e \in Nat
    BY <1>4
  <2> QED
    BY <1>3, <2>1, PlaceChanged
<1>11. PICK found : found = Moved(m, q, v)
  OBVIOUS
<1>12. readMjpegFrame(r, native) = readFrame(found, n, native)
  <2>1. PICK start : start = headerOf(r, native)
    OBVIOUS
  <2>2. start.thrown = Nothing /\ start.value = n /\ start.mark = r.pos
    BY <1>3, <1>5, <1>6, <1>7, <1>8, <2>1
  <2>3. ~ (start.value < 0)
    BY <1>4, <2>2
  <2>4. [start EXCEPT !.pos = r.pos + n] = Moved(m, soi, n)
    BY <1>5, <1>9, <1>10, <2>1
  <2>5. [start EXCEPT !.pos = r.pos + n].pos = soi
    <3>1. Moved(m, soi, n).pos = soi
      BY <1>3, <1>4, MovedFields
    <3> QED
      BY <2>4, <3>1
  <2>6. Length(r, native, soi) =
          LET length == parseContentLength(SubSeq(r.bytes, r.pos + 1, soi))
          IN  IF native THEN lengthNative(Moved(m, soi, n), length) ELSE lengthDefault(Moved(m, soi, n), length)
    BY <1>2, <1>4 DEF Length
  <2>7. readMjpegFrame(r, native) =
          LET header == [start EXCEPT !.pos = start.mark + start.value]
              length == parseContentLength(SubSeq(r.bytes, start.mark + 1, header.pos))
          IN  readFrame(IF native THEN lengthNative(header, length) ELSE lengthDefault(header, length), start.value, native)
    BY <2>1, <2>2, <2>3 DEF readMjpegFrame, Thrown
  <2> QED
    BY <1>2, <1>11, <2>2, <2>4, <2>5, <2>6, <2>7
<1>13. found \in Readers
  BY <1>3, <1>4, <1>11, MovedFields
<1>14. found.pos = q
  BY <1>3, <1>4, <1>11, MovedFields
<1>15. found.mark = r.pos
  <2>1. m \in Readers /\ v \in Int
    BY <1>3, <1>4
  <2>2. found.mark = m.mark
    BY <1>11, <2>1, MovedFields
  <2> QED
    BY <1>3, <2>2
<1>16. found.value = v
  BY <1>3, <1>4, <1>11, MovedFields
<1>17. found.bytes = r.bytes
  <2>1. m \in Readers /\ v \in Int
    BY <1>3, <1>4
  <2>2. found.bytes = m.bytes
    BY <1>11, <2>1, MovedFields
  <2> QED
    BY <1>3, <2>2
<1>18. found.thrown = Nothing
  <2>1. m \in Readers /\ v \in Int
    BY <1>3, <1>4
  <2>2. found.thrown = m.thrown
    BY <1>11, <2>1, MovedFields
  <2> QED
    BY <1>3, <2>2
<1>19. readFrame(found, n, native) = Pictured(found, soi, soi + v)
  <2>1. ~ Thrown(found) /\ found.value >= 0 /\ found.pos - found.mark <= FRAME_MAX_LENGTH
    BY <1>14, <1>15, <1>16, <1>18 DEF Thrown
  <2>2. found.mark + n = soi
    BY <1>9, <1>15
  <2>3. found.mark + n + found.value <= Len(found.bytes)
    BY <1>16, <1>17, <2>2
  <2>4. readFrame(found, n, native) = Pictured(found, found.mark + n, found.mark + n + found.value)
    BY <1>4, <1>13, <2>1, <2>3, FrameRead
  <2> QED
    BY <1>16, <2>2, <2>4
<1>20. PICK last \in Nat : last = soi + v
  OBVIOUS
<1>21. soi <= last /\ last <= Len(found.bytes)
  BY <1>17, <1>20
<1>22. PICK after : after = Pictured(found, soi, last)
  OBVIOUS
<1>23. after \in Readers
  BY <1>13, <1>20, <1>21, <1>22, PicturedFields
<1>24. after.pos = last /\ after.mContentLength = last - soi
  BY <1>13, <1>20, <1>21, <1>22, PicturedFields
<1>25. after.bytes = r.bytes
  BY <1>13, <1>17, <1>20, <1>21, <1>22, PicturedFields
<1>26. after.frame = SubSeq(r.bytes, soi + 1, last)
  <2>1. after.frame = SubSeq(found.bytes, soi + 1, last)
    BY <1>13, <1>20, <1>21, <1>22, PicturedFields
  <2> QED
    BY <1>17, <2>1
<1>27. after.thrown = Nothing
  BY <1>13, <1>18, <1>20, <1>21, <1>22, PicturedFields
<1>28. readMjpegFrame(r, native) = after
  BY <1>12, <1>19, <1>20, <1>22
<1>29. Gives(r, native, soi, last)
  BY <1>23, <1>24, <1>25, <1>26, <1>27, <1>28 DEF Gives
<1> QED
  BY <1>20, <1>29

LEMMA NoLength ==
    ASSUME NEW bytes \in Seq(Nat), NEW p \in Nat, NEW soi \in Nat, p <= soi, soi <= Len(bytes),
           \A i \in (p + 1)..soi : bytes[i] < 1000
    PROVE  parseContentLength(SubSeq(bytes, p + 1, soi)) = -1
<1> DEFINE header == SubSeq(bytes, p + 1, soi)
<1>1. ASSUME NEW i \in DOMAIN header PROVE header[i] < 1000 /\ header[i] \in Nat
  <2>1. i \in 1..(soi - p) /\ header[i] = bytes[p + i]
    OBVIOUS
  <2>2. p + i \in (p + 1)..soi /\ p + i \in 1..Len(bytes)
    BY <2>1
  <2> QED
    BY <2>1, <2>2
<1> HIDE DEF header
<1>2. {i \in DOMAIN header : header[i] >= 1000} = {}
  BY <1>1
<1> QED
  BY <1>2 DEF parseContentLength, header

(* Byte i is the last line with a length, of n.                            *)
LastLine(bytes, p, soi, i, n) ==
    /\ i \in (p + 1)..soi
    /\ bytes[i] = LengthLine(n)
    /\ \A j \in (p + 1)..soi : j > i => bytes[j] < 1000

LEMMA LastLength ==
    ASSUME NEW bytes \in Seq(Nat), NEW p \in Nat, NEW soi \in Nat, p <= soi, soi <= Len(bytes),
           NEW n \in Nat, NEW i, LastLine(bytes, p, soi, i, n)
    PROVE  parseContentLength(SubSeq(bytes, p + 1, soi)) = n
<1> USE DEF LastLine
<1> DEFINE header == SubSeq(bytes, p + 1, soi)
           lines == {j \in DOMAIN header : header[j] >= 1000}
<1>1. PICK k \in Nat : k = i - p
  OBVIOUS
<1>2. k \in DOMAIN header /\ header[k] = 1000 + n
  BY <1>1 DEF LengthLine
<1>3. k \in lines
  BY <1>2
<1>4. ASSUME NEW j \in lines PROVE j <= k
  <2>1. j \in 1..(soi - p) /\ header[j] = bytes[p + j]
    OBVIOUS
  <2>2. p + j \in (p + 1)..soi /\ ~ (bytes[p + j] < 1000)
    BY <2>1
  <2> QED
    BY <1>1, <2>1, <2>2
<1>5. \A j \in lines : j \in Nat
  OBVIOUS
<1>6. (CHOOSE l \in lines : \A j \in lines : j <= l) = k
  <2> HIDE DEF lines
  <2>1. \E l \in lines : \A j \in lines : j <= l
    BY <1>3, <1>4
  <2> DEFINE last == CHOOSE l \in lines : \A j \in lines : j <= l
  <2>2. last \in lines /\ \A j \in lines : j <= last
    BY <2>1
  <2> HIDE DEF last
  <2>3. last = k
    BY <1>3, <1>4, <1>5, <2>2
  <2> QED
    BY <2>3 DEF last
<1>7. parseContentLength(header) = header[k] - 1000
  <2>1. lines # {}
    BY <1>3
  <2>2. parseContentLength(header) =
          IF lines = {} THEN -1 ELSE header[CHOOSE l \in lines : \A j \in lines : j <= l] - 1000
    BY DEF parseContentLength
  <2> HIDE DEF header, lines
  <2> QED
    BY <1>6, <2>1, <2>2
<1> QED
  BY <1>2, <1>7

(* With a length of n the picture is the n bytes behind the header.        *)
LEMMA CallWithLength ==
    ASSUME NEW r \in Readers, NEW native \in BOOLEAN, NEW soi \in Nat, r.pos <= soi,
           EndsAt(r.bytes, r.pos, soi + 2, 216), soi + 2 - r.pos <= FRAME_MAX_LENGTH,
           NEW n \in Nat, parseContentLength(SubSeq(r.bytes, r.pos + 1, soi)) = n, soi + n <= Len(r.bytes)
    PROVE  Gives(r, native, soi, soi + n)
<1>1. r.pos \in Nat
  BY ReaderFields
<1>2. PICK m : m = Marked(r)
  OBVIOUS
<1>3. m \in Readers
  BY <1>2, MarkedFields
<1>4. PICK d \in Int : d = soi - r.pos
  BY <1>1
<1>5. n \in Int /\ n >= 0
  OBVIOUS
<1>6. [Moved(m, soi, d) EXCEPT !.value = n] = Moved(m, soi, n)
  BY <1>3, <1>4, <1>5, ValueChanged
<1>7. Length(r, native, soi) =
        IF native THEN lengthNative(Moved(m, soi, d), n) ELSE lengthDefault(Moved(m, soi, d), n)
  BY <1>2, <1>4 DEF Length
<1>8. Length(r, native, soi) = Moved(m, soi, n)
  BY <1>5, <1>6, <1>7 DEF lengthNative, lengthDefault
<1>9. soi - r.pos <= FRAME_MAX_LENGTH
  BY <1>1, BufferLength
<1> QED
  BY <1>2, <1>8, <1>9, CallOfLength

(* Without one the default reader finds the end of the picture.            *)
LEMMA CallToEnd ==
    ASSUME NEW r \in Readers, NEW soi \in Nat, r.pos <= soi, NEW end \in Nat, soi + 4 <= end,
           EndsAt(r.bytes, r.pos, soi + 2, 216), EndsAt(r.bytes, soi, end, 217), end - r.pos <= FRAME_MAX_LENGTH,
           parseContentLength(SubSeq(r.bytes, r.pos + 1, soi)) = -1
    PROVE  Gives(r, FALSE, soi, end)
<1>1. r.pos \in Nat /\ end <= Len(r.bytes)
  BY ReaderFields DEF EndsAt
<1>2. PICK m : m = Marked(r)
  OBVIOUS
<1>3. m \in Readers
  BY <1>2, MarkedFields
<1>4. m.bytes = r.bytes
  BY <1>2, MarkedFields
<1>5. PICK d \in Int : d = soi - r.pos
  BY <1>1
<1>6. PICK v \in Nat : v = end - soi
  OBVIOUS
<1>7. v \in Int
  BY <1>6
<1>8. PICK header : header = Moved(m, soi, d)
  OBVIOUS
<1>9. header \in Readers
  BY <1>3, <1>5, <1>8, MovedFields
<1>10. header.pos = soi
  BY <1>3, <1>5, <1>8, MovedFields
<1>11. header.bytes = r.bytes
  BY <1>3, <1>4, <1>5, <1>8, MovedFields
<1>12. Length(r, FALSE, soi) = getEndOfSeqeunce(header, EOF_MARKER)
  <2>1. Length(r, FALSE, soi) = lengthDefault(header, -1)
    BY <1>2, <1>5, <1>8 DEF Length
  <2>2. ~ (-1 >= 0)
    OBVIOUS
  <2> QED
    BY <2>1, <2>2 DEF lengthDefault
<1>13. getEndOfSeqeunce(header, <<255, 217>>) = Moved(header, end, v)
  <2>1. 217 # 255
    OBVIOUS
  <2>2. EndsAt(header.bytes, header.pos, end, 217)
    BY <1>10, <1>11
  <2>3. end - header.pos <= FRAME_MAX_LENGTH
    BY <1>1, <1>10, BufferLength
  <2>4. getEndOfSeqeunce(header, <<255, 217>>) = Moved(header, end, end - header.pos)
    BY <1>9, <2>1, <2>2, <2>3, LookAlongBuffer
  <2> QED
    BY <1>6, <1>10, <2>4
<1>14. Moved(Moved(m, soi, d), end, v) = Moved(m, end, v)
  BY <1>3, <1>5, <1>7, MovedTwice
<1>15. Length(r, FALSE, soi) = Moved(Marked(r), end, v)
  BY <1>2, <1>8, <1>12, <1>13, <1>14 DEF EOF_MARKER
<1>16. soi + v = end /\ soi + v <= Len(r.bytes) /\ soi + 2 - r.pos <= FRAME_MAX_LENGTH
  BY <1>1, <1>6, BufferLength
<1>17. Gives(r, FALSE, soi, soi + v)
  BY <1>6, <1>15, <1>16, CallOfLength
<1> QED
  BY <1>16, <1>17

(* The native reader finds it from where it is, or from the mark.          *)
LEMMA CallToEndNative ==
    ASSUME NEW r \in Readers, NEW soi \in Nat, r.pos <= soi, NEW end \in Nat, soi + 4 <= end,
           EndsAt(r.bytes, r.pos, soi + 2, 216), EndsAt(r.bytes, soi, end, 217), EndsAt(r.bytes, r.pos, end, 217),
           end - r.pos <= FRAME_MAX_LENGTH, end + (soi - r.pos) <= Len(r.bytes),
           parseContentLength(SubSeq(r.bytes, r.pos + 1, soi)) = -1,
           Expected(r.mContentLength, soi, end)
    PROVE  Gives(r, TRUE, soi, end) \/ Gives(r, TRUE, soi, end + (soi - r.pos))
<1>1. r.pos \in Nat /\ end <= Len(r.bytes)
  BY ReaderFields DEF EndsAt
<1>2. PICK m : m = Marked(r)
  OBVIOUS
<1>3. m \in Readers
  BY <1>2, MarkedFields
<1>4. m.bytes = r.bytes /\ m.mark = r.pos /\ m.thrown = Nothing /\ m.mContentLength = r.mContentLength
  BY <1>2, MarkedFields
<1>5. PICK d \in Int : d = soi - r.pos
  BY <1>1
<1>6. PICK header : header = Moved(m, soi, d)
  OBVIOUS
<1>7. header \in Readers
  BY <1>3, <1>5, <1>6, MovedFields
<1>8. header.pos = soi
  BY <1>3, <1>5, <1>6, MovedFields
<1>9. header.bytes = m.bytes
  BY <1>3, <1>5, <1>6, MovedFields
<1>10. header.mark = m.mark
  BY <1>3, <1>5, <1>6, MovedFields
<1>11. header.thrown = m.thrown
  BY <1>3, <1>5, <1>6, MovedFields
<1>12. header.mContentLength = m.mContentLength
  BY <1>3, <1>5, <1>6, MovedFields
<1>13. Length(r, TRUE, soi) = lengthNative(header, -1)
  BY <1>2, <1>5, <1>6 DEF Length
<1>14. \/ lengthNative(header, -1) = Moved(header, end, end - header.pos)
       \/ lengthNative(header, -1) = Moved(header, end, end - header.mark)
  <2>1. EndsAt(header.bytes, header.pos, end, 217)
    BY <1>4, <1>8, <1>9
  <2>2. EndsAt(header.bytes, header.mark, end, 217)
    BY <1>4, <1>9, <1>10
  <2>3. end - header.mark <= FRAME_MAX_LENGTH
    BY <1>4, <1>10
  <2>4. header.thrown = Nothing
    BY <1>4, <1>11
  <2>5. Expected(header.mContentLength, header.pos, end)
    BY <1>4, <1>8, <1>12
  <2> QED
    BY <1>7, <2>1, <2>2, <2>3, <2>4, <2>5, LengthByNative
<1>15. ASSUME NEW v \in Nat, lengthNative(header, -1) = Moved(header, end, v), soi + v <= Len(r.bytes)
       PROVE  Gives(r, TRUE, soi, soi + v)
  <2>1. v \in Int
    OBVIOUS
  <2>2. Moved(Moved(m, soi, d), end, v) = Moved(m, end, v)
    BY <1>3, <1>5, <2>1, MovedTwice
  <2>3. Length(r, TRUE, soi) = Moved(Marked(r), end, v)
    BY <1>2, <1>6, <1>13, <1>15, <2>2
  <2>4. soi + 2 - r.pos <= FRAME_MAX_LENGTH
    BY <1>1, BufferLength
  <2>5. TRUE \in BOOLEAN
    OBVIOUS
  <2> QED
    BY <1>15, <2>3, <2>4, <2>5, CallOfLength
<1>16. CASE lengthNative(header, -1) = Moved(header, end, end - header.pos)
  <2>1. PICK v \in Nat : v = end - soi
    OBVIOUS
  <2>2. soi + v = end /\ soi + v <= Len(r.bytes)
    BY <1>1, <2>1
  <2> QED
    BY <1>8, <1>15, <1>16, <2>1, <2>2
<1>17. CASE lengthNative(header, -1) = Moved(header, end, end - header.mark)
  <2>1. PICK v \in Nat : v = end - r.pos
    BY <1>1
  <2>2. soi + v = end + (soi - r.pos)
    BY <1>1, <2>1
  <2> QED
    BY <1>4, <1>10, <1>15, <1>17, <2>1, <2>2
<1> QED
  BY <1>14, <1>16, <1>17

-------------------------------------------------------------------------------
(* Streams. *)

LEMMA StreamFields ==
    ASSUME NEW s \in Streams
    PROVE  /\ s.bytes \in Seq(Nat) /\ Len(s.bytes) \in Nat
           /\ s.pictures \in Seq([soi : Nat, end : Nat]) /\ Len(s.pictures) \in Nat
           /\ Pictures(s) = 1..Len(s.pictures)
           /\ s.given \in BOOLEAN
<1>1. s \in [bytes : Seq(Nat), pictures : Seq([soi : Nat, end : Nat]), given : BOOLEAN]
  BY StreamsAssumption
<1>2. s.bytes \in Seq(Nat) /\ s.pictures \in Seq([soi : Nat, end : Nat]) /\ s.given \in BOOLEAN
  BY <1>1
<1> QED
  BY <1>2 DEF Pictures

LEMMA PictureFields ==
    ASSUME NEW s \in Streams, NEW k \in Pictures(s)
    PROVE  /\ k \in Nat \ {0}
           /\ s.pictures[k].soi \in Nat /\ s.pictures[k].end \in Nat /\ HeaderStart(s, k) \in Nat
<1>1. s.pictures \in Seq([soi : Nat, end : Nat]) /\ k \in 1..Len(s.pictures) /\ Len(s.pictures) \in Nat
  BY StreamFields
<1>2. ASSUME NEW j \in 1..Len(s.pictures)
      PROVE  s.pictures[j].soi \in Nat /\ s.pictures[j].end \in Nat
  <2>1. s.pictures[j] \in [soi : Nat, end : Nat]
    <3> DEFINE P == [soi : Nat, end : Nat]
    <3>1. s.pictures \in Seq(P)
      BY <1>1
    <3> HIDE DEF P
    <3>2. s.pictures[j] \in P
      BY <3>1
    <3> QED
      BY <3>2 DEF P
  <2> QED
    BY <2>1
<1>3. k # 1 => k - 1 \in 1..Len(s.pictures)
  BY <1>1
<1> QED
  BY <1>1, <1>2, <1>3 DEF HeaderStart

(* The marker of the picture is the first one behind its header.           *)
LEMMA HeaderEnds ==
    ASSUME NEW s \in Streams, NEW k \in Pictures(s), NEW soi \in Nat, soi = s.pictures[k].soi,
           NEW p \in Nat, HeaderStart(s, k) <= p, p <= soi
    PROVE  EndsAt(s.bytes, p, soi + 2, 216)
<1>1. Separated(s, k)
  BY StreamsAssumption
<1>2. PICK start \in Nat, end \in Nat : start = HeaderStart(s, k) /\ end = s.pictures[k].end
  BY PictureFields
<1>3. /\ soi + 2 <= end /\ end <= Len(s.bytes)
      /\ s.bytes[soi + 1] = 255 /\ s.bytes[soi + 2] = 216
      /\ \A i \in (start + 1)..soi : s.bytes[i] # 255
  BY <1>1, <1>2 DEF Separated, Header
<1>4. Len(s.bytes) \in Nat
  BY StreamFields
<1>5. \A i \in (p + 1)..soi : s.bytes[i] # 255
  BY <1>2, <1>3
<1>6. soi + 2 <= Len(s.bytes)
  <2>1. soi + 2 <= end /\ end <= Len(s.bytes)
    BY <1>3
  <2>2. PICK n \in Nat : n = Len(s.bytes)
    BY <1>4
  <2> QED
    BY <1>2, <2>1, <2>2
<1>7. p + 2 <= soi + 2 /\ (soi + 2) - 1 = soi + 1 /\ (soi + 2) - 2 = soi
  OBVIOUS
<1>8. s.bytes[(soi + 2) - 1] = 255 /\ s.bytes[soi + 2] = 216
  BY <1>3, <1>7
<1>9. \A i \in (p + 1)..((soi + 2) - 2) : s.bytes[i] = 255 => s.bytes[i + 1] \notin {216, 255}
  BY <1>5, <1>7
<1> QED
  BY <1>6, <1>7, <1>8, <1>9 DEF EndsAt

(* Without a length, so is the one at its end.                             *)
LEMMA PictureEnds ==
    ASSUME NEW s \in Streams, NEW k \in Pictures(s), NEW end \in Nat, end = s.pictures[k].end, ~ s.given,
           NEW p \in Nat, HeaderStart(s, k) <= p, p <= s.pictures[k].soi
    PROVE  EndsAt(s.bytes, p, end, 217)
<1>1. Separated(s, k) /\ Delimited(s, k)
  BY StreamsAssumption
<1>2. PICK start \in Nat, soi \in Nat : start = HeaderStart(s, k) /\ soi = s.pictures[k].soi
  BY PictureFields
<1>3. /\ end <= Len(s.bytes)
      /\ \A i \in (start + 1)..soi : s.bytes[i] # 255
  BY <1>1, <1>2 DEF Separated, Header
<1>4. /\ soi + 4 <= end
      /\ s.bytes[end - 1] = 255 /\ s.bytes[end] = 217
      /\ \A i \in (soi + 1)..(end - 2) : s.bytes[i] = 255 => s.bytes[i + 1] \notin {217, 255}
  BY <1>1, <1>2 DEF Delimited
<1>5. ASSUME NEW i \in (p + 1)..(end - 2), s.bytes[i] = 255 PROVE s.bytes[i + 1] \notin {217, 255}
  <2>1. ~ (i \in (start + 1)..soi)
    BY <1>3, <1>5
  <2>2. i \in (soi + 1)..(end - 2)
    BY <1>2, <1>5, <2>1
  <2> QED
    BY <1>4, <1>5, <2>2
<1>6. p + 2 <= end
  BY <1>2, <1>4
<1> QED
  BY <1>3, <1>4, <1>5, <1>6 DEF EndsAt

(* What parseContentLength reads between p and the picture.                *)
LEMMA LengthRead ==
    ASSUME NEW s \in Streams, NEW k \in Pictures(s), NEW soi \in Nat, soi = s.pictures[k].soi,
           NEW p \in Nat, HeaderStart(s, k) <= p, p <= soi
    PROVE  /\ s.given /\ p = HeaderStart(s, k) =>
                parseContentLength(SubSeq(s.bytes, p + 1, soi)) = FrameLength(s, k)
           /\ ~ s.given => parseContentLength(SubSeq(s.bytes, p + 1, soi)) = -1
<1>1. Separated(s, k) /\ IF s.given THEN Measured(s, k) ELSE Delimited(s, k)
  BY StreamsAssumption
<1>2. PICK end \in Nat : end = s.pictures[k].end
  BY PictureFields
<1>3. soi + 2 <= end /\ end <= Len(s.bytes)
  BY <1>1, <1>2 DEF Separated
<1>4. s.bytes \in Seq(Nat) /\ Len(s.bytes) \in Nat
  BY StreamFields
<1>5. soi <= Len(s.bytes)
  BY <1>2, <1>3, <1>4
<1>6. CASE s.given /\ p = HeaderStart(s, k)
  <2>1. PICK n \in Nat : n = FrameLength(s, k)
    <3>1. end - soi \in Nat
      BY <1>2, <1>3
    <3> QED
      BY <1>2, <3>1 DEF FrameLength
  <2>2. PICK i : LastLine(s.bytes, p, soi, i, n)
    BY <1>1, <1>6, <2>1 DEF Measured, Header, LastLine
  <2>3. parseContentLength(SubSeq(s.bytes, p + 1, soi)) = n
    BY <1>4, <1>5, <2>1, <2>2, LastLength
  <2> QED
    BY <1>6, <2>1, <2>3
<1>7. CASE ~ s.given
  <2>1. PICK start \in Nat : start = HeaderStart(s, k)
    BY PictureFields
  <2>2. \A i \in (start + 1)..soi : s.bytes[i] < 1000
    BY <1>1, <1>7, <2>1 DEF Delimited, Header
  <2>3. \A i \in (p + 1)..soi : s.bytes[i] < 1000
    BY <2>1, <2>2
  <2>4. parseContentLength(SubSeq(s.bytes, p + 1, soi)) = -1
    BY <1>4, <1>5, <2>3, NoLength
  <2> QED
    BY <1>7, <2>4
<1> QED
  BY <1>6, <1>7

-------------------------------------------------------------------------------
(* What holds of every call, whatever it finds. *)

(* The reader is in the stream, and goes back to the mark.                 *)
Within(r, bytes, mark) == r \in Readers /\ r.bytes = bytes /\ r.mark = mark /\ r.pos <= Len(bytes)

LEMMA ThrowsWithin ==
    ASSUME NEW bytes, NEW mark, NEW r, Within(r, bytes, mark), NEW exception \in Exceptions
    PROVE  Within(Throws(r, exception), bytes, mark) /\ Throws(r, exception).thrown = exception
  BY DEF Within, Throws, Readers

LEMMA ValueWithin ==
    ASSUME NEW bytes, NEW mark, NEW r, Within(r, bytes, mark), NEW v \in Int
    PROVE  Within([r EXCEPT !.value = v], bytes, mark)
  BY DEF Within, Readers

LEMMA LengthKeptWithin ==
    ASSUME NEW bytes, NEW mark, NEW r, Within(r, bytes, mark), NEW v \in Int
    PROVE  Within([r EXCEPT !.mContentLength = v], bytes, mark)
  BY DEF Within, Readers

LEMMA PlaceWithin ==
    ASSUME NEW bytes, NEW mark, NEW r, Within(r, bytes, mark), NEW p \in Nat, p <= Len(bytes)
    PROVE  Within([r EXCEPT !.pos = p], bytes, mark)
  BY DEF Within, Readers

LEMMA LookWithin ==
    ASSUME NEW bytes, NEW mark, NEW r, Within(r, bytes, mark), NEW sequence, NEW limit \in Nat
    PROVE  Within(Look(r, sequence, limit), bytes, mark)
<1>1. r \in Readers /\ r.bytes = bytes /\ r.mark = mark /\ r.pos <= Len(r.bytes)
  BY DEF Within
<1>2. Len(bytes) \in Nat /\ Len(bytes) <= Len(bytes)
  BY <1>1, ReaderFields
<1>3. PICK looked : looked = Look(r, sequence, limit)
  OBVIOUS
<1>4. \/ looked = [r EXCEPT !.pos = Len(r.bytes), !.thrown = "EOFException"]
      \/ \E p \in Nat, v \in Int : looked = Moved(r, p, v) /\ p <= Len(r.bytes)
  BY <1>1, <1>3, LookGoesOn
<1>5. CASE looked = [r EXCEPT !.pos = Len(r.bytes), !.thrown = "EOFException"]
  <2>1. Within([r EXCEPT !.pos = Len(bytes)], bytes, mark)
    BY <1>2, PlaceWithin
  <2>2. "EOFException" \in Exceptions
    BY DEF Exceptions
  <2>3. Within(Throws([r EXCEPT !.pos = Len(bytes)], "EOFException"), bytes, mark)
    BY <2>1, <2>2, ThrowsWithin
  <2>4. looked = Throws([r EXCEPT !.pos = Len(bytes)], "EOFException")
    BY <1>1, <1>5 DEF Throws, Readers
  <2> QED
    BY <1>3, <2>3, <2>4
<1>6. ASSUME NEW p \in Nat, NEW v \in Int, looked = Moved(r, p, v), p <= Len(r.bytes)
      PROVE  Within(looked, bytes, mark)
  <2>1. looked \in Readers
    BY <1>1, <1>6, MovedFields
  <2>2. looked.pos = p
    BY <1>1, <1>6, MovedFields
  <2>3. looked.bytes = r.bytes
    BY <1>1, <1>6, MovedFields
  <2>4. looked.mark = r.mark
    BY <1>1, <1>6, MovedFields
  <2> QED
    BY <1>1, <1>6, <2>1, <2>2, <2>3, <2>4 DEF Within
<1> QED
  BY <1>3, <1>4, <1>5, <1>6

LEMMA ResetWithin ==
    ASSUME NEW bytes, NEW mark \in Nat, mark <= Len(bytes), NEW r, Within(r, bytes, mark)
    PROVE  /\ Within(reset(r), bytes, mark)
           /\ r.thrown # Nothing => reset(r).thrown # Nothing
           /\ reset(r).thrown = Nothing => reset(r) = [r EXCEPT !.pos = mark]
<1>1. PICK back : back = [r EXCEPT !.pos = mark]
  OBVIOUS
<1>2. Within(back, bytes, mark)
  BY <1>1, PlaceWithin
<1>3. back.thrown = r.thrown
  BY <1>1 DEF Within, Readers
<1>4. "IOException" \in Exceptions /\ "IOException" # Nothing
  BY DEF Exceptions, Nothing
<1>5. Within(Throws(r, "IOException"), bytes, mark) /\ Throws(r, "IOException").thrown # Nothing
  BY <1>4, ThrowsWithin
<1>6. r.mark = mark
  BY DEF Within
<1>7. reset(r) = back \/ reset(r) = Throws(r, "IOException")
  BY <1>1, <1>6 DEF reset
<1> QED
  BY <1>1, <1>2, <1>3, <1>5, <1>7

LEMMA SkipWithin ==
    ASSUME NEW bytes, NEW mark, NEW r, Within(r, bytes, mark), NEW n \in Int
    PROVE  Within(skipBytes(r, n), bytes, mark) /\ r.pos <= skipBytes(r, n).pos
<1>1. r \in Readers /\ r.bytes = bytes /\ r.pos <= Len(bytes)
  BY DEF Within
<1>2. r.pos \in Nat /\ Len(bytes) \in Nat
  BY <1>1, ReaderFields
<1>3. PICK p : p = IF n <= 0 THEN r.pos ELSE IF r.pos + n > Len(bytes) THEN Len(bytes) ELSE r.pos + n
  OBVIOUS
<1>4. p \in Nat /\ p <= Len(bytes) /\ r.pos <= p
  BY <1>1, <1>2, <1>3
<1>5. skipBytes(r, n) = [r EXCEPT !.pos = p]
  BY <1>1, <1>3 DEF skipBytes
<1>6. Within([r EXCEPT !.pos = p], bytes, mark)
  BY <1>4, PlaceWithin
<1>7. [r EXCEPT !.pos = p].pos = p
  BY <1>1 DEF Readers
<1> QED
  BY <1>4, <1>5, <1>6, <1>7

(* The searches for the length of the picture.                             *)
LEMMA EndWithin ==
    ASSUME NEW bytes, NEW mark, NEW r, Within(r, bytes, mark), NEW sequence
    PROVE  Within(getEndOfSeqeunce(r, sequence), bytes, mark)
  BY LookWithin, BufferLength DEF getEndOfSeqeunce

LEMMA HalfInt ==
    ASSUME NEW x \in Int
    PROVE  Half(x) \in Int
  BY DEF Half

LEMMA SimplifiedWithin ==
    ASSUME NEW bytes, NEW mark, NEW r, Within(r, bytes, mark), NEW sequence
    PROVE  Within(getEndOfSeqeunceSimplified(r, sequence), bytes, mark)
<1> DEFINE startPos == Half(r.mContentLength)
           endPos == Half(3 * r.mContentLength)
           limit == IF endPos < startPos THEN 0 ELSE endPos - startPos
           looked == Look(skipBytes(r, -1 + startPos), sequence, limit)
<1>1. r.mContentLength \in Int /\ 3 * r.mContentLength \in Int
  BY ReaderFields DEF Within
<1>2. startPos \in Int /\ endPos \in Int
  BY <1>1, HalfInt
<1>3. getEndOfSeqeunceSimplified(r, sequence) =
        IF Thrown(looked) \/ looked.value < 0 THEN looked ELSE [looked EXCEPT !.value = looked.value + -1 + startPos]
  BY DEF getEndOfSeqeunceSimplified
<1> HIDE DEF startPos, endPos
<1>4. -1 + startPos \in Int /\ limit \in Nat
  BY <1>2
<1>5. Within(looked, bytes, mark)
  <2>1. Within(skipBytes(r, -1 + startPos), bytes, mark)
    BY <1>4, SkipWithin
  <2> HIDE DEF limit
  <2> QED
    BY <1>4, <2>1, LookWithin
<1> HIDE DEF looked
<1>6. PICK v \in Int : v = looked.value + -1 + startPos
  <2>1. looked.value \in Int
    BY <1>5, ReaderFields DEF Within
  <2> QED
    BY <1>2, <2>1
<1>7. Within([looked EXCEPT !.value = v], bytes, mark)
  BY <1>5, ValueWithin
<1> QED
  BY <1>3, <1>5, <1>6, <1>7

LEMMA LengthWithin ==
    ASSUME NEW bytes, NEW mark \in Nat, mark <= Len(bytes), NEW r, Within(r, bytes, mark), NEW length \in Int
    PROVE  /\ Within(lengthDefault(r, length), bytes, mark)
           /\ Within(lengthNative(r, length), bytes, mark)
<1>1. Within([r EXCEPT !.value = length], bytes, mark)
  BY ValueWithin
<1>2. Within(lengthDefault(r, length), bytes, mark)
  BY <1>1, EndWithin DEF lengthDefault
<1>3. PICK end : end = getEndOfSeqeunceSimplified(r, EOF_MARKER)
  OBVIOUS
<1>4. Within(end, bytes, mark)
  BY <1>3, SimplifiedWithin
<1>5. Within(reset(end), bytes, mark)
  BY <1>4, ResetWithin
<1>6. Within(getEndOfSeqeunce(reset(end), EOF_MARKER), bytes, mark)
  BY <1>5, EndWithin
<1>7. lengthNative(r, length) \in
        {[r EXCEPT !.value = length], end, reset(end), getEndOfSeqeunce(reset(end), EOF_MARKER)}
  BY <1>3 DEF lengthNative
<1> QED
  BY <1>1, <1>2, <1>4, <1>5, <1>6, <1>7

LEMMA LengthInt ==
    ASSUME NEW header \in Seq(Nat)
    PROVE  parseContentLength(header) \in Int
<1> DEFINE lines == {i \in DOMAIN header : header[i] >= 1000}
           distances == {Len(header) - i : i \in lines}
<1>1. CASE lines = {}
  BY <1>1 DEF parseContentLength
<1>2. CASE lines # {}
  <2>1. \A i \in lines : i \in 1..Len(header)
    OBVIOUS
  <2>2. Len(header) \in Nat
    OBVIOUS
  <2>3. distances \in SUBSET Nat /\ distances # {}
    <3> HIDE DEF lines
    <3> QED
      BY <1>2, <2>1, <2>2
  <2>4. PICK d \in distances : \A n \in distances : d <= n
    <3> HIDE DEF distances
    <3> QED
      BY <2>3, WellOrdered
  <2>5. PICK l \in lines : d = Len(header) - l
    <3> HIDE DEF lines
    <3> QED
      BY <2>4
  <2>6. \A j \in lines : j <= l
    <3> HIDE DEF lines
    <3>1. ASSUME NEW j \in lines PROVE j <= l
      <4>1. Len(header) - j \in distances
        OBVIOUS
      <4>2. d <= Len(header) - j
        <5> HIDE DEF distances
        <5> QED
          BY <2>4, <4>1
      <4> HIDE DEF distances
      <4> QED
        BY <2>1, <2>2, <2>5, <4>2
    <3> QED
      BY <3>1
  <2> DEFINE last == CHOOSE i \in lines : \A j \in lines : j <= i
  <2>7. last \in lines
    <3> HIDE DEF lines
    <3> QED
      BY <2>5, <2>6
  <2>8. header[last] \in Int
    <3> HIDE DEF last
    <3> QED
      BY <2>7
  <2>9. parseContentLength(header) = header[last] - 1000
    BY <1>2 DEF parseContentLength
  <2> HIDE DEF last
  <2> QED
    BY <2>8, <2>9
<1> QED
  BY <1>1, <1>2

(* A call that throws nothing gives the bytes it read last, and none from  *)
(* before.                                                                 *)
GoesOn(bytes, pos, after) ==
    /\ after \in Readers /\ after.bytes = bytes /\ after.pos <= Len(bytes)
    /\ after.thrown = Nothing =>
         \E start \in Nat : /\ pos <= start /\ start <= after.pos
                            /\ after.frame = SubSeq(bytes, start + 1, after.pos)

LEMMA ThrownGoesOn ==
    ASSUME NEW bytes, NEW mark, NEW pos, NEW r, Within(r, bytes, mark), r.thrown # Nothing
    PROVE  GoesOn(bytes, pos, r)
  BY DEF Within, GoesOn

LEMMA ReadFullyGoesOn ==
    ASSUME NEW bytes, NEW mark \in Nat, NEW pos \in Nat, NEW r, Within(r, bytes, mark), pos <= r.pos, NEW n \in Nat
    PROVE  GoesOn(bytes, pos, readFully(r, n))
<1>1. r \in Readers /\ r.bytes = bytes /\ r.pos <= Len(bytes)
  BY DEF Within
<1>2. r.pos \in Nat /\ bytes \in Seq(Nat) /\ Len(bytes) \in Nat /\ Len(bytes) <= Len(bytes)
  BY <1>1, ReaderFields
<1>3. CASE r.pos + n > Len(bytes)
  <2>1. Within([r EXCEPT !.pos = Len(bytes)], bytes, mark)
    BY <1>2, PlaceWithin
  <2>2. "EOFException" \in Exceptions /\ "EOFException" # Nothing
    BY DEF Exceptions, Nothing
  <2>3. PICK after : after = Throws([r EXCEPT !.pos = Len(bytes)], "EOFException")
    OBVIOUS
  <2>4. Within(after, bytes, mark) /\ after.thrown # Nothing
    BY <2>1, <2>2, <2>3, ThrowsWithin
  <2>5. readFully(r, n) = after
    BY <1>1, <1>3, <2>3 DEF readFully
  <2> QED
    BY <2>4, <2>5, ThrownGoesOn
<1>4. CASE ~ (r.pos + n > Len(bytes))
  <2>1. PICK last \in Nat : last = r.pos + n
    BY <1>2
  <2>2. last <= Len(bytes) /\ r.pos <= last
    BY <1>2, <1>4, <2>1
  <2>3. PICK frame \in Seq(Nat) : frame = SubSeq(bytes, r.pos + 1, last)
    <3>1. PICK first \in Nat : first = r.pos
      BY <1>2
    <3>2. first <= last /\ last <= Len(bytes)
      BY <2>2, <3>1
    <3>3. SubSeq(bytes, first + 1, last) \in Seq(Nat)
      BY <1>2, <2>1, <3>2
    <3> QED
      BY <3>1, <3>3
  <2>4. readFully(r, n) = [r EXCEPT !.pos = last, !.frame = frame]
    BY <1>1, <1>4, <2>1, <2>3 DEF readFully
  <2>5. PICK after : after = [r EXCEPT !.pos = last, !.frame = frame]
    OBVIOUS
  <2>6. after \in Readers /\ after.bytes = r.bytes /\ after.pos = last /\ after.frame = frame
    BY <1>1, <2>1, <2>3, <2>5 DEF Readers
  <2>7. \E start \in Nat : pos <= start /\ start <= after.pos /\ after.frame = SubSeq(bytes, start + 1, after.pos)
    BY <1>2, <2>2, <2>3, <2>6
  <2>8. GoesOn(bytes, pos, after)
    BY <1>1, <2>2, <2>6, <2>7 DEF GoesOn
  <2> QED
    BY <2>4, <2>5, <2>8
<1> QED
  BY <1>3, <1>4

LEMMA ReadFrameGoesOn ==
    ASSUME NEW bytes, NEW mark \in Nat, mark <= Len(bytes), NEW r, Within(r, bytes, mark), NEW headerLen \in Int,
           NEW native \in BOOLEAN
    PROVE  GoesOn(bytes, mark, readFrame(r, headerLen, native))
<1>1. PICK measured : measured = [r EXCEPT !.mContentLength = r.value]
  OBVIOUS
<1>2. r.value \in Int
  BY ReaderFields DEF Within
<1>3. Within(measured, bytes, mark)
  BY <1>1, <1>2, LengthKeptWithin
<1>4. PICK back : back = reset(measured)
  OBVIOUS
<1>5. Within(back, bytes, mark)
  BY <1>3, <1>4, ResetWithin
<1>6. readFrame(r, headerLen, native) =
        IF r.thrown # Nothing THEN r
        ELSE IF back.thrown # Nothing THEN back
        ELSE IF r.value < 0 THEN Throws(IF native THEN skipBytes(back, headerLen) ELSE back, "RuntimeException")
        ELSE readFully(skipBytes(back, headerLen), r.value)
  BY <1>1, <1>4 DEF readFrame, Thrown
<1>7. CASE r.thrown # Nothing
  BY <1>6, <1>7, ThrownGoesOn
<1>8. CASE r.thrown = Nothing /\ back.thrown # Nothing
  <2>1. GoesOn(bytes, mark, back)
    BY <1>5, <1>8, ThrownGoesOn
  <2> QED
    BY <1>6, <1>8, <2>1
<1>9. CASE r.thrown = Nothing /\ back.thrown = Nothing /\ r.value < 0
  <2>1. "RuntimeException" \in Exceptions /\ "RuntimeException" # Nothing
    BY DEF Exceptions, Nothing
  <2>2. PICK stopped : stopped = IF native THEN skipBytes(back, headerLen) ELSE back
    OBVIOUS
  <2>3. Within(stopped, bytes, mark)
    <3>1. Within(skipBytes(back, headerLen), bytes, mark)
      BY <1>5, SkipWithin
    <3> QED
      BY <1>5, <2>2, <3>1
  <2>4. PICK after : after = Throws(stopped, "RuntimeException")
    OBVIOUS
  <2>5. Within(after, bytes, mark) /\ after.thrown # Nothing
    BY <2>1, <2>3, <2>4, ThrowsWithin
  <2>6. GoesOn(bytes, mark, after)
    BY <2>5, ThrownGoesOn
  <2> QED
    BY <1>6, <1>9, <2>2, <2>4, <2>6
<1>10. CASE r.thrown = Nothing /\ back.thrown = Nothing /\ ~ (r.value < 0)
  <2>1. back.pos = mark
    <3>1. back = [measured EXCEPT !.pos = mark]
      BY <1>3, <1>4, <1>10, ResetWithin
    <3> QED
      BY <1>3, <3>1 DEF Within, Readers
  <2>2. PICK skipped : skipped = skipBytes(back, headerLen)
    OBVIOUS
  <2>3. Within(skipped, bytes, mark) /\ mark <= skipped.pos
    BY <1>5, <2>1, <2>2, SkipWithin
  <2>4. PICK n \in Nat : n = r.value
    BY <1>2, <1>10
  <2>5. GoesOn(bytes, mark, readFully(skipped, n))
    BY <2>3, <2>4, ReadFullyGoesOn
  <2> QED
    BY <1>6, <1>10, <2>2, <2>4, <2>5
<1> QED
  BY <1>7, <1>8, <1>9, <1>10

LEMMA HeaderWithin ==
    ASSUME NEW r \in Readers, r.pos <= Len(r.bytes), NEW native \in BOOLEAN
    PROVE  /\ Within(headerOf(r, native), r.bytes, r.pos)
           /\ headerOf(r, native).thrown = Nothing => r.pos + headerOf(r, native).value <= Len(r.bytes)
<1>1. PICK bytes \in Seq(Nat), pos \in Nat :
        bytes = r.bytes /\ pos = r.pos /\ pos <= Len(bytes) /\ Len(bytes) \in Nat
  BY ReaderFields
<1>2. PICK m : m = Marked(r)
  OBVIOUS
<1>3. m \in Readers /\ m.pos = pos /\ m.mark = pos /\ m.bytes = bytes
  BY <1>1, <1>2, MarkedFields
<1>4. Within(m, bytes, pos)
  BY <1>1, <1>3 DEF Within
<1>5. PICK end : end = getEndOfSeqeunce(m, SOI_MARKER)
  OBVIOUS
<1>6. Within(end, bytes, pos)
  BY <1>4, <1>5, EndWithin
<1>7. end.thrown = Nothing => pos + end.value <= Len(bytes)
  <2>1. \/ end = [m EXCEPT !.pos = Len(m.bytes), !.thrown = "EOFException"]
        \/ \E p \in Nat, v \in Int : end = Moved(m, p, v) /\ p <= Len(m.bytes) /\ v <= p - m.pos
    <3>1. m.pos <= Len(m.bytes)
      BY <1>1, <1>3
    <3>2. \/ Look(m, SOI_MARKER, FRAME_MAX_LENGTH) = [m EXCEPT !.pos = Len(m.bytes), !.thrown = "EOFException"]
          \/ \E p \in Nat, v \in Int :
               /\ Look(m, SOI_MARKER, FRAME_MAX_LENGTH) = Moved(m, p, v)
               /\ m.pos <= p /\ p <= Len(m.bytes) /\ v <= p - m.pos
      BY <1>3, <3>1, LookGoesOn, BufferLength
    <3> QED
      BY <1>5, <3>2 DEF getEndOfSeqeunce
  <2>2. CASE end = [m EXCEPT !.pos = Len(m.bytes), !.thrown = "EOFException"]
    <3>1. end.thrown = "EOFException"
      BY <1>3, <2>2 DEF Readers
    <3>2. "EOFException" # Nothing
      BY DEF Nothing
    <3> QED
      BY <3>1, <3>2
  <2>3. ASSUME NEW p \in Nat, NEW v \in Int, end = Moved(m, p, v), p <= Len(m.bytes), v <= p - m.pos
        PROVE  pos + end.value <= Len(bytes)
    <3>1. end.value = v
      BY <1>3, <2>3, MovedFields
    <3> QED
      BY <1>1, <1>3, <2>3, <3>1
  <2> QED
    BY <2>1, <2>2, <2>3
<1>8. end.value \in Int
  BY <1>6, ReaderFields DEF Within
<1>9. PICK found : found = getStartOfSequence(m, SOI_MARKER)
  OBVIOUS
<1>10. Within(found, bytes, pos) /\ (found.thrown = Nothing => pos + found.value <= Len(bytes))
  <2>1. CASE end.thrown # Nothing \/ end.value < 0
    <3>1. found = end
      BY <1>5, <1>9, <2>1 DEF getStartOfSequence, Thrown
    <3> QED
      BY <1>6, <1>7, <3>1
  <2>2. CASE end.thrown = Nothing /\ ~ (end.value < 0)
    <3>1. PICK v \in Int : v = end.value - 2
      BY <1>8
    <3>2. found = [end EXCEPT !.value = v]
      BY <1>5, <1>9, <2>2, <3>1 DEF getStartOfSequence, Thrown
    <3>3. Within(found, bytes, pos)
      BY <1>6, <3>1, <3>2, ValueWithin
    <3>4. found.value = v
      BY <1>6, <3>2 DEF Within, Readers
    <3>5. pos + v <= Len(bytes)
      BY <1>1, <1>7, <1>8, <2>2, <3>1
    <3> QED
      BY <3>3, <3>4, <3>5
  <2> QED
    BY <2>1, <2>2
<1>11. headerOf(r, native) = IF found.thrown # Nothing /\ native THEN reset(found) ELSE found
  BY <1>2, <1>9 DEF headerOf, Marked, Thrown
<1>12. /\ Within(reset(found), bytes, pos)
       /\ found.thrown # Nothing => reset(found).thrown # Nothing
  BY <1>1, <1>10, ResetWithin
<1> QED
  BY <1>1, <1>10, <1>11, <1>12

LEMMA CallGoesOn ==
    ASSUME NEW r \in Readers, r.pos <= Len(r.bytes), NEW native \in BOOLEAN
    PROVE  GoesOn(r.bytes, r.pos, readMjpegFrame(r, native))
<1>1. PICK bytes \in Seq(Nat), pos \in Nat :
        bytes = r.bytes /\ pos = r.pos /\ pos <= Len(bytes) /\ Len(bytes) \in Nat
  BY ReaderFields
<1>2. PICK start : start = headerOf(r, native)
  OBVIOUS
<1>3. Within(start, bytes, pos)
  BY <1>1, <1>2, HeaderWithin
<1>4. start.thrown = Nothing => pos + start.value <= Len(bytes)
  BY <1>1, <1>2, HeaderWithin
<1>5. start.value \in Int /\ start.mark = pos
  BY <1>3, ReaderFields DEF Within
<1> DEFINE header == [start EXCEPT !.pos = start.mark + start.value]
           length == parseContentLength(SubSeq(r.bytes, start.mark + 1, header.pos))
           found == IF native THEN lengthNative(header, length) ELSE lengthDefault(header, length)
<1>6. readMjpegFrame(r, native) =
        IF start.thrown # Nothing THEN start
        ELSE IF start.value < 0 THEN Throws(reset(start), "RuntimeException")
        ELSE readFrame(found, start.value, native)
  BY <1>2 DEF readMjpegFrame, Thrown
<1>7. CASE start.thrown # Nothing
  <2>1. GoesOn(bytes, pos, start)
    BY <1>3, <1>7, ThrownGoesOn
  <2> QED
    BY <1>1, <1>6, <1>7, <2>1
<1>8. CASE start.thrown = Nothing /\ start.value < 0
  <2>1. "RuntimeException" \in Exceptions /\ "RuntimeException" # Nothing
    BY DEF Exceptions, Nothing
  <2>2. Within(reset(start), bytes, pos)
    BY <1>1, <1>3, ResetWithin
  <2>3. PICK after : after = Throws(reset(start), "RuntimeException")
    OBVIOUS
  <2>4. Within(after, bytes, pos) /\ after.thrown # Nothing
    BY <2>1, <2>2, <2>3, ThrowsWithin
  <2>5. GoesOn(bytes, pos, after)
    BY <2>4, ThrownGoesOn
  <2> QED
    BY <1>1, <1>6, <1>8, <2>3, <2>5
<1>9. CASE start.thrown = Nothing /\ ~ (start.value < 0)
  <2>1. PICK soi \in Nat : soi = pos + start.value /\ pos <= soi /\ soi <= Len(bytes)
    BY <1>1, <1>4, <1>5, <1>9
  <2>2. header = [start EXCEPT !.pos = soi]
    BY <1>5, <2>1
  <2>3. Within(header, bytes, pos)
    BY <1>3, <2>1, <2>2, PlaceWithin
  <2>4. header.pos = soi
    BY <1>3, <2>2 DEF Within, Readers
  <2>5. length \in Int
    <3>1. SubSeq(bytes, pos + 1, soi) \in Seq(Nat)
      BY <1>1, <2>1
    <3>2. parseContentLength(SubSeq(bytes, pos + 1, soi)) \in Int
      BY <3>1, LengthInt
    <3> QED
      BY <1>1, <1>5, <2>4, <3>2
  <2> HIDE DEF header, length
  <2>6. Within(found, bytes, pos)
    BY <1>1, <2>3, <2>5, LengthWithin
  <2> HIDE DEF found
  <2>7. GoesOn(bytes, pos, readFrame(found, start.value, native))
    BY <1>1, <1>5, <2>6, ReadFrameGoesOn
  <2> QED
    BY <1>1, <1>6, <1>9, <2>7
<1> QED
  BY <1>7, <1>8, <1>9

-------------------------------------------------------------------------------
(* The specification. *)

LEMMA InitInv == Init => ReaderInv
<1> SUFFICES ASSUME Init PROVE ReaderInv
  OBVIOUS
<1>1. stream \in Streams /\ isNative \in BOOLEAN /\ calls = 0 /\ reader = opened(stream.bytes)
  BY DEF Init
<1>2. stream.bytes \in Seq(Nat) /\ Len(stream.bytes) \in Nat
  BY <1>1, StreamFields
<1>3. reader \in Readers
  <2>1. Nothing \in Exceptions
    BY DEF Exceptions
  <2>2. <<>> \in Seq(Nat) /\ -1 \in Int
    OBVIOUS
  <2> QED
    BY <1>1, <1>2, <2>1, <2>2 DEF opened, Readers
<1>4. reader.bytes = stream.bytes /\ reader.pos = 0 /\ reader.mContentLength = -1
  BY <1>1 DEF opened
<1> QED
  BY <1>1, <1>2, <1>3, <1>4 DEF ReaderInv, ReaderTypeOK

(* A step is a call that goes on in the stream.                            *)
LEMMA StepGoesOn ==
    ReaderTypeOK /\ Next => ReaderTypeOK' /\ GoesOn(stream.bytes, reader.pos, reader')
<1> SUFFICES ASSUME ReaderTypeOK, Next PROVE ReaderTypeOK' /\ GoesOn(stream.bytes, reader.pos, reader')
  OBVIOUS
<1>1. reader \in Readers /\ reader.bytes = stream.bytes /\ reader.pos <= Len(reader.bytes) /\ isNative \in BOOLEAN
  BY DEF ReaderTypeOK
<1>2. reader' = readMjpegFrame(reader, isNative) /\ calls' = calls + 1 /\ stream' = stream /\ isNative' = isNative
  BY DEF Next
<1>3. GoesOn(reader.bytes, reader.pos, readMjpegFrame(reader, isNative))
  BY <1>1, CallGoesOn
<1>4. GoesOn(stream.bytes, reader.pos, reader')
  BY <1>1, <1>2, <1>3
<1>5. reader' \in Readers /\ reader'.bytes = stream.bytes /\ reader'.pos <= Len(stream.bytes)
  BY <1>4 DEF GoesOn
<1>6. stream \in Streams /\ calls \in Nat /\ calls + 1 \in Nat
  BY DEF ReaderTypeOK
<1>7. ReaderTypeOK'
  BY <1>1, <1>2, <1>5, <1>6 DEF ReaderTypeOK
<1> QED
  BY <1>4, <1>7

(* A picture that is found has been found by every call before.            *)
LEMMA PromisedBefore ==
    ASSUME ReaderTypeOK, calls < Len(stream.pictures), calls > 0, Promised(calls + 1)
    PROVE  Promised(calls)
<1>1. CASE Exact
  BY <1>1 DEF Promised
<1>2. CASE ~ Shrunk(stream, calls + 1)
  <2>1. calls \in Nat
    BY DEF ReaderTypeOK
  <2>2. \A j \in 2..calls : j \in 2..(calls + 1)
    BY <2>1
  <2>3. ~ Shrunk(stream, calls)
    BY <1>2, <2>2 DEF Shrunk
  <2> QED
    BY <2>3 DEF Promised
<1> QED
  BY <1>1, <1>2 DEF Promised

(* Behind the picture before, by no more than its header, is not behind    *)
(* this one's, which is as long.                                           *)
LEMMA InTheHeader ==
    ASSUME NEW start \in Nat, NEW soi \in Nat, NEW start0 \in Nat, NEW soi0 \in Nat, NEW pos \in Nat,
           soi - start = soi0 - start0, pos \in start..(start + (soi0 - start0))
    PROVE  start <= pos /\ pos <= soi
  OBVIOUS

LEMMA InTheBuffer ==
    ASSUME NEW start \in Nat, NEW soi \in Nat, NEW end \in Nat, NEW pos \in Nat, NEW n \in Nat,
           (soi - start) + (end - soi) <= n, start <= pos
    PROVE  end - pos <= n
  OBVIOUS

LEMMA NotFarBehind ==
    ASSUME NEW start \in Nat, NEW soi \in Nat, NEW end \in Nat, NEW pos \in Nat, start <= pos, pos <= soi,
           NEW last \in Nat, last = end + (soi - pos)
    PROVE  last \in end..(end + (soi - start))
  OBVIOUS

LEMMA MarkerInTheBuffer ==
    ASSUME NEW start \in Nat, NEW soi \in Nat, NEW pos \in Nat, NEW n \in Nat,
           (soi - start) + 2 <= n, start <= pos
    PROVE  soi + 2 - pos <= n
  OBVIOUS

LEMMA LengthBetween ==
    ASSUME NEW start \in Nat, NEW soi \in Nat, NEW end \in Nat, NEW pos \in Nat,
           end <= pos, pos <= end + (soi - start)
    PROVE  pos - soi \in (end - soi)..((end - soi) + (soi - start))
  OBVIOUS

LEMMA RoomBehind ==
    ASSUME NEW start \in Nat, NEW soi \in Nat, NEW end \in Nat, NEW pos \in Nat, start <= pos,
           NEW next \in Nat, NEW after \in Nat, NEW n \in Nat,
           next - end = soi - start, next + 2 <= after, after <= n
    PROVE  end + (soi - pos) <= n
  OBVIOUS

LEMMA LongEnough ==
    ASSUME NEW start \in Nat, NEW soi \in Nat, NEW end \in Nat, NEW soi0 \in Nat, NEW pos \in Nat,
           soi0 + 4 <= start, start <= pos, pos <= soi,
           ~ (2 * ((end - soi) - 1) < (soi - start) + (start - soi0))
    PROVE  Expected(pos - soi0, soi, end)
<1>1. PICK L \in Nat : L = pos - soi0 /\ L >= 2
  OBVIOUS
<1>2. L <= 2 * ((end - soi) - 1)
  BY <1>1
<1>3. soi + L \div 2 + 1 <= end
  BY <1>2
<1> QED
  BY <1>1, <1>3 DEF Expected

(* Before the call the reader is at the header, or has part of it with the *)
(* picture before; then the next picture is long enough to be found.       *)
LEMMA ReaderAtHeader ==
    ASSUME ReaderInv, calls < Len(stream.pictures), Promised(calls + 1), NEW k \in Pictures(stream), k = calls + 1
    PROVE  /\ HeaderStart(stream, k) <= reader.pos
           /\ reader.pos <= stream.pictures[k].soi
           /\ Exact => reader.pos = HeaderStart(stream, k)
           /\ ~ Exact => Expected(reader.mContentLength, stream.pictures[k].soi, stream.pictures[k].end)
<1>1. stream \in Streams /\ calls \in Nat /\ reader \in Readers /\ ReaderTypeOK
  BY DEF ReaderInv, ReaderTypeOK
<1>2. PICK soi \in Nat, end \in Nat, start \in Nat :
        soi = stream.pictures[k].soi /\ end = stream.pictures[k].end /\ start = HeaderStart(stream, k)
  BY <1>1, PictureFields
<1>3. start <= soi
  <2>1. Separated(stream, k)
    BY <1>1, StreamsAssumption
  <2> QED
    BY <1>2, <2>1 DEF Separated
<1>4. CASE calls = 0
  <2>1. start = 0
    BY <1>2, <1>4 DEF HeaderStart
  <2>2. reader.pos = 0 /\ reader.mContentLength = -1
    BY <1>4 DEF ReaderInv
  <2> QED
    BY <1>2, <1>3, <2>1, <2>2 DEF Expected
<1>5. CASE calls > 0
  <2>1. calls \in Pictures(stream) /\ BehindThePicture
    BY <1>1, <1>5, PromisedBefore DEF ReaderInv
  <2>2. PICK soi0 \in Nat, end0 \in Nat, start0 \in Nat :
          soi0 = stream.pictures[calls].soi /\ end0 = stream.pictures[calls].end /\ start0 = HeaderStart(stream, calls)
    BY <1>1, <2>1, PictureFields
  <2>3. start = end0
    <3>1. k # 1 /\ k - 1 = calls
      BY <1>1, <1>5
    <3> QED
      BY <1>2, <2>2, <3>1 DEF HeaderStart
  <2>4. PICK pos \in Nat, L \in Int : pos = reader.pos /\ L = reader.mContentLength
    BY <1>1, ReaderFields
  <2>5. /\ pos \in end0..(end0 + IF Exact THEN 0 ELSE soi0 - start0)
        /\ L = pos - soi0
    BY <2>1, <2>2, <2>4 DEF BehindThePicture, HeaderLength
  <2>6. CASE Exact
    <3>1. pos = start
      BY <2>2, <2>3, <2>5, <2>6
    <3> QED
      BY <1>2, <1>3, <2>4, <2>6, <3>1
  <2>7. CASE ~ Exact
    <3>1. ~ stream.given
      BY <2>7 DEF Exact
    <3>2. Delimited(stream, k) /\ Delimited(stream, calls)
      BY <1>1, <2>1, <3>1, StreamsAssumption
    <3>3. soi - start = soi0 - start0 /\ soi + 4 <= end /\ soi0 + 4 <= end0
      BY <1>2, <2>2, <3>2 DEF Delimited, HeaderLength
    <3>4. start <= pos /\ pos <= soi
      <4>1. pos \in start..(start + (soi0 - start0))
        BY <2>3, <2>5, <2>7
      <4>2. soi - start = soi0 - start0
        BY <3>3
      <4> QED
        BY <1>2, <2>2, <2>4, <4>1, <4>2, InTheHeader
    <3>5. ~ (2 * (FrameLength(stream, k) - 1) < HeaderLength(stream, k) + FrameLength(stream, k - 1))
      <4>1. k \in 2..(calls + 1)
        BY <1>1, <1>5
      <4> QED
        BY <2>7, <4>1 DEF Promised, Shrunk
    <3>6. ~ (2 * ((end - soi) - 1) < (soi - start) + (end0 - soi0))
      <4>1. k - 1 = calls
        BY <1>1
      <4> QED
        BY <1>2, <2>2, <3>5, <4>1 DEF FrameLength, HeaderLength
    <3>7. Expected(pos - soi0, soi, end)
      <4>1. soi0 + 4 <= start
        BY <2>3, <3>3
      <4>2. ~ (2 * ((end - soi) - 1) < (soi - start) + (start - soi0))
        BY <2>3, <3>6
      <4> QED
        BY <1>2, <2>2, <2>4, <3>4, <4>1, <4>2, LongEnough
    <3> QED
      BY <1>2, <2>4, <2>5, <2>7, <3>4, <3>7
  <2> QED
    BY <2>6, <2>7
<1>6. calls = 0 \/ calls > 0
  BY <1>1
<1> QED
  BY <1>4, <1>5, <1>6

(* The call gives the picture, and the native reader without a length may  *)
(* give as much of the stream behind it as its header is long.             *)
LEMMA NextPicture ==
    ASSUME ReaderInv, calls < Len(stream.pictures), Promised(calls + 1),
           NEW k \in Pictures(stream), k = calls + 1, NEW soi \in Nat, NEW end \in Nat,
           soi = stream.pictures[k].soi, end = stream.pictures[k].end
    PROVE  \E last \in Nat :
             /\ Gives(reader, isNative, soi, last)
             /\ last \in end..(end + IF Exact THEN 0 ELSE HeaderLength(stream, k))
<1>1. stream \in Streams /\ calls \in Nat /\ reader \in Readers /\ reader.bytes = stream.bytes /\ isNative \in BOOLEAN
  BY DEF ReaderInv, ReaderTypeOK
<1>2. PICK start \in Nat, pos \in Nat : start = HeaderStart(stream, k) /\ pos = reader.pos
  BY <1>1, PictureFields, ReaderFields
<1>3. start <= pos /\ pos <= soi
  BY <1>2, ReaderAtHeader
<1>4. Exact => pos = start
  BY <1>2, ReaderAtHeader
<1>5. EndsAt(reader.bytes, reader.pos, soi + 2, 216)
  BY <1>1, <1>2, <1>3, HeaderEnds
<1>6. soi + 2 <= end /\ end <= Len(reader.bytes) /\ Len(reader.bytes) \in Nat
  <2>1. Separated(stream, k)
    BY <1>1, StreamsAssumption
  <2>2. Len(reader.bytes) \in Nat
    BY <1>1, ReaderFields
  <2> QED
    BY <1>1, <2>1, <2>2 DEF Separated
<1>7. HeaderLength(stream, k) = soi - start
  BY <1>2 DEF HeaderLength
<1>8. reader.pos <= soi
  BY <1>2, <1>3
<1>9. CASE stream.given
  <2>1. pos = start
    BY <1>4, <1>9 DEF Exact
  <2>2. PICK n \in Nat : n = end - soi
    BY <1>6
  <2>3. parseContentLength(SubSeq(stream.bytes, pos + 1, soi)) = FrameLength(stream, k)
    BY <1>1, <1>2, <1>3, <1>9, <2>1, LengthRead
  <2>4. parseContentLength(SubSeq(reader.bytes, reader.pos + 1, soi)) = n
    BY <1>1, <1>2, <2>2, <2>3 DEF FrameLength
  <2>5. soi + 2 - reader.pos <= FRAME_MAX_LENGTH
    <3>1. Measured(stream, k)
      BY <1>1, <1>9, StreamsAssumption
    <3>2. (soi - start) + 2 <= FRAME_MAX_LENGTH
      BY <1>7, <3>1 DEF Measured
    <3>3. soi + 2 - pos <= FRAME_MAX_LENGTH
      BY <1>2, <1>3, <3>2, BufferLength, MarkerInTheBuffer
    <3> QED
      BY <1>2, <3>3
  <2>6. soi + n = end /\ soi + n <= Len(reader.bytes)
    <3>1. soi + n = end
      BY <2>2
    <3> QED
      BY <1>6, <3>1
  <2>7. Gives(reader, isNative, soi, soi + n)
    BY <1>1, <1>5, <1>8, <2>2, <2>4, <2>5, <2>6, CallWithLength
  <2>8. end \in end..(end + IF Exact THEN 0 ELSE HeaderLength(stream, k))
    BY <1>9 DEF Exact
  <2> QED
    BY <2>6, <2>7, <2>8
<1>10. CASE ~ stream.given
  <2>1. Delimited(stream, k)
    BY <1>1, <1>10, StreamsAssumption
  <2>2. soi + 4 <= end /\ (soi - start) + (end - soi) <= FRAME_MAX_LENGTH
    BY <1>7, <2>1 DEF Delimited, FrameLength
  <2>3. end - reader.pos <= FRAME_MAX_LENGTH
    <3>1. end - pos <= FRAME_MAX_LENGTH
      BY <1>2, <1>3, <2>2, BufferLength, InTheBuffer
    <3> QED
      BY <1>2, <3>1
  <2>4. parseContentLength(SubSeq(reader.bytes, reader.pos + 1, soi)) = -1
    BY <1>1, <1>2, <1>3, <1>10, LengthRead
  <2>5. EndsAt(reader.bytes, reader.pos, end, 217)
    BY <1>1, <1>2, <1>3, <1>10, PictureEnds
  <2>6. EndsAt(reader.bytes, soi, end, 217)
    <3>1. start <= soi /\ soi <= soi
      BY <1>2, <1>3
    <3> QED
      BY <1>1, <1>2, <1>10, <3>1, PictureEnds
  <2>7. CASE isNative = FALSE
    <3>1. Gives(reader, FALSE, soi, end)
      BY <1>1, <1>5, <1>8, <2>2, <2>3, <2>4, <2>6, CallToEnd
    <3>2. end \in end..(end + IF Exact THEN 0 ELSE HeaderLength(stream, k))
      BY <2>7 DEF Exact
    <3> QED
      BY <2>7, <3>1, <3>2
  <2>8. CASE isNative = TRUE
    <3>1. ~ Exact
      BY <1>10, <2>8 DEF Exact
    <3>2. Expected(reader.mContentLength, soi, end)
      BY <3>1, ReaderAtHeader
    <3>3. end + (soi - reader.pos) <= Len(reader.bytes)
      <4>1. k < Len(stream.pictures)
        BY <3>1 DEF Promised
      <4>2. k + 1 \in Pictures(stream) /\ k \in Nat \ {0}
        BY <1>1, <4>1, PictureFields, StreamFields
      <4>3. PICK next \in Nat, after \in Nat :
              next = stream.pictures[k + 1].soi /\ after = stream.pictures[k + 1].end
        BY <1>1, <4>2, PictureFields
      <4>4. Delimited(stream, k + 1) /\ Separated(stream, k + 1)
        BY <1>1, <1>10, <4>2, StreamsAssumption
      <4>5. HeaderStart(stream, k + 1) = end
        BY <4>2 DEF HeaderStart
      <4>6. next - end = soi - start
        BY <1>7, <2>1, <4>3, <4>4, <4>5 DEF Delimited, HeaderLength
      <4>7. next + 2 <= after /\ after <= Len(reader.bytes)
        BY <1>1, <4>3, <4>4 DEF Separated
      <4>8. PICK length \in Nat : length = Len(reader.bytes)
        BY <1>6
      <4>9. after <= length /\ next + 2 <= after
        BY <4>7, <4>8
      <4>10. end + (soi - pos) <= length
        BY <1>2, <1>3, <4>3, <4>6, <4>8, <4>9, RoomBehind
      <4> QED
        BY <1>2, <4>8, <4>10
    <3>4. Gives(reader, TRUE, soi, end) \/ Gives(reader, TRUE, soi, end + (soi - reader.pos))
      BY <1>1, <1>5, <1>8, <2>2, <2>3, <2>4, <2>5, <2>6, <3>2, <3>3, CallToEndNative
    <3>5. CASE Gives(reader, TRUE, soi, end)
      <4>1. end \in end..(end + (soi - start))
        BY <1>2, <1>3
      <4> QED
        BY <1>7, <2>8, <3>1, <3>5, <4>1
    <3>6. CASE Gives(reader, TRUE, soi, end + (soi - reader.pos))
      <4>1. PICK last \in Nat : last = end + (soi - pos)
        BY <1>2, <1>3
      <4>2. last \in end..(end + (soi - start))
        BY <1>2, <1>3, <4>1, NotFarBehind
      <4> QED
        BY <1>2, <1>7, <2>8, <3>1, <3>6, <4>1, <4>2
    <3> QED
      BY <3>4, <3>5, <3>6
  <2> QED
    BY <1>1, <2>7, <2>8
<1> QED
  BY <1>9, <1>10

LEMMA NextInv == ReaderInv /\ [Next]_vars => ReaderInv'
<1> SUFFICES ASSUME ReaderInv, [Next]_vars PROVE ReaderInv'
  OBVIOUS
<1>1. CASE Next
  <2>1. ReaderTypeOK /\ ReaderTypeOK'
    BY <1>1, StepGoesOn DEF ReaderInv
  <2>2. /\ calls < Len(stream.pictures) /\ calls' = calls + 1
        /\ reader' = readMjpegFrame(reader, isNative) /\ stream' = stream /\ isNative' = isNative
    BY <1>1 DEF Next
  <2>3. stream \in Streams /\ calls \in Nat /\ reader.bytes = stream.bytes
    BY <2>1 DEF ReaderTypeOK
  <2>4. calls + 1 \in Pictures(stream) /\ calls + 1 # 0
    BY <2>2, <2>3, StreamFields
  <2>5. (Promised(calls))' => Promised(calls + 1)
    BY <2>2 DEF Promised, Exact
  <2>6. ASSUME Promised(calls + 1) PROVE BehindThePicture'
    <3>1. PICK soi \in Nat, end \in Nat :
            soi = stream.pictures[calls + 1].soi /\ end = stream.pictures[calls + 1].end
      BY <2>3, <2>4, PictureFields
    <3>2. PICK last \in Nat :
            /\ Gives(reader, isNative, soi, last)
            /\ last \in end..(end + IF Exact THEN 0 ELSE HeaderLength(stream, calls + 1))
      BY <2>2, <2>4, <2>6, <3>1, NextPicture
    <3>3. /\ reader'.pos = last /\ reader'.thrown = Nothing /\ reader'.mContentLength = last - soi
          /\ reader'.frame = SubSeq(stream.bytes, soi + 1, last)
      BY <2>2, <2>3, <3>2 DEF Gives
    <3>4. Exact' = Exact
      BY <2>2 DEF Exact
    <3>5. HeaderLength(stream, calls)' = HeaderLength(stream, calls + 1)
      BY <2>2
    <3> QED
      BY <2>2, <3>1, <3>2, <3>3, <3>4, <3>5 DEF BehindThePicture, Thrown
  <2>7. Pictures(stream)' = Pictures(stream)
    BY <2>2
  <2>8. calls' # 0
    BY <2>2, <2>4
  <2> QED
    BY <2>1, <2>2, <2>4, <2>5, <2>6, <2>7, <2>8 DEF ReaderInv
<1>2. CASE UNCHANGED vars
  BY <1>2 DEF ReaderInv, vars, ReaderTypeOK, BehindThePicture, Promised, Exact
<1> QED
  BY <1>1, <1>2

LEMMA Prefix ==
    ASSUME NEW bytes \in Seq(Nat), NEW first \in Nat, NEW end \in Nat, NEW last \in Nat,
           first <= end, end <= last, last <= Len(bytes)
    PROVE  /\ Len(SubSeq(bytes, first + 1, last)) = last - first
           /\ SubSeq(SubSeq(bytes, first + 1, last), 1, end - first) = SubSeq(bytes, first + 1, end)
<1>1. Len(SubSeq(bytes, first + 1, last)) = last - first
  OBVIOUS
<1> DEFINE whole == SubSeq(bytes, first + 1, last)
           part == SubSeq(whole, 1, end - first)
           picture == SubSeq(bytes, first + 1, end)
<1>2. whole \in Seq(Nat)
  OBVIOUS
<1>3. \A i \in 1..(last - first) : whole[i] = bytes[first + i]
  OBVIOUS
<1>4. Len(whole) = last - first
  BY <1>1
<1>5. picture \in Seq(Nat) /\ Len(picture) = end - first
  OBVIOUS
<1>6. \A i \in 1..(end - first) : picture[i] = bytes[first + i]
  OBVIOUS
<1> HIDE DEF whole, picture
<1>7. part \in Seq(Nat) /\ Len(part) = end - first
  BY <1>2, <1>4
<1>8. \A i \in 1..(end - first) : part[i] = whole[i]
  BY <1>2, <1>4
<1> HIDE DEF part
<1>9. part = picture
  BY <1>3, <1>5, <1>6, <1>7, <1>8
<1> QED
  BY <1>1, <1>9 DEF part, whole, picture

LEMMA InvPicture == ReaderInv => EachCallGivesThePicture
<1> SUFFICES ASSUME ReaderInv, calls > 0, Promised(calls)
             PROVE  /\ ~ Thrown(reader)
                    /\ Exact => reader.frame = Frame(stream, calls)
                    /\ SubSeq(reader.frame, 1, FrameLength(stream, calls)) = Frame(stream, calls)
                    /\ Len(reader.frame) \in
                         FrameLength(stream, calls)..(FrameLength(stream, calls) + HeaderLength(stream, calls))
  BY DEF EachCallGivesThePicture, Promised, Exact
<1>1. /\ stream \in Streams /\ calls \in Pictures(stream) /\ BehindThePicture
      /\ reader \in Readers /\ reader.bytes = stream.bytes /\ reader.pos <= Len(stream.bytes)
  BY DEF ReaderInv, ReaderTypeOK
<1>2. PICK bytes \in Seq(Nat) : bytes = stream.bytes
  BY <1>1, StreamFields
<1>3. PICK soi \in Nat, end \in Nat, start \in Nat :
        soi = stream.pictures[calls].soi /\ end = stream.pictures[calls].end /\ start = HeaderStart(stream, calls)
  BY <1>1, PictureFields
<1>4. soi <= end /\ start <= soi
  <2>1. start <= soi /\ soi + 2 <= end
    BY <1>1, <1>3, StreamsAssumption DEF Separated
  <2> QED
    BY <1>3, <2>1
<1>5. PICK pos \in Nat : pos = reader.pos /\ pos <= Len(bytes)
  BY <1>1, <1>2, ReaderFields
<1>6. /\ ~ Thrown(reader)
      /\ pos \in end..(end + IF Exact THEN 0 ELSE soi - start)
      /\ reader.frame = SubSeq(bytes, soi + 1, pos)
  BY <1>1, <1>2, <1>3, <1>5 DEF BehindThePicture, HeaderLength
<1>7. end <= pos /\ pos <= end + (soi - start) /\ (Exact => pos = end)
  BY <1>3, <1>4, <1>6
<1>8. Frame(stream, calls) = SubSeq(bytes, soi + 1, end) /\ FrameLength(stream, calls) = end - soi
        /\ HeaderLength(stream, calls) = soi - start
  BY <1>2, <1>3 DEF Frame, FrameLength, HeaderLength
<1>9. /\ bytes \in Seq(Nat) /\ soi \in Nat /\ end \in Nat /\ pos \in Nat
      /\ soi <= end /\ end <= pos /\ pos <= Len(bytes)
  BY <1>2, <1>3, <1>4, <1>5, <1>7
<1>10. Len(reader.frame) = pos - soi
  <2>1. Len(SubSeq(bytes, soi + 1, pos)) = pos - soi
    BY <1>9, Prefix
  <2> QED
    BY <1>6, <2>1
<1>11. SubSeq(reader.frame, 1, end - soi) = SubSeq(bytes, soi + 1, end)
  <2>1. SubSeq(SubSeq(bytes, soi + 1, pos), 1, end - soi) = SubSeq(bytes, soi + 1, end)
    BY <1>9, Prefix
  <2> QED
    BY <1>6, <2>1
<1>12. pos - soi \in (end - soi)..((end - soi) + (soi - start))
  BY <1>3, <1>7, <1>9, LengthBetween
<1>13. Exact => reader.frame = SubSeq(bytes, soi + 1, end)
  BY <1>6, <1>7
<1> QED
  BY <1>6, <1>8, <1>10, <1>11, <1>12, <1>13

(* Every call of a reader gives the next picture of the stream, however    *)
(* many it has: exactly that one with a length in every header or with the *)
(* default reader, and with the native one all of it and no more than a    *)
(* header as long as its own, unless it shrinks to half.                   *)
THEOREM PictureByPicture == Spec => []EachCallGivesThePicture
<1>1. Spec => []ReaderInv
  BY InitInv, NextInv, PTL DEF Spec
<1> QED
  BY <1>1, InvPicture, PTL

LEMMA GoesOnLast ==
    ASSUME NEW bytes \in Seq(Nat), NEW pos \in Nat, NEW after, GoesOn(bytes, pos, after), after.thrown = Nothing
    PROVE  /\ pos <= after.pos - Len(after.frame)
           /\ after.frame = SubSeq(bytes, (after.pos - Len(after.frame)) + 1, after.pos)
<1>1. after \in Readers /\ after.pos <= Len(bytes)
  BY DEF GoesOn
<1>2. PICK start \in Nat : pos <= start /\ start <= after.pos /\ after.frame = SubSeq(bytes, start + 1, after.pos)
  BY DEF GoesOn
<1>3. PICK last \in Nat : last = after.pos /\ last <= Len(bytes) /\ start <= last
  BY <1>1, <1>2, ReaderFields
<1>4. Len(SubSeq(bytes, start + 1, last)) = last - start
  <2>1. last <= last
    BY <1>3
  <2> QED
    BY <1>3, <2>1, Prefix
<1>5. last - Len(after.frame) = start
  BY <1>2, <1>3, <1>4
<1> QED
  BY <1>2, <1>3, <1>5

(* No byte of the stream is in two pictures, whatever the camera sends and *)
(* whatever the reader finds in it: a picture is the bytes the call read   *)
(* last, and behind where the one before stopped.                          *)
THEOREM EachByteOnce == Spec => NoByteTwice
<1>1. ReaderTypeOK /\ [Next]_vars => ReaderTypeOK'
  <2>1. ReaderTypeOK /\ UNCHANGED vars => ReaderTypeOK'
    BY DEF ReaderTypeOK, vars
  <2> QED
    BY <2>1, StepGoesOn
<1>2. ReaderTypeOK /\ Next =>
        [~ Thrown(reader') =>
           LET start == reader'.pos - Len(reader'.frame)
           IN  /\ reader.pos <= start
               /\ reader'.frame = SubSeq(stream.bytes, start + 1, reader'.pos)]_vars
  <2> SUFFICES ASSUME ReaderTypeOK, Next, ~ Thrown(reader')
               PROVE  /\ reader.pos <= reader'.pos - Len(reader'.frame)
                      /\ reader'.frame = SubSeq(stream.bytes, (reader'.pos - Len(reader'.frame)) + 1, reader'.pos)
    OBVIOUS
  <2>1. GoesOn(stream.bytes, reader.pos, reader')
    BY StepGoesOn
  <2>2. stream.bytes \in Seq(Nat) /\ reader.pos \in Nat
    BY StreamFields, ReaderFields DEF ReaderTypeOK
  <2>3. reader'.thrown = Nothing
    BY DEF Thrown
  <2> QED
    BY <2>1, <2>2, <2>3, GoesOnLast
<1>3. Init => ReaderTypeOK
  BY InitInv DEF ReaderInv
<1> QED
  BY <1>1, <1>2, <1>3, PTL DEF Spec, NoByteTwice

===============================================================================
