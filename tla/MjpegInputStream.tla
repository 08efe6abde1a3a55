--------------------------- MODULE MjpegInputStream ---------------------------
(***************************************************************************)
(* The two readers of an MJPEG stream, MjpegInputStreamDefault.java and    *)
(* MjpegInputStreamNative.java: each call takes the next picture from the  *)
(* stream.                                                                 *)
(*                                                                         *)
(* The stream is a sequence of bytes.  A line "Content-Length: n" counts   *)
(* as one byte, LengthLine(n).  The state of a reader is a record r: pos   *)
(* bytes have been read, and mark is where reset() goes back to; an        *)
(* operator that reads leaves what it read in value, and frame is the      *)
(* picture the last call gave.  An exception leaves its name in thrown.    *)
(***************************************************************************)
EXTENDS Integers, Sequences

CONSTANTS
  FRAME_MAX_LENGTH,   \* how far a sequence is looked for, and a reset() reaches back
  Streams             \* what a camera may send

VARIABLES
  stream,   \* what the camera sends
  isNative, \* whether the native reader reads it
  reader,   \* the state of its reader
  calls     \* how often that was called

vars == <<stream, isNative, reader, calls>>

SOI_MARKER == <<255, 216>>
EOF_MARKER == <<255, 217>>

LengthLine(n) == 1000 + n

Nothing == "nothing"   \* no exception

-----------------------------------------------------------------------------
(* Streams.  A stream s has s.bytes, and s.given says whether its headers  *)
(* give the length of their picture.  Picture k is what the camera takes   *)
(* for a picture, the bytes behind s.pictures[k].soi up to                 *)
(* s.pictures[k].end; its header is what is between the picture before and *)
(* it.                                                                     *)

Pictures(s) == DOMAIN s.pictures
HeaderStart(s, k) == IF k = 1 THEN 0 ELSE s.pictures[k - 1].end
Header(s, k) == (HeaderStart(s, k) + 1)..s.pictures[k].soi
HeaderLength(s, k) == s.pictures[k].soi - HeaderStart(s, k)
FrameLength(s, k) == s.pictures[k].end - s.pictures[k].soi
Frame(s, k) == SubSeq(s.bytes, s.pictures[k].soi + 1, s.pictures[k].end)

\* A header is text, and the picture behind it starts with its marker.
Separated(s, k) ==
  /\ HeaderStart(s, k) <= s.pictures[k].soi
  /\ s.pictures[k].soi + 2 <= s.pictures[k].end
  /\ s.pictures[k].end <= Len(s.bytes)
  /\ \A i \in Header(s, k) : s.bytes[i] # 255
  /\ s.bytes[s.pictures[k].soi + 1] = 255
  /\ s.bytes[s.pictures[k].soi + 2] = 216

\* The header gives the length, in its last line of that kind.
Measured(s, k) ==
  /\ HeaderLength(s, k) + 2 <= FRAME_MAX_LENGTH
  /\ \E i \in Header(s, k) :
       /\ s.bytes[i] = LengthLine(FrameLength(s, k))
       /\ \A j \in Header(s, k) : j > i => s.bytes[j] < 1000

\* It gives none and is as long as the others; the picture ends with its marker, has the marker
\* nowhere else, and no byte 255 before another one.
Delimited(s, k) ==
  LET end == s.pictures[k].end
  IN  /\ HeaderLength(s, k) = HeaderLength(s, 1)
      /\ HeaderLength(s, k) + FrameLength(s, k) <= FRAME_MAX_LENGTH
      /\ \A i \in Header(s, k) : s.bytes[i] < 1000
      /\ s.pictures[k].soi + 4 <= end
      /\ s.bytes[end - 1] = 255
      /\ s.bytes[end] = 217
      /\ \A i \in (s.pictures[k].soi + 1)..(end - 2) : s.bytes[i] = 255 => s.bytes[i + 1] \notin {217, 255}

ASSUME StreamsAssumption ==
  /\ FRAME_MAX_LENGTH \in Nat
  /\ Streams \subseteq [bytes : Seq(Nat), pictures : Seq([soi : Nat, end : Nat]), given : BOOLEAN]
  /\ \A s \in Streams : \A k \in Pictures(s) :
       Separated(s, k) /\ IF s.given THEN Measured(s, k) ELSE Delimited(s, k)

-----------------------------------------------------------------------------
(* DataInputStream. *)

Thrown(r) == r.thrown # Nothing
Throws(r, exception) == [r EXCEPT !.thrown = exception]

\* A BufferedInputStream of FRAME_MAX_LENGTH bytes keeps the bytes since its mark as long as they
\* fit.
reset(r) ==
  IF r.pos - r.mark > FRAME_MAX_LENGTH THEN Throws(r, "IOException") ELSE [r EXCEPT !.pos = r.mark]

skipBytes(r, n) ==
  [r EXCEPT !.pos = IF n <= 0 THEN @ ELSE IF @ + n > Len(r.bytes) THEN Len(r.bytes) ELSE @ + n]

\* readFully of n bytes.
readFully(r, n) ==
  IF r.pos + n > Len(r.bytes) THEN Throws([r EXCEPT !.pos = Len(r.bytes)], "EOFException")
  ELSE [r EXCEPT !.pos = @ + n, !.frame = SubSeq(r.bytes, r.pos + 1, r.pos + n)]

-----------------------------------------------------------------------------
(* Sequences. *)

\* seqIndex after byte c.  A byte that does not fit is not tried again as the first of the sequence.
Compared(sequence, seqIndex, c) ==
  IF seqIndex < Len(sequence) /\ c = sequence[seqIndex + 1] THEN seqIndex + 1 ELSE 0

\* seqIndex after k more bytes, until the sequence is found.
SeqIndex(r, sequence) ==
  LET seqIndex[k \in 0..(Len(r.bytes) - r.pos)] ==
        IF k = 0 THEN 0 ELSE Compared(sequence, seqIndex[k - 1], r.bytes[r.pos + k])
  IN  seqIndex

\* The loop over at most limit more bytes: the bytes read are counted in value, which is -1 without
\* the sequence.
Look(r, sequence, limit) ==
  LET left == Len(r.bytes) - r.pos
      seqIndex == SeqIndex(r, sequence)
      found == {k \in 1..limit : k <= left /\ seqIndex[k] = Len(sequence)}
      first == CHOOSE k \in found : \A j \in found : k <= j
  IN  IF found # {} THEN [r EXCEPT !.pos = @ + first, !.value = first]
      ELSE IF left < limit THEN Throws([r EXCEPT !.pos = Len(r.bytes)], "EOFException")
      ELSE [r EXCEPT !.pos = @ + limit, !.value = -1]

getEndOfSeqeunce(r, sequence) == Look(r, sequence, FRAME_MAX_LENGTH)

\* Mutant: the place behind the sequence.
EndForStart(r, sequence) == getEndOfSeqeunce(r, sequence)

getStartOfSequence(r, sequence) ==
  LET end == getEndOfSeqeunce(r, sequence)
  IN  IF Thrown(end) \/ end.value < 0 THEN end ELSE [end EXCEPT !.value = @ - 2]

\* A division by two, which rounds towards zero.
Half(x) == IF x < 0 THEN -((-x) \div 2) ELSE x \div 2

\* Looks only around the length of the last picture.  The field headerLen, which is not the local
\* variable of that name, is -1.
getEndOfSeqeunceSimplified(r, sequence) ==
  LET headerLen == -1
      startPos == Half(r.mContentLength)
      endPos == Half(3 * r.mContentLength)
      end == Look(skipBytes(r, headerLen + startPos), sequence,
                  IF endPos < startPos THEN 0 ELSE endPos - startPos)
  IN  IF Thrown(end) \/ end.value < 0 THEN end ELSE [end EXCEPT !.value = @ + headerLen + startPos]

\* The length the header gives, or -1 for the NumberFormatException of a header without one.
parseContentLength(header) ==
  LET lines == {i \in DOMAIN header : header[i] >= 1000}
  IN  IF lines = {} THEN -1 ELSE header[CHOOSE i \in lines : \A j \in lines : j <= i] - 1000

-----------------------------------------------------------------------------
(* Pictures. *)

opened(bytes) ==
  [bytes |-> bytes, pos |-> 0, mark |-> 0, value |-> 0, mContentLength |-> -1, frame |-> <<>>, thrown |-> Nothing]

\* The length is known: back to the mark, and over the header to the picture.  The default reader has
\* no array of length -1 to read into; the native one refuses to read so many bytes.
readFrame(r, headerLen, native) ==
  LET measured == [r EXCEPT !.mContentLength = r.value]
      back == reset(measured)
  IN  IF Thrown(r) THEN r
      ELSE IF Thrown(back) THEN back
      ELSE IF r.value < 0 THEN Throws(IF native THEN skipBytes(back, headerLen) ELSE back, "RuntimeException")
      ELSE readFully(skipBytes(back, headerLen), r.value)

\* MjpegInputStreamDefault: the length of the header, or the end of the picture behind it.
lengthDefault(r, length) ==
  IF length >= 0 THEN [r EXCEPT !.value = length] ELSE getEndOfSeqeunce(r, EOF_MARKER)

\* MjpegInputStreamNative: the end is looked for where it is expected, then from the mark on.
lengthNative(r, length) ==
  LET end == getEndOfSeqeunceSimplified(r, EOF_MARKER)
      back == reset(end)
  IN  IF length >= 0 THEN [r EXCEPT !.value = length]
      ELSE IF Thrown(end) \/ end.value >= 0 THEN end
      ELSE IF Thrown(back) THEN back
      ELSE getEndOfSeqeunce(back, EOF_MARKER)

\* Mutant: the mark is set once.
MarkOnce(r, native) ==
  LET start == getStartOfSequence([r EXCEPT !.frame = <<>>, !.thrown = Nothing], SOI_MARKER)
  IN  IF Thrown(start) /\ native THEN reset(start) ELSE start

\* At the end of the stream the native reader goes back to the mark and returns -1.
headerOf(r, native) ==
  LET start == getStartOfSequence([r EXCEPT !.mark = r.pos, !.frame = <<>>, !.thrown = Nothing], SOI_MARKER)
  IN  IF Thrown(start) /\ native THEN reset(start) ELSE start

\* A sequence that is not found makes a length of -1, and an exception that nobody catches.
readMjpegFrame(r, native) ==
  LET start == headerOf(r, native)
      header == [start EXCEPT !.pos = start.mark + start.value]
      length == parseContentLength(SubSeq(r.bytes, start.mark + 1, header.pos))
  IN  IF Thrown(start) THEN start
      ELSE IF start.value < 0 THEN Throws(reset(start), "RuntimeException")
      ELSE readFrame(IF native THEN lengthNative(header, length) ELSE lengthDefault(header, length),
                     start.value, native)

-----------------------------------------------------------------------------
Init ==
  /\ stream \in Streams
  /\ isNative \in BOOLEAN
  /\ reader = opened(stream.bytes)
  /\ calls = 0

Next ==
  /\ calls < Len(stream.pictures)
  /\ calls' = calls + 1
  /\ reader' = readMjpegFrame(reader, isNative)
  /\ UNCHANGED <<stream, isNative>>

Spec == Init /\ [][Next]_vars

-----------------------------------------------------------------------------
(* Properties. *)

\* A picture of the first k is less than half as long as the one before it with its header.
Shrunk(s, k) ==
  \E j \in 2..k : 2 * (FrameLength(s, j) - 1) < HeaderLength(s, j) + FrameLength(s, j - 1)

\* Each call of a reader gives the next picture of the stream.  With a length in the header it is
\* exactly that picture, whatever is in it and however long it is.  Without one the default reader
\* finds the end of it.  The native reader, which looks only around the length of the last picture,
\* does so for a picture that another one follows, if it is not less than half as long as the one
\* before it with its header; it may take with it as many bytes more as a header has.
EachCallGivesThePicture ==
  calls > 0 =>
    IF stream.given \/ ~ isNative
    THEN ~ Thrown(reader) /\ reader.frame = Frame(stream, calls)
    ELSE calls < Len(stream.pictures) /\ ~ Shrunk(stream, calls) =>
           /\ ~ Thrown(reader)
           /\ SubSeq(reader.frame, 1, FrameLength(stream, calls)) = Frame(stream, calls)
           /\ Len(reader.frame) \in
                FrameLength(stream, calls)..(FrameLength(stream, calls) + HeaderLength(stream, calls))

\* No byte of the stream is in two pictures, whichever reader takes them and whatever it finds: a
\* call that gives one gives the bytes it read last, and started no further back than the call
\* before it ended.
NoByteTwice ==
  [][~ Thrown(reader') =>
       LET start == reader'.pos - Len(reader'.frame)
       IN  /\ reader.pos <= start
           /\ reader'.frame = SubSeq(stream.bytes, start + 1, reader'.pos)]_vars
=============================================================================
