-------------------------- MODULE MCMjpegInputStream --------------------------
(***************************************************************************)
(* The readers on streams of three pictures, whose headers give the length *)
(* or do not.                                                              *)
(***************************************************************************)
EXTENDS MjpegInputStream, SequencesExt

Payloads(given) ==
  {<<>>, <<0, 0, 0>>, <<255, 0, 216, 217>>, [i \in 1..8 |-> 0]}
    \cup IF given
         THEN {<<0, 255, 216, 255, 217, 0>>, <<255>>, [i \in 1..FRAME_MAX_LENGTH |-> 0]}
         ELSE {<<255, 1, 255, 2, 255, 3, 3>>}

Framed(payload) == <<255, 216>> \o payload \o <<255, 217>>

(* Header lines, and the length as one of them or as a later one.          *)
Headed(n, given, frame) ==
  [i \in 1..n |-> 13] \o (IF given THEN <<LengthLine(Len(frame))>> ELSE <<>>) \o frame

(* The stream of the parts, with the place of each frame in it.            *)
StreamOf(given, n, payloads) ==
  LET parts == [k \in 1..3 |-> Headed(n, given, Framed(payloads[k]))]
      ends == [k \in 1..3 |-> Len(FlattenSeq(SubSeq(parts, 1, k)))]
  IN  [bytes |-> FlattenSeq(parts), given |-> given,
       pictures |-> [k \in 1..3 |-> [soi |-> ends[k] - Len(Framed(payloads[k])), end |-> ends[k]]]]

CameraStreams ==
  UNION {{StreamOf(given, n, payloads) : n \in 0..4, payloads \in [1..3 -> Payloads(given)]} : given \in BOOLEAN}
===============================================================================
