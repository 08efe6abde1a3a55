----------------------------- MODULE JpegRestarts -----------------------------
(***************************************************************************)
(* The bytes of a scan as libjpeg's entropy decoders read them, and the    *)
(* restart markers that jdmarker.c reads for them.  The state of a decoder *)
(* is a record d: the source holds bytes, of which the first available can *)
(* be read and pos is the next; suspended says that the last read could    *)
(* not be served.  An operator that reads leaves what it read in value.    *)
(***************************************************************************)
EXTENDS JpegCommon

SOF0 == 192

ReadByte(d) ==
  IF d.pos > d.available THEN [d EXCEPT !.suspended = TRUE]
  ELSE [d EXCEPT !.pos = @ + 1, !.value = d.bytes[d.pos]]

\* The byte after any number of bytes 0xFF.
RECURSIVE ReadPastFill(_)
ReadPastFill(d) ==
  LET read == ReadByte(d) IN IF ~read.suspended /\ read.value = 255 THEN ReadPastFill(read) ELSE read

RECURSIVE next_marker(_)
next_marker(d) ==
  LET byte == ReadByte(d)
      code == ReadPastFill(byte)
  IN  IF byte.suspended THEN byte
      ELSE IF byte.value /= 255 THEN next_marker(byte)
      ELSE IF code.suspended THEN [code EXCEPT !.pos = d.pos]
      ELSE IF code.value = 0 THEN next_marker(code)
      ELSE [code EXCEPT !.unread_marker = code.value]

\* Mutant of ResyncAction: the markers to come are taken for those that have passed.
ResyncMixesUp(marker, desired) ==
  IF marker \in RST0..(RST0 + 7) /\ (marker - RST0 - desired) % 8 \in {1, 2} THEN "scan" ELSE "leave"

ResyncAction(marker, desired) ==
  IF marker < SOF0 THEN "scan"
  ELSE IF marker \notin RST0..(RST0 + 7) THEN "leave"
  ELSE IF (marker - RST0 - desired) % 8 \in {1, 2} THEN "leave"
  ELSE IF (marker - RST0 - desired) % 8 \in {6, 7} THEN "scan"
  ELSE "discard"

RECURSIVE jpeg_resync_to_restart(_, _)
jpeg_resync_to_restart(d, desired) ==
  LET action == ResyncAction(d.unread_marker, desired)
      further == next_marker(d)
  IN  CASE action = "discard" -> [d EXCEPT !.unread_marker = 0]
        [] action = "leave" -> d
        [] action = "scan" -> IF further.suspended THEN further ELSE jpeg_resync_to_restart(further, desired)

read_restart_marker(d) ==
  LET found == IF d.unread_marker = 0 THEN next_marker(d) ELSE d
      desired == d.next_restart_num
      read == IF found.unread_marker = RST0 + desired THEN [found EXCEPT !.unread_marker = 0]
                                                      ELSE jpeg_resync_to_restart(found, desired)
  IN  IF found.suspended THEN found
      ELSE IF read.suspended THEN read
      ELSE [read EXCEPT !.next_restart_num = (@ + 1) % 8]
=============================================================================
