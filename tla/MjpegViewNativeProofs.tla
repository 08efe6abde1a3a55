------------------------- MODULE MjpegViewNativeProofs -------------------------
(***************************************************************************)
(* Proofs about MjpegViewNative: however many sources are set, and whatever *)
(* pictures come, there is one render thread, it draws on a surface, and   *)
(* the bitmap it draws shows the lines of one picture, each in its row.    *)
(***************************************************************************)
EXTENDS MjpegViewNative, JpegDecompressProofs, TLAPS, FiniteSetTheorems

RunStates == {"new", "loop", "surface", "spinning", "read", "waiting", "decoding", "draw", "end"}

NativeTypeOK ==
  /\ mIn \in Nat /\ sources \in Nat
  /\ mRun \in BOOLEAN /\ suspending \in BOOLEAN
  /\ surfaceDone \in BOOLEAN /\ surface \in BOOLEAN
  /\ run \in Seq(RunStates)
  /\ thread \in 0..Len(run)
  /\ looper \in {"idle", "join", "destroying", "thrown"}

\* Every thread that runs is the one of the field, so that the next join waits for it.
OnlyTheField == \A t \in Threads : run[t] \notin {"new", "end"} => t = thread

\* When a source replaces the thread, the last one was joined.
StoppedWhenSuspended == looper = "idle" /\ suspending => thread = None

\* The flag says that there is a surface; it is taken back before the surface goes.
FlagIsTrue ==
  /\ surfaceDone => surface
  /\ looper = "destroying" => ~ surfaceDone

\* A thread that has seen the flag has the surface until it looks again.
SurfaceStays == \A t \in Threads : run[t] \in {"read", "decoding", "draw"} => surface

NativeInv == NativeTypeOK /\ OnlyTheField /\ StoppedWhenSuspended /\ FlagIsTrue /\ SurfaceStays

\* A render thread's step takes it to another place of its loop, or to its end.
RunStep(t) ==
  \E to \in RunStates \ {"new"} :
    /\ run[t] \notin {"new", "end"}
    /\ run' = [run EXCEPT ![t] = to]
    /\ to \in {"read", "decoding", "draw"} => surface
    /\ UNCHANGED <<mIn, mRun, suspending, surfaceDone, surface, thread, looper, sources>>

-----------------------------------------------------------------------------

\* The view begins with a thread that was not started, and without a surface.
LEMMA InitInv == NativeInit => NativeInv
<1> SUFFICES ASSUME NativeInit PROVE NativeInv
  OBVIOUS
<1>1. /\ mIn = None /\ mRun = FALSE /\ suspending = FALSE /\ surfaceDone = FALSE /\ surface = FALSE
      /\ thread = 1 /\ run = <<"new">> /\ looper = "idle" /\ sources = 0
  BY DEF NativeInit, ViewInit
<1>2. run \in Seq(RunStates) /\ Len(run) = 1 /\ Threads = {1} /\ run[1] = "new"
  BY <1>1 DEF RunStates, Threads
<1>3. NativeTypeOK
  BY <1>1, <1>2, 1 \in 0..1 DEF NativeTypeOK, None
<1>4. OnlyTheField /\ SurfaceStays
  BY <1>1, <1>2 DEF OnlyTheField, SurfaceStays
<1> QED
  BY <1>1, <1>3, <1>4 DEF NativeInv, StoppedWhenSuspended, FlagIsTrue

\* What a step of a render thread does to the fields of the view, whatever the decoder does.
LEMMA RunThreadSteps ==
  ASSUME NativeInv, NEW t \in Threads, RunThread(t)
  PROVE  RunStep(t)
<1> USE DEF NativeInv, NativeTypeOK, FlagIsTrue, SurfaceStays, Goes, RunStep, RunStates
<1>1. CASE TestRun(t)
  BY <1>1 DEF TestRun
<1>2. CASE TestSurface(t)
  BY <1>2 DEF TestSurface
<1>3. CASE readMjpegFrame(t)
  BY <1>3 DEF readMjpegFrame, UncaughtException
<1>4. CASE Decoded(t)
  BY <1>4 DEF Decoded
<1>5. CASE Draw(t)
  BY <1>5 DEF Draw
<1> QED
  BY <1>1, <1>2, <1>3, <1>4, <1>5 DEF RunThread

\* A step of a render thread keeps the invariant.
LEMMA RunStepInv ==
  ASSUME NativeInv, NEW t \in Threads, RunStep(t)
  PROVE  NativeInv'
<1>1. PICK to \in RunStates \ {"new"} :
        /\ run[t] \notin {"new", "end"}
        /\ run' = [run EXCEPT ![t] = to]
        /\ to \in {"read", "decoding", "draw"} => surface
        /\ UNCHANGED <<mIn, mRun, suspending, surfaceDone, surface, thread, looper, sources>>
  BY DEF RunStep
<1>2. run' \in Seq(RunStates) /\ Len(run') = Len(run) /\ Threads' = Threads
  BY <1>1 DEF NativeInv, NativeTypeOK, Threads
<1>3. \A s \in Threads : run'[s] = IF s = t THEN to ELSE run[s]
  BY <1>1 DEF NativeInv, NativeTypeOK, Threads
<1>4. NativeTypeOK' /\ StoppedWhenSuspended' /\ FlagIsTrue'
  BY <1>1, <1>2 DEF NativeInv, NativeTypeOK, StoppedWhenSuspended, FlagIsTrue, None
<1>5. OnlyTheField'
  BY <1>1, <1>2, <1>3 DEF NativeInv, OnlyTheField
<1>6. SurfaceStays'
  BY <1>1, <1>2, <1>3 DEF NativeInv, SurfaceStays
<1> QED
  BY <1>4, <1>5, <1>6 DEF NativeInv

\* A source starts the thread that was not started yet, or a new one when there is none, or throws.
LEMMA SetSourceInv ==
  ASSUME NativeInv, _setSource
  PROVE  NativeInv'
<1>1. /\ looper = "idle" /\ sources' = sources + 1 /\ mIn' = sources + 1 /\ mRun' = TRUE
      /\ UNCHANGED <<surfaceDone, surface>>
      /\ IF suspending THEN StartThread(TRUE) /\ suspending' = FALSE
                       ELSE StartThread(FALSE) /\ UNCHANGED suspending
  BY DEF _setSource, _startPlayback, _resumePlayback
<1>2. CASE thread = None
  <2>1. thread' = Len(run) + 1 /\ run' = Append(run, "loop") /\ looper' = looper /\ suspending' = FALSE
    BY <1>1, <1>2 DEF StartThread, NativeInv, NativeTypeOK
  <2>2. /\ run' \in Seq(RunStates) /\ Len(run') = Len(run) + 1
        /\ Threads' = 1..(Len(run) + 1) /\ Threads = 1..Len(run)
        /\ run'[Len(run) + 1] = "loop"
        /\ \A s \in Threads : run'[s] = run[s]
    BY <2>1 DEF NativeInv, NativeTypeOK, RunStates, Threads
  <2>3. \A s \in Threads : run[s] \in {"new", "end"}
    BY <1>2, <2>2 DEF NativeInv, OnlyTheField, None
  <2>4. NativeTypeOK'
    <3>1. Len(run) + 1 \in 0..Len(run')
      BY <2>2 DEF NativeInv, NativeTypeOK
    <3>2. sources + 1 \in Nat
      BY DEF NativeInv, NativeTypeOK
    <3>3. surfaceDone' \in BOOLEAN /\ surface' \in BOOLEAN /\ looper' \in {"idle", "join", "destroying", "thrown"}
      BY <1>1, <2>1 DEF NativeInv, NativeTypeOK
    <3>4. thread' \in 0..Len(run')
      BY <2>1, <3>1
    <3> QED
      BY <1>1, <2>1, <2>2, <3>2, <3>3, <3>4 DEF NativeTypeOK
  <2>5. OnlyTheField' /\ SurfaceStays'
    <3>1. \A s \in Threads' : s = Len(run) + 1 \/ (s \in Threads /\ run'[s] \in {"new", "end"})
      <4>1. Len(run) \in Nat
        BY DEF NativeInv, NativeTypeOK
      <4> QED
        BY <2>2, <2>3, <4>1
    <3> QED
      BY <3>1, <2>1, <2>2 DEF OnlyTheField, SurfaceStays
  <2> QED
    BY <1>1, <2>1, <2>4, <2>5 DEF NativeInv, StoppedWhenSuspended, FlagIsTrue
<1>3. CASE thread # None
  <2>1. ~ suspending /\ ~ suspending'
    BY <1>1, <1>3 DEF NativeInv, NativeTypeOK, StoppedWhenSuspended
  <2>2. thread \in Threads /\ thread' = thread
    BY <1>1, <1>3, <2>1 DEF StartThread, NativeInv, NativeTypeOK, None, Threads
  <2>3. CASE run[thread] = "new"
    <3>1. run' = [run EXCEPT ![thread] = "loop"] /\ looper' = looper
      BY <1>1, <1>3, <2>1, <2>3 DEF StartThread
    <3>2. run' \in Seq(RunStates) /\ Len(run') = Len(run) /\ Threads' = Threads
      BY <2>2, <3>1 DEF NativeInv, NativeTypeOK, Threads, RunStates
    <3>3. \A s \in Threads : run'[s] = IF s = thread THEN "loop" ELSE run[s]
      BY <2>2, <3>1 DEF NativeInv, NativeTypeOK, Threads
    <3>4. NativeTypeOK'
      BY <1>1, <2>1, <2>2, <3>1, <3>2 DEF NativeInv, NativeTypeOK
    <3>5. OnlyTheField' /\ SurfaceStays'
      BY <1>1, <2>2, <3>2, <3>3 DEF NativeInv, OnlyTheField, SurfaceStays
    <3> QED
      BY <1>1, <2>1, <3>1, <3>4, <3>5 DEF NativeInv, StoppedWhenSuspended, FlagIsTrue
  <2>4. CASE run[thread] # "new"
    <3>1. run' = run /\ looper' = "thrown"
      BY <1>1, <1>3, <2>1, <2>4 DEF StartThread
    <3> QED
      BY <1>1, <2>1, <2>2, <3>1
         DEF NativeInv, NativeTypeOK, OnlyTheField, StoppedWhenSuspended, FlagIsTrue, SurfaceStays, Threads
  <2> QED
    BY <2>3, <2>4
<1> QED
  BY <1>2, <1>3

\* After the join no thread runs, so that the surface may go.
LEMMA JoinedInv ==
  ASSUME NativeInv, Joined
  PROVE  NativeInv'
<1>1. /\ looper \in {"join", "destroying"}
      /\ thread # None => run[thread] \in {"new", "end"}
      /\ thread' = None /\ mIn' = None /\ looper' = "idle"
      /\ surface' = (surface /\ looper # "destroying")
      /\ UNCHANGED <<mRun, suspending, surfaceDone, run, sources>>
  BY DEF Joined
<1>2. \A t \in Threads : run[t] \in {"new", "end"}
  <2>1. \A t \in Threads : t # None
    BY DEF NativeInv, NativeTypeOK, Threads, None
  <2> QED
    BY <1>1, <2>1 DEF NativeInv, OnlyTheField
<1>3. NativeTypeOK' /\ StoppedWhenSuspended' /\ FlagIsTrue'
  BY <1>1 DEF NativeInv, NativeTypeOK, StoppedWhenSuspended, FlagIsTrue, None
<1>4. OnlyTheField' /\ SurfaceStays'
  BY <1>1, <1>2 DEF OnlyTheField, SurfaceStays, Threads
<1> QED
  BY <1>3, <1>4 DEF NativeInv

\* Every step keeps the invariant.
LEMMA NextInv == NativeInv /\ [ViewNext]_nativeVars => NativeInv'
<1> SUFFICES ASSUME NativeInv, [ViewNext]_nativeVars PROVE NativeInv'
  OBVIOUS
<1> DEFINE Kept == UNCHANGED viewVars => NativeInv'
<1>1. Kept
  BY DEF NativeInv, NativeTypeOK, OnlyTheField, StoppedWhenSuspended, FlagIsTrue, SurfaceStays, viewVars, Threads
<1>2. CASE _setSource
  BY <1>2, SetSourceInv
<1>3. CASE _stopPlayback
  BY <1>3 DEF _stopPlayback, StopAndJoin, NativeInv, NativeTypeOK, OnlyTheField, StoppedWhenSuspended, FlagIsTrue,
              SurfaceStays, Threads
<1>4. CASE _surfaceCreated
  BY <1>4 DEF _surfaceCreated, NativeInv, NativeTypeOK, OnlyTheField, StoppedWhenSuspended, FlagIsTrue,
              SurfaceStays, Threads
<1>5. CASE _surfaceDestroyed
  BY <1>5 DEF _surfaceDestroyed, StopAndJoin, NativeInv, NativeTypeOK, OnlyTheField, StoppedWhenSuspended,
              FlagIsTrue, SurfaceStays, Threads
<1>6. CASE _freeCameraMemory
  BY <1>1, <1>6 DEF _freeCameraMemory
<1>7. CASE Joined
  BY <1>7, JoinedInv
<1>8. CASE \E t \in Threads : RunThread(t)
  BY <1>8, RunThreadSteps, RunStepInv
<1>9. CASE Decode
  BY <1>1, <1>9 DEF Decode
<1>10. CASE UNCHANGED nativeVars
  BY <1>1, <1>10 DEF nativeVars
<1> QED
  BY <1>2, <1>3, <1>4, <1>5, <1>6, <1>7, <1>8, <1>9, <1>10 DEF ViewNext

\* The inductive invariant holds throughout.
LEMMA NativeInvariant == NativeSpec => []NativeInv
<1>1. NativeInit => NativeInv
  BY InitInv
<1>2. NativeInv /\ [ViewNext]_nativeVars => NativeInv'
  BY NextInv
<1> QED
  BY <1>1, <1>2, PTL DEF NativeSpec

\* At most one render thread is alive, and so one decode goes on in the array of the process.
THEOREM OneThread == NativeSpec => []OneRenderThread
<1>1. NativeInv => OneRenderThread
  <2> SUFFICES ASSUME NativeInv PROVE Cardinality(Alive) <= 1
    BY DEF OneRenderThread
  <2>1. Alive \subseteq {thread}
    BY DEF Alive, NativeInv, OnlyTheField
  <2>2. IsFiniteSet({thread}) /\ Cardinality({thread}) = 1
    BY FS_Singleton
  <2> QED
    BY <2>1, <2>2, FS_Subset
<1> QED
  BY <1>1, NativeInvariant, PTL

\* The surface is there whenever a thread is about to draw on it.
THEOREM SurfaceWhenDrawn == NativeSpec => []DrawsOnASurface
<1>1. NativeInv => DrawsOnASurface
  BY DEF NativeInv, SurfaceStays, DrawsOnASurface
<1> QED
  BY <1>1, NativeInvariant, PTL

-----------------------------------------------------------------------------
(* The pictures of the decoder. *)

\* The parameters ImageProc.c decodes with: those of the header.
Plain ==
  setting \in {default_decompress_parms, [default_decompress_parms EXCEPT !.jpeg_color_space = "YCbCr"]}

\* Its passes are single, and the arrays of a pass, if there are any, are complete: no pass reads markers.
Prepared ==
  /\ Plain
  /\ ~ is_dummy_pass /\ post.mode = "JBUF_PASS_THRU"
  /\ global_state = "PRELOAD" => has_multiple_scans \/ coef = <<>>
  /\ call = "absorbed" => eoi_reached
  /\ call = "output_pass_setup" => coef = <<>> \/ eoi_reached
  /\ global_state \in {"PRESCAN", "SCANNING"} => decompress_data = "decompress_onepass" \/ eoi_reached

\* The loop over the rows has begun.
InLoop == at \in {"lines", "copy"} /\ y >= 0

\* Where the application is, so is the library.
Turns ==
  /\ at \in {"idle", "header", "start", "alloc", "lines", "copy", "finish", "bitmap"} /\ y \in Int /\ y >= -1
  /\ at \in {"idle", "header", "alloc", "bitmap"} \/ (at = "lines" /\ y >= 0) => call = NoCall
  /\ at = "start" => call \in {NoCall, "jpeg_read_header"}
  /\ at = "lines" => call \in {NoCall, "jpeg_start_decompress", "absorbed", "output_pass_setup"}
  /\ at = "copy" => y >= 0 /\ call \in {NoCall, "jpeg_read_scanlines"} /\ (call # NoCall => max_lines = 1)
  /\ at = "finish" => call \in {NoCall, "jpeg_finish_decompress"}
  /\ at = "header" => global_state = "START"
  /\ at \in {"start", "alloc"} => global_state \in {"INHEADER", "READY"}
  /\ at = "lines" /\ error = NoError => Started
  /\ error # NoError => call = NoCall

\* A picture whose data ended before its lines: no call gives a line any more.
OutOfData ==
  /\ global_state = "SCANNING" /\ decompress_data = "decompress_onepass"
  /\ ~ unread_marker /\ ~ HasUnit
  /\ ~ main.buffer_full /\ output_scanline < frame.height

\* Until the loop no line is given out; in it, the row is that of the next line, or of the last one that is
\* still to be copied.  An error comes before the first line.
InStep ==
  /\ at \in {"header", "start", "alloc"} \/ (at = "lines" /\ y = -1) => output_scanline = 0
  /\ InLoop =>
       IF error # NoError THEN y = 0
       ELSE /\ at = "copy" \/ y > 0 => global_state = "SCANNING"
            /\ OutOfData \/ output_scanline = (IF at = "copy" /\ call = NoCall THEN y + 1 ELSE y)

\* All pictures are as high as the array.
OneHeight(h) ==
  /\ \A i \in DOMAIN pictures : SofHeights(pictures[i]) \subseteq {h}
  /\ SofHeights(stream) \subseteq {h}
  /\ saw_SOF => frame.height = h
  /\ rgb # NULL => IMG_HEIGHT = h

\* The array holds the last whole picture, until the next one is decoded over it, row by row.
ArrayRows ==
  IF rgb = NULL THEN intact = 0 /\ ~ InLoop
  ELSE /\ rgb = [r \in 1..IMG_HEIGHT |-> rgb[r]]
       /\ \A r \in 1..IMG_HEIGHT :
            IF InLoop /\ r <= y THEN OutOfData \/ rgb[r] = Row(picture, r - 1)
            ELSE intact # 0 => rgb[r] = Row(intact, r - 1)

\* What is known of a picture on its way to the bitmap.
ImageInv ==
  /\ whole /\ pictures \in Seq(Seq(Units))
  /\ PictureInv /\ Prepared
  /\ Turns /\ InStep
  /\ \E h \in 0..MAX_Y : OneHeight(h)
  /\ ArrayRows
  /\ BitmapIsOnePicture
-----------------------------------------------------------------------------
(* What the decoder's use of the library comes to. *)

\* What reading input does, as far as the decoder's pictures depend on it.
ReadingOnce(ret) ==
  /\ UNCHANGED <<stream, whole>>
  /\ saw_SOF' => (saw_SOF /\ frame' = frame) \/ frame'.height \in SofHeights(stream)
  /\ eoi_reached \/ ret = "REACHED_EOI" => eoi_reached'
  /\ inheaders = 0 => has_multiple_scans' = has_multiple_scans
  /\ error' = error \/ (ret = "ERROR" /\ ~ eoi_reached)

\* A marker may bring the height, the end, or an error.
LEMMA MarkerReadOnce ==
  ASSUME InputInv, NEW ret, consume_markers(ret)
  PROVE  ReadingOnce(ret)
<1>1. CASE ret # "REACHED_EOI" /\ UNCHANGED <<source, seen, has_multiple_scans, progress, error>>
  BY <1>1 DEF ReadingOnce, source, seen, progress
<1>2. CASE ~ eoi_reached /\ \E e : Fail(ret, e)
  BY <1>2 DEF Fail, ReadingOnce, source, seen, setup, progress
<1>3. CASE eoi_reached /\ UNCHANGED inputVars
  BY <1>3 DEF ReadingOnce, inputVars, source, seen, setup, progress
<1>4. CASE ~ eoi_reached /\ get_sof(ret)
  <2>1. CASE \E e : Fail(ret, e)
    BY <1>2, <1>4, <2>1
  <2>2. CASE ~ \E e : Fail(ret, e)
    <3>1. /\ UNCHANGED <<source, setup, progress, error>> /\ frame'.height = Unit.height /\ ret = "CONTINUE"
          /\ Reading("SOF")
      BY <1>4, <2>2 DEF get_sof
    <3>2. pos \in DOMAIN stream /\ Unit = stream[pos] /\ Unit.t = "SOF"
      BY <3>1 DEF Reading, HasUnit, Unit, InputInv, Headers, Counters
    <3>3. Unit.height \in SofHeights(stream)
      BY <3>2 DEF SofHeights
    <3> QED
      BY <1>4, <3>1, <3>3 DEF ReadingOnce, source, setup, progress
  <2> QED
    BY <2>1, <2>2
<1>5. CASE ~ eoi_reached /\ ReachEoi(ret)
  BY <1>5 DEF ReachEoi, ReadingOnce, source, seen, setup
<1>6. CASE ~ eoi_reached /\ FirstSos(ret)
  <2>1. CASE \E e : Fail(ret, e)
    BY <1>2, <1>6, <2>1
  <2>2. CASE ~ \E e : Fail(ret, e)
    <3>1. SosRead(Unit) /\ ret # "REACHED_EOI" /\ inheaders # 0
      BY <1>6, <2>2 DEF FirstSos
    <3> QED
      BY <1>6, <3>1 DEF SosRead, ReadingOnce, source, seen, progress
  <2> QED
    BY <2>1, <2>2
<1>7. CASE ~ eoi_reached /\ LaterSos(ret)
  <2>1. CASE \E e : Fail(ret, e)
    BY <1>2, <1>7, <2>1
  <2>2. CASE ~ \E e : Fail(ret, e)
    <3>1. SosRead(Unit) /\ ret # "REACHED_EOI" /\ UNCHANGED has_multiple_scans
      BY <1>7, <2>2 DEF LaterSos, setup
    <3> QED
      BY <1>1, <3>1 DEF SosRead
  <2> QED
    BY <2>1, <2>2
<1>8. CASE ~ eoi_reached /\ (first_marker(ret) \/ next_marker(ret) \/ get_soi(ret) \/ UnknownMarker(ret))
  <2>1. CASE \E e : Fail(ret, e)
    BY <1>2, <1>8, <2>1
  <2>2. CASE ~ \E e : Fail(ret, e)
    BY <1>8, <2>2 DEF first_marker, next_marker, get_soi, UnknownMarker, ReadingOnce, source, seen, setup, progress
  <2> QED
    BY <2>1, <2>2
<1>9. CASE ~ eoi_reached /\ (get_dqt(ret) \/ get_dht(ret) \/ skip_variable(ret))
  BY <1>1, <1>9 DEF get_dqt, get_dht, skip_variable, setup
<1>10. CASE ~ eoi_reached /\ ret = "SUSPENDED" /\ UNCHANGED inputVars
  BY <1>1, <1>10 DEF inputVars, setup
<1>11. CASE eoi_reached
  BY <1>3, <1>11 DEF consume_markers
<1>12. CASE ~ eoi_reached
  BY <1>4, <1>5, <1>6, <1>7, <1>8, <1>9, <1>10, <1>12 DEF consume_markers
<1> QED
  BY <1>11, <1>12

\* Data bring none of them.
LEMMA DataReadOnce ==
  ASSUME NEW ret, DecodeRow(ret)
  PROVE  ReadingOnce(ret) /\ UNCHANGED <<source, seen, setup, scans, progress, error>>
<1>1. UNCHANGED <<source, seen, setup, scans, progress, error>>
  BY DEF DecodeRow, inputVars
<1>2. ret # "REACHED_EOI"
  BY DEF DecodeRow, AdvanceRow
<1> QED
  BY <1>1, <1>2 DEF ReadingOnce, source, seen, setup, progress

\* Whatever is read.
LEMMA ReadOnce ==
  ASSUME InputInv, NEW ret, ConsumeInput(ret)
  PROVE  ReadingOnce(ret)
<1>1. CASE ret = "SUSPENDED" /\ UNCHANGED inputVars
  BY <1>1 DEF ReadingOnce, inputVars, source, seen, setup, progress
<1> QED
  BY <1>1, MarkerReadOnce, DataReadOnce DEF ConsumeInput, dummy_consume_data

\* A picture's data are read, and not changed.
SourceKept ==
  /\ UNCHANGED <<stream, whole>>
  /\ saw_SOF' => (saw_SOF /\ frame' = frame) \/ frame'.height \in SofHeights(stream)

\* A call that ends in an error leaves the picture as it is.
LEMMA PictureAfterError ==
  ASSUME PictureInv, NEW e, ErrorExit(e)
  PROVE  /\ PictureInv' /\ SourceKept
         /\ UNCHANGED <<outputVars, global_state, is_dummy_pass, eoi_reached, coef, has_multiple_scans>>
<1>1. InputInv' /\ Phases'
  BY KeptByError DEF PictureInv, Keeping
<1>2. PassInv'
  BY <1>1, PassByError DEF PictureInv
<1>3. LineInv' /\ OnePass'
  BY LinesByError DEF PictureInv
<1>4. SourceKept
  BY DEF ErrorExit, SourceKept, source, seen
<1> QED
  BY <1>1, <1>2, <1>3, <1>4 DEF PictureInv, ErrorExit, progress, setup, master

\* No step inside a call disturbs the picture, with a header required or not.
LEMMA PictureInCalls ==
  ASSUME PictureInv, LibraryStep(TRUE)
  PROVE  PictureInv'
<1>1. CASE EndOfTables(TRUE)
  <2>1. ErrorExit("NO_IMAGE")
    BY <1>1 DEF EndOfTables
  <2> QED
    BY <2>1, PictureAfterError
<1>2. CASE ~ EndOfTables(TRUE)
  <2>1. LibraryStep(FALSE)
    BY <1>2 DEF LibraryStep
  <2> QED
    BY <2>1, PictureStays DEF Next
<1> QED
  BY <1>1, <1>2

\* The steps inside the calls that the decoder makes.
LEMMA StepsOfCalls ==
  ASSUME LibraryStep(TRUE)
  PROVE  /\ call # NoCall
         /\ call = "jpeg_read_header" => ReadHeader \/ ErrorExit("NO_IMAGE")
         /\ call = "jpeg_start_decompress" => AbsorbScans \/ Absorbed
         /\ call = "absorbed" => Absorbed
         /\ call = "output_pass_setup" => SetUpPass \/ OutputReady \/ is_dummy_pass
         /\ call = "jpeg_read_scanlines" => ReadScanlines
         /\ call = "jpeg_finish_decompress" => FinishDecompress
BY DEF LibraryStep, ReadHeader, EndOfTables, TakeInput, AbsorbScans, Absorbed, SetUpPass, DummyPass, EndDummyPass,
   OutputReady, ReadScanlines, ReadRawData, FinishOutput, FinishDecompress, NoCall

\* What is known of a picture before its lines, and after.
LEMMA PreparedByError ==
  ASSUME PictureInv, Prepared, NEW e, ErrorExit(e)
  PROVE  Prepared'
<1>1. UNCHANGED <<outputVars, global_state, is_dummy_pass, eoi_reached, coef, has_multiple_scans>> /\ call' = NoCall
  BY PictureAfterError DEF ErrorExit, Return
<1> QED
  BY <1>1 DEF Prepared, Plain, outputVars, NoCall

\* The header of a picture.
LEMMA HeaderStep ==
  ASSUME PictureInv, Prepared, ReadHeader, global_state \in {"INHEADER", "READY"}, error = NoError
  PROVE  /\ Prepared' /\ SourceKept
         /\ call' \in {NoCall, "jpeg_read_header"} /\ global_state' \in {"INHEADER", "READY"}
         /\ UNCHANGED output_scanline /\ (error' # NoError => call' = NoCall)
<1>1. PICK ret \in Retcodes :
        /\ ConsumeInput(ret)
        /\ call' \in {call, NoCall} /\ (ret = "ERROR" => call' = NoCall)
        /\ (global_state' = "READY" /\ setting' = default_decompress_parms) \/ UNCHANGED <<global_state, setting>>
  BY DEF ReadHeader, Return
<1>2. ReadingOnce(ret)
  BY <1>1, ReadOnce DEF PictureInv
<1>3. call = "jpeg_read_header" /\ UNCHANGED <<output_scanline, post, is_dummy_pass>>
  BY DEF ReadHeader, master
<1>4. Prepared'
  BY <1>1, <1>3 DEF Prepared, Plain, NoCall
<1> QED
  BY <1>1, <1>2, <1>3, <1>4 DEF ReadingOnce, SourceKept

\* The start of a picture: all scans of several are taken in, and the pass is set up.
LEMMA StartStep ==
  ASSUME PictureInv, PictureInv', Prepared, LibraryStep(TRUE), Started,
         call \in {"jpeg_start_decompress", "absorbed", "output_pass_setup"}, output_scanline = 0, error = NoError
  PROVE  /\ Prepared' /\ SourceKept
         /\ call' \in {NoCall, "jpeg_start_decompress", "absorbed", "output_pass_setup"} /\ Started'
         /\ output_scanline' = 0 /\ (error' # NoError => call' = NoCall)
<1>1. inheaders = 0 /\ (call \in {"jpeg_start_decompress", "absorbed"} => global_state = "PRELOAD")
  BY DEF PictureInv, PassInv, PassOrder, LineInv, Modes
<1>2. ~ setting.quantize_colors /\ ~ setting.raw_data_out
  BY DEF Prepared, Plain, default_decompress_parms
<1>3. CASE AbsorbScans
  <2>1. PICK ret \in Retcodes :
          /\ ConsumeInput(ret)
          /\ call' = (IF ret \in {"SUSPENDED", "ERROR"} THEN NoCall ELSE IF ret = "REACHED_EOI" THEN "absorbed" ELSE call)
    BY <1>3 DEF AbsorbScans
  <2>2. ReadingOnce(ret)
    BY <2>1, ReadOnce DEF PictureInv
  <2>3. /\ UNCHANGED <<outputVars, global_state, is_dummy_pass>> /\ call = "jpeg_start_decompress" /\ has_multiple_scans
    BY <1>3 DEF AbsorbScans, master
  <2>4. Prepared'
    BY <1>1, <2>1, <2>2, <2>3 DEF Prepared, Plain, ReadingOnce, outputVars, NoCall
  <2> QED
    BY <2>1, <2>2, <2>3, <2>4 DEF ReadingOnce, SourceKept, outputVars, Started
<1>4. CASE Absorbed
  <2>1. /\ UNCHANGED <<outputVars, global_state, is_dummy_pass, source, seen, setup, eoi_reached, coef, error>>
        /\ call' = "output_pass_setup"
        /\ call = "absorbed" \/ (call = "jpeg_start_decompress" /\ ~ has_multiple_scans)
    BY <1>4 DEF Absorbed, Enter, master
  <2>2. coef = <<>> \/ eoi_reached
    BY <1>1, <2>1 DEF Prepared
  <2> QED
    BY <2>1, <2>2 DEF Prepared, Plain, SourceKept, source, seen, setup, outputVars, Started
<1>5. CASE SetUpPass
  <2>1. NewQuantizer = "same"
    BY <1>2 DEF NewQuantizer
  <2>2. /\ PreparePass /\ output_scanline' = 0 /\ global_state' = "PRESCAN" /\ call' = "output_pass_setup"
        /\ call = "output_pass_setup"
    BY <1>5, <2>1 DEF SetUpPass
  <2>3. ~ is_dummy_pass' /\ post'.mode = "JBUF_PASS_THRU" /\ UNCHANGED <<inputVars, setting>>
    <3>1. ~ is_dummy_pass' /\ UNCHANGED <<inputVars, setting>>
      BY <2>1, <2>2 DEF PreparePass
    <3>2. start_pass_dpost(IF is_dummy_pass' THEN "JBUF_SAVE_AND_PASS" ELSE "JBUF_PASS_THRU")
      BY <1>2, <2>2 DEF PreparePass
    <3>3. post' = [starting_row |-> 0, next_row |-> 0, mode |-> "JBUF_PASS_THRU"]
      BY <3>1, <3>2 DEF start_pass_dpost
    <3> QED
      BY <3>1, <3>3
  <2>4. coef = <<>> \/ eoi_reached
    BY <2>2 DEF Prepared
  <2>5. coef = <<>> => decompress_data' = "decompress_onepass"
    BY <2>2 DEF PreparePass, start_output_pass
  <2> QED
    BY <2>2, <2>3, <2>4, <2>5 DEF Prepared, Plain, SourceKept, inputVars, source, seen, setup, progress, Started
<1>6. CASE OutputReady
  <2>1. /\ UNCHANGED <<inputVars, outputVars, is_dummy_pass>> /\ global_state' = "SCANNING" /\ call' = NoCall
        /\ call = "output_pass_setup" /\ global_state = "PRESCAN"
    BY <1>2, <1>6 DEF OutputReady, Return, master
  <2> QED
    BY <2>1 DEF Prepared, Plain, SourceKept, inputVars, source, seen, setup, progress, outputVars, Started, NoCall
<1> QED
  BY <1>3, <1>4, <1>5, <1>6, StepsOfCalls DEF Prepared

\* The end of a picture.
LEMMA EndOfPicture ==
  ASSUME PictureInv, Prepared, FinishDecompress, error = NoError
  PROVE  /\ Prepared' /\ SourceKept /\ call' \in {NoCall, "jpeg_finish_decompress"}
         /\ error' # NoError => call' = NoCall
<1>1. UNCHANGED <<outputVars, is_dummy_pass>> /\ call = "jpeg_finish_decompress"
  BY DEF FinishDecompress, master
<1>2. CASE ~ eoi_reached
  <2>1. PICK ret \in Retcodes :
          ConsumeInput(ret) /\ call' \in {call, NoCall} /\ UNCHANGED global_state /\ (ret = "ERROR" => call' = NoCall)
    BY <1>2 DEF FinishDecompress, Return
  <2>2. ReadingOnce(ret) /\ (coef = <<>> => coef' = <<>>)
    BY <2>1, ReadOnce, ReadingStep DEF PictureInv, InputStep
  <2>3. global_state = "PRELOAD" => inheaders = 0
    BY DEF PictureInv, LineInv, Modes, Started
  <2> QED
    BY <1>1, <2>1, <2>2, <2>3 DEF Prepared, Plain, ReadingOnce, SourceKept, outputVars, NoCall
<1>3. CASE eoi_reached
  <2>1. global_state' = "START" /\ call' = NoCall /\ UNCHANGED inputVars
    BY <1>3 DEF FinishDecompress, jpeg_abort, Return
  <2> QED
    BY <1>1, <2>1 DEF Prepared, Plain, SourceKept, inputVars, source, seen, outputVars, NoCall
<1> QED
  BY <1>2, <1>3

\* A picture that is not scaled is as high as its frame.
LEMMA PlainHeight ==
  ASSUME Sized, Plain
  PROVE  output_height = frame.height
<1> DEFINE b == block_size
           h == frame.height
           enough == {n \in 1..16 : setting.scale_num * block_size <= setting.scale_denom * n}
<1>1. b \in 1..16 /\ h \in Nat
  BY DEF Sized
<1>2. enough = {n \in 1..16 : b <= n}
  BY <1>1 DEF Plain, default_decompress_parms
<1>3. min_DCT_scaled_size = b
  <2> HIDE DEF enough
  <2>1. b \in enough /\ \A n \in enough : n \in Int /\ b <= n
    BY <1>1, <1>2
  <2>2. Smallest(enough) = b
    <3>1. \A m \in enough : (\A n \in enough : m <= n) => m = b
      BY <1>1, <2>1
    <3> QED
      BY <2>1, <3>1 DEF Smallest
  <2> QED
    BY <2>1, <2>2 DEF min_DCT_scaled_size, enough
<1> HIDE DEF b, h
<1>4. output_height = jdiv_round_up(h * b, b)
  BY <1>3 DEF output_height, b, h
<1>5. jdiv_round_up(h * b, b) = h
  <2> DEFINE q == jdiv_round_up(h * b, b)
             n == h * b
  <2>1. n \in Nat /\ b \in Nat \ {0}
    BY <1>1
  <2>2. q \in Nat /\ n <= b * q /\ b * q < n + b
    <3> HIDE DEF n
    <3>1. jdiv_round_up(n, b) \in Nat /\ n <= b * jdiv_round_up(n, b) /\ b * jdiv_round_up(n, b) < n + b
      BY <2>1, RoundedUp
    <3> QED
      BY <3>1 DEF n
  <2> HIDE DEF q
  <2>3. ~ q < h
    <3>1. SUFFICES ASSUME q < h PROVE FALSE
      OBVIOUS
    <3>2. q + 1 <= h
      BY <1>1, <2>2, <3>1
    <3>3. (q + 1) * b <= h * b
      BY <1>1, <2>1, <2>2, <3>2, Monotone
    <3> QED
      BY <1>1, <2>1, <2>2, <3>3
  <2>4. ~ q > h
    <3>1. SUFFICES ASSUME q > h PROVE FALSE
      OBVIOUS
    <3>2. h + 1 <= q
      BY <1>1, <2>2, <3>1
    <3>3. (h + 1) * b <= q * b
      BY <1>1, <2>1, <2>2, <3>2, Monotone
    <3> QED
      BY <1>1, <2>1, <2>2, <3>3
  <2> QED
    BY <1>1, <2>2, <2>3, <2>4 DEF q
<1> QED
  BY <1>4, <1>5 DEF h

\* A call for one line ends with the next line of the picture, or where its data end.
LEMMA LineStep ==
  ASSUME PictureInv, Prepared, whole, ReadScanlines, max_lines = 1, error = NoError
  PROVE  /\ Prepared' /\ SourceKept /\ UNCHANGED <<frame, global_state>> /\ error' = NoError
         /\ global_state = "SCANNING" /\ call = "jpeg_read_scanlines"
         /\ \/ call' = call /\ max_lines' = 1 /\ output_scanline' = output_scanline
            \/ call' = NoCall /\ output_scanline' = output_scanline + 1
            \/ call' = NoCall /\ OutOfData'
         /\ OutOfData => OutOfData'
<1>1. PICK ret \in Retcodes \cup {"LINES"} :
        /\ ProcessData(ret, max_lines)
        /\ IF ret = "CONTINUE" THEN UNCHANGED <<call, max_lines>> ELSE Return /\ max_lines' = 0
  BY DEF ReadScanlines
<1>2. /\ call = "jpeg_read_scanlines" /\ global_state = "SCANNING"
      /\ UNCHANGED <<setting, decompress_data, global_state, is_dummy_pass>>
  BY DEF ReadScanlines, PictureInv, Phases, master
<1>3. Sized /\ Buffers /\ setting \in Parameters /\ ~ setting.raw_data_out /\ ~ setting.quantize_colors
  BY <1>2 DEF PictureInv, LineInv, Modes, Started, InputInv, Headers, Sized, PassInv, Prepared, Plain,
     default_decompress_parms
<1>4. output_scanline < output_height /\ output_height = frame.height
  BY <1>2, <1>3, PlainHeight DEF PictureInv, LineInv, Modes, Prepared
<1>5. Upsampling /\ LinesCounted
  BY <1>2, <1>3 DEF Upsampling, PictureInv, LineInv, Prepared
<1>6. output_scanline \in Nat
  BY <1>3, <1>5, LinesAreCounted DEF PictureInv, Phases
<1>7. CASE main.buffer_full
  <2>1. ret = "LINES" /\ post_process_1pass(1) /\ UNCHANGED <<inputVars, output_iMCU_row>>
    BY <1>1, <1>7 DEF ProcessData, Prepared
  <2>2. UNCHANGED <<frame, block_size, setting, output_iMCU_row>>
    BY <1>2, <2>1 DEF inputVars, seen, setup
  <2>3. /\ upsample' = Upsampled(1).state /\ UseRowGroup(Upsampled(1).consumed) /\ post' = post
        /\ output_scanline' = output_scanline + Len(Upsampled(1).lines)
    BY <1>3, <2>1 DEF post_process_1pass, Emit
  <2>4. PICK n \in 1..1 : output_scanline' = output_scanline + n
    BY <1>3, <1>4, <1>5, <1>6, <1>7, <2>2, <2>3, UpsampledStep
  <2>5. output_scanline' = output_scanline + 1 /\ call' = NoCall
    BY <1>1, <2>1, <2>4 DEF Return
  <2>6. Prepared'
    BY <1>2, <2>1, <2>3, <2>5 DEF Prepared, Plain, inputVars, setup, progress, NoCall
  <2>7. SourceKept /\ error' = error
    BY <2>1 DEF SourceKept, inputVars, source, seen
  <2> QED
    BY <1>2, <1>7, <2>2, <2>5, <2>6, <2>7 DEF OutOfData
<1>8. CASE ~ main.buffer_full
  <2>1. PICK r \in Retcodes :
          /\ DecompressData(r)
          /\ ret = (IF r = "ROW_COMPLETED" THEN "CONTINUE" ELSE r)
          /\ r # "ROW_COMPLETED" => main' = main
          /\ UNCHANGED <<post, output_scanline>>
    BY <1>1, <1>8 DEF ProcessData, Prepared
  <2>2. CASE decompress_data = "decompress_onepass"
    <3>1. PICK s \in Retcodes :
            DecodeRow(s) /\ r = (IF s \in {"ROW_COMPLETED", "SCAN_COMPLETED"} THEN "ROW_COMPLETED" ELSE s)
      BY <2>1, <2>2 DEF DecompressData, decompress_onepass
    <3>2. UNCHANGED <<source, seen, setup, progress, error>>
      BY <3>1, DataReadOnce
    <3>3. s # "SUSPENDED" => HasUnit /\ s \in {"CONTINUE", "ROW_COMPLETED", "SCAN_COMPLETED"}
      BY <3>1 DEF DecodeRow, AdvanceRow
    <3>4. s = "SUSPENDED" => ~ unread_marker /\ ~ HasUnit /\ UNCHANGED inputVars
      BY <3>1 DEF DecodeRow, AdvanceRow, MaySuspend
    <3>5. IF s = "SUSPENDED" THEN call' = NoCall ELSE UNCHANGED <<call, max_lines>>
      BY <1>1, <2>1, <3>1, <3>3 DEF Return
    <3>6. Prepared'
      BY <1>2, <2>1, <2>2, <3>2, <3>5 DEF Prepared, Plain, setup, progress, NoCall
    <3>7. SourceKept /\ UNCHANGED frame
      BY <3>2 DEF SourceKept, source, seen
    <3>8. s = "SUSPENDED" => OutOfData'
      BY <1>2, <1>4, <1>8, <2>1, <2>2, <3>1, <3>4 DEF OutOfData, inputVars, reader, source, seen, HasUnit
    <3> QED
      BY <1>2, <2>1, <3>2, <3>3, <3>5, <3>6, <3>7, <3>8 DEF OutOfData
  <2>3. CASE decompress_data # "decompress_onepass"
    <3>1. eoi_reached /\ DecompressFromArrays(r)
      BY <1>2, <2>1, <2>3 DEF Prepared, DecompressData
    <3>2. consume_input = "consume_markers"
      BY <3>1 DEF PictureInv, InputInv, Headers
    <3>3. r \in {"CONTINUE", "ROW_COMPLETED"} /\ UNCHANGED inputVars
      BY <3>1, <3>2 DEF DecompressFromArrays, ConsumeInput, consume_markers
    <3>4. UNCHANGED <<call, max_lines>>
      BY <1>1, <2>1, <3>3
    <3>5. Prepared'
      BY <1>2, <2>1, <3>3, <3>4 DEF Prepared, Plain, inputVars, setup, progress
    <3> QED
      BY <1>2, <2>1, <2>3, <3>3, <3>4, <3>5 DEF SourceKept, OutOfData, inputVars, source, seen
  <2> QED
    BY <2>2, <2>3
<1> QED
  BY <1>7, <1>8

-----------------------------------------------------------------------------
(* The steps of ImageProc.c. *)

\* The picture in the library is disturbed by none of them.
LEMMA PictureByImage ==
  ASSUME PictureInv, Turns, pictures \in Seq(Seq(Units)),
         pixeltobmp \/ ProcessImage \/ freeCameraMemory
  PROVE  PictureInv'
<1>1. CASE pixeltobmp
  <2>1. CreateDecompress /\ jpeg_memory_src(Head(pictures)) /\ Head(pictures) \in Seq(Units)
    BY <1>1 DEF pixeltobmp
  <2>2. NewObject'
    BY <2>1 DEF CreateDecompress, jpeg_memory_src, NewObject, DecompressInit, InputInit, OutputInit, start_pass_main,
       start_pass_dpost
  <2> QED
    BY <2>2, InitialPicture, PTL
<1>2. CASE Decoding /\ LibraryStep(TRUE) /\ UNCHANGED imageVars
  BY <1>2, PictureInCalls
<1>3. CASE ReadPictureHeader
  <2>1. Application
    BY <1>3 DEF ReadPictureHeader, Application
  <2> QED
    BY <2>1, PictureStays DEF Next
<1>4. CASE SetParameters
  <2>1. /\ global_state \in {"INHEADER", "READY"} /\ call = NoCall
        /\ setting' = [setting EXCEPT !.jpeg_color_space = "YCbCr"]
        /\ UNCHANGED <<source, reader, seen, setup, pass, scans, progress, coef, idct_table, decompress_data,
                       output_iMCU_row, main, upsample, post, whole_image, lines, shown, premature, global_state, call>>
    BY <1>4 DEF SetParameters, Turns, control, Idle
  <2>2. InputInv' /\ UNCHANGED coef
    <3>1. pos' \in Nat \ {0}
      BY <2>1 DEF PictureInv, InputInv, Counters, reader
    <3>2. InputStep("CONTINUE")
      BY <2>1, <3>1, ReaderMoves DEF PictureInv, source, seen, setup
    <3> QED
      BY <2>1, <3>2 DEF InputStep
  <2>3. Phases'
    BY <2>1 DEF PictureInv, Phases, scans, progress
  <2>4. PassInv'
    <3>1. setting' \in Parameters
      BY <2>1 DEF PictureInv, PassInv, Parameters
    <3>2. UNCHANGED <<frame, inheaders, quant_table>>
      BY <2>1 DEF seen, setup, scans
    <3> QED
      BY <2>1, <3>1, <3>2 DEF PictureInv, PassInv, Tables, SavedTables, Comps, PassOrder, Passing
  <2>5. LineInv'
    BY <2>1, LinesOver DEF PictureInv, NoCall, Started
  <2>6. OnePass'
    BY <2>1 DEF PictureInv, OnePass, pass
  <2> QED
    BY <2>2, <2>3, <2>4, <2>5, <2>6 DEF PictureInv
<1>5. CASE StartPicture
  <2>1. Application \/ \E e : ErrorExit(e)
    BY <1>5 DEF StartPicture, Application, BadState
  <2> QED
    BY <2>1, PictureStays, PictureAfterError DEF Next
<1>6. CASE AllocateArray \/ CopyLine \/ CopyToBitmap \/ freeCameraMemory
  <2>1. UNCHANGED decompressVars
    BY <1>6 DEF AllocateArray, CopyLine, CopyToBitmap, freeCameraMemory
  <2> QED
    BY <2>1, PictureStays
<1>7. CASE ReadLine
  <2>1. Application \/ \E e : ErrorExit(e)
    BY <1>7 DEF ReadLine, Application, BadState
  <2> QED
    BY <2>1, PictureStays, PictureAfterError DEF Next
<1>8. CASE FinishPicture
  <2>1. Application
    BY <1>8 DEF FinishPicture, Application
  <2> QED
    BY <2>1, PictureStays DEF Next
<1>9. CASE my_error_exit
  <2>1. ErrorExit(NoError)
    BY <1>9 DEF my_error_exit, ErrorExit
  <2> QED
    BY <2>1, PictureAfterError
<1> QED
  BY <1>1, <1>2, <1>3, <1>4, <1>5, <1>6, <1>7, <1>8, <1>9 DEF ProcessImage

\* The heights stay the same while the data are read.
LEMMA HeightKept ==
  ASSUME NEW h, OneHeight(h), SourceKept, UNCHANGED <<pictures, rgb, IMG_HEIGHT>>
  PROVE  OneHeight(h)'
<1>1. SofHeights(stream') \subseteq {h}
  BY DEF OneHeight, SourceKept
<1>2. saw_SOF' => frame'.height = h
  BY DEF OneHeight, SourceKept
<1> QED
  BY <1>1, <1>2 DEF OneHeight, SofHeights

\* Outside of the loop, and at its start, the array is that of the last whole picture.
LEMMA RowsKept ==
  ASSUME Turns, ArrayRows, UNCHANGED <<rgb, IMG_HEIGHT, intact>>,
         ~ InLoop \/ y = 0, ~ InLoop' \/ (InLoop /\ y' = 0)
  PROVE  ArrayRows'
<1>1. CASE rgb = NULL
  BY <1>1 DEF ArrayRows
<1>2. CASE rgb # NULL
  <2>1. \A r \in 1..IMG_HEIGHT : ~ (InLoop /\ r <= y) /\ ~ (InLoop' /\ r <= y')
    OBVIOUS
  <2> QED
    BY <1>2, <2>1 DEF ArrayRows
<1> QED
  BY <1>1, <1>2

\* The library works on a picture.
LEMMA ImageInCalls ==
  ASSUME ImageInv, PictureInv', Decoding, LibraryStep(TRUE), UNCHANGED imageVars
  PROVE  ImageInv'
<1>1. UNCHANGED <<pictures, at, picture, rgb, IMG_HEIGHT, jpegbuffer, y, bitmap, intact>>
  BY DEF imageVars
<1>2. PictureInv /\ Prepared /\ Turns /\ InStep /\ ArrayRows /\ BitmapIsOnePicture /\ whole /\ call # NoCall
  BY StepsOfCalls DEF ImageInv
<1>0. error = NoError
  BY <1>2 DEF Turns
<1>3. PICK h \in 0..MAX_Y : OneHeight(h)
  BY DEF ImageInv
<1>4. ASSUME Prepared', SourceKept, Turns', InStep', ArrayRows' PROVE ImageInv'
  <2>1. OneHeight(h)'
    BY <1>1, <1>3, <1>4, HeightKept
  <2>2. BitmapIsOnePicture'
    BY <1>1, <1>2 DEF BitmapIsOnePicture
  <2>3. pictures' \in Seq(Seq(Units)) /\ whole'
    BY <1>1, <1>4 DEF ImageInv, SourceKept
  <2> QED
    BY <1>3, <1>4, <2>1, <2>2, <2>3 DEF ImageInv
<1>5. CASE at = "start"
  <2>1. call = "jpeg_read_header" /\ global_state \in {"INHEADER", "READY"} /\ output_scanline = 0
    BY <1>2, <1>5 DEF Turns, InStep
  <2>2. /\ Prepared' /\ SourceKept
        /\ call' \in {NoCall, "jpeg_read_header"} /\ global_state' \in {"INHEADER", "READY"} /\ output_scanline' = 0
        /\ error' # NoError => call' = NoCall
    <3>1. CASE ReadHeader
      BY <1>0, <1>2, <2>1, <3>1, HeaderStep
    <3>2. CASE ErrorExit("NO_IMAGE")
      BY <1>2, <2>1, <3>2, PreparedByError, PictureAfterError DEF ErrorExit, Return, outputVars
    <3> QED
      BY <2>1, <3>1, <3>2, StepsOfCalls
  <2>3. Turns' /\ InStep' /\ ~ InLoop /\ ~ InLoop'
    BY <1>1, <1>2, <1>5, <2>2 DEF Turns, InStep, InLoop
  <2> QED
    BY <1>1, <1>2, <1>4, <2>2, <2>3, RowsKept
<1>6. CASE at = "lines"
  <2>1. y = -1 /\ call \in {"jpeg_start_decompress", "absorbed", "output_pass_setup"} /\ output_scanline = 0
    BY <1>2, <1>6 DEF Turns, InStep
  <2>2. Started
    BY <2>1 DEF PictureInv, ImageInv, PassInv, PassOrder, Started
  <2>3. /\ Prepared' /\ SourceKept
        /\ call' \in {NoCall, "jpeg_start_decompress", "absorbed", "output_pass_setup"} /\ Started'
        /\ output_scanline' = 0 /\ (error' # NoError => call' = NoCall)
    BY <1>0, <1>2, <2>1, <2>2, StartStep
  <2>4. Turns' /\ InStep' /\ ~ InLoop /\ ~ InLoop'
    BY <1>1, <1>2, <1>6, <2>1, <2>3 DEF Turns, InStep, InLoop
  <2> QED
    BY <1>1, <1>2, <1>4, <2>3, <2>4, RowsKept
<1>7. CASE at = "copy"
  <2>1. call = "jpeg_read_scanlines" /\ max_lines = 1 /\ y >= 0 /\ y \in Int /\ ReadScanlines
    BY <1>2, <1>7, StepsOfCalls DEF Turns
  <2>2. /\ Prepared' /\ SourceKept /\ UNCHANGED global_state /\ error' = NoError /\ global_state = "SCANNING"
        /\ \/ call' = call /\ max_lines' = 1 /\ output_scanline' = output_scanline
           \/ call' = NoCall /\ output_scanline' = output_scanline + 1
           \/ call' = NoCall /\ OutOfData'
        /\ OutOfData => OutOfData'
    BY <1>0, <1>2, <2>1, LineStep
  <2>3. OutOfData \/ output_scanline = y
    BY <1>0, <1>2, <1>7, <2>1 DEF InStep, InLoop, NoCall
  <2>4. Turns' /\ InStep' /\ InLoop'
    <3>1. y' \in Int /\ y' >= 0 /\ at' = "copy" /\ global_state' = "SCANNING"
      BY <1>1, <1>7, <2>1, <2>2
    <3>2. OutOfData' \/ output_scanline' = (IF call' = NoCall THEN y' + 1 ELSE y')
      BY <1>1, <2>1, <2>2, <2>3 DEF NoCall
    <3>3. Turns'
      BY <2>1, <2>2, <3>1 DEF Turns
    <3> QED
      BY <2>2, <3>1, <3>2, <3>3 DEF InStep, InLoop
  <2>5. ArrayRows'
    <3>1. InLoop
      BY <1>7, <2>1 DEF InLoop
    <3>2. rgb # NULL
      BY <1>2, <3>1 DEF ArrayRows
    <3>3. rgb = [r \in 1..IMG_HEIGHT |-> rgb[r]]
      BY <1>2, <3>2 DEF ArrayRows
    <3>4. \A r \in 1..IMG_HEIGHT : r <= y => OutOfData' \/ rgb[r] = Row(picture, r - 1)
      BY <1>2, <2>2, <3>1, <3>2 DEF ArrayRows
    <3>5. \A r \in 1..IMG_HEIGHT : ~ r <= y /\ intact # 0 => rgb[r] = Row(intact, r - 1)
      BY <1>2, <3>1, <3>2 DEF ArrayRows
    <3> QED
      BY <1>1, <2>4, <3>1, <3>2, <3>3, <3>4, <3>5 DEF ArrayRows, Row
  <2> QED
    BY <1>4, <2>2, <2>4, <2>5
<1>8. CASE at = "finish"
  <2>1. call = "jpeg_finish_decompress" /\ FinishDecompress
    BY <1>2, <1>8, StepsOfCalls DEF Turns
  <2>2. /\ Prepared' /\ SourceKept /\ call' \in {NoCall, "jpeg_finish_decompress"}
        /\ error' # NoError => call' = NoCall
    BY <1>0, <1>2, <2>1, EndOfPicture
  <2>3. Turns' /\ InStep' /\ ~ InLoop /\ ~ InLoop'
    BY <1>1, <1>2, <1>8, <2>2 DEF Turns, InStep, InLoop
  <2> QED
    BY <1>1, <1>2, <1>4, <2>2, <2>3, RowsKept
<1> QED
  BY <1>2, <1>5, <1>6, <1>7, <1>8 DEF Decoding, Turns

\* A new picture comes.
LEMMA ImageByNew ==
  ASSUME ImageInv, PictureInv', pixeltobmp
  PROVE  ImageInv'
<1>1. /\ at = "idle" /\ at' = "header" /\ pictures # <<>> /\ pictures' = Tail(pictures)
      /\ UNCHANGED <<rgb, IMG_HEIGHT, y, bitmap, intact, whole>>
      /\ stream' = Head(pictures) /\ saw_SOF' = FALSE /\ output_scanline' = 0
      /\ global_state' = "START" /\ call' = NoCall /\ error' = NoError
      /\ setting' = default_decompress_parms /\ ~ is_dummy_pass' /\ post'.mode = "JBUF_PASS_THRU"
  BY DEF pixeltobmp, Goto, CreateDecompress, jpeg_memory_src, start_pass_dpost
<1>2. whole /\ Turns /\ ArrayRows /\ pictures \in Seq(Seq(Units))
  BY DEF ImageInv
<1>3. PICK h \in 0..MAX_Y : OneHeight(h)
  BY DEF ImageInv
<1>4. pictures' \in Seq(Seq(Units)) /\ whole'
  BY <1>1, <1>2
<1>5. Prepared'
  BY <1>1 DEF Prepared, Plain, NoCall
<1>6. Turns' /\ InStep' /\ ~ InLoop /\ ~ InLoop'
  BY <1>1, <1>2 DEF Turns, InStep, InLoop
<1>7. OneHeight(h)'
  <2>1. SofHeights(stream') \subseteq {h}
    <3>1. stream' = pictures[1] /\ 1 \in DOMAIN pictures
      BY <1>1, <1>2
    <3> QED
      BY <1>3, <3>1 DEF OneHeight
  <2>2. \A i \in DOMAIN pictures' : SofHeights(pictures'[i]) \subseteq {h}
    <3>1. \A i \in DOMAIN pictures' : i + 1 \in DOMAIN pictures /\ pictures'[i] = pictures[i + 1]
      BY <1>1, <1>2
    <3> QED
      BY <1>3, <3>1 DEF OneHeight
  <2> QED
    BY <1>1, <1>3, <2>1, <2>2 DEF OneHeight, SofHeights
<1>8. ArrayRows'
  BY <1>1, <1>2, <1>6, RowsKept
<1>9. BitmapIsOnePicture'
  BY <1>1 DEF BitmapIsOnePicture
<1> QED
  BY <1>3, <1>4, <1>5, <1>6, <1>7, <1>8, <1>9 DEF ImageInv

\* A step of processimage that leaves the array alone, outside of its loop or at its start.
LEMMA ImageBeforeLines ==
  ASSUME ImageInv, PictureInv', Prepared', SourceKept, Turns', InStep', at' # "idle",
         UNCHANGED <<pictures, rgb, IMG_HEIGHT, intact>>,
         ~ InLoop \/ y = 0, ~ InLoop' \/ (InLoop /\ y' = 0)
  PROVE  ImageInv'
<1>1. PICK h \in 0..MAX_Y : OneHeight(h)
  BY DEF ImageInv
<1>2. OneHeight(h)'
  BY <1>1, HeightKept
<1>3. ArrayRows'
  BY RowsKept DEF ImageInv
<1>4. BitmapIsOnePicture'
  BY DEF BitmapIsOnePicture
<1>5. pictures' \in Seq(Seq(Units)) /\ whole'
  BY DEF ImageInv, SourceKept
<1> QED
  BY <1>1, <1>2, <1>3, <1>4, <1>5 DEF ImageInv

\* Its header is read,
LEMMA ImageByHeader ==
  ASSUME ImageInv, PictureInv', ReadPictureHeader
  PROVE  ImageInv'
<1>1. /\ at = "header" /\ at' = "start" /\ jpeg_read_header
      /\ UNCHANGED <<pictures, picture, rgb, IMG_HEIGHT, y, intact>>
  BY DEF ReadPictureHeader, Goto
<1>2. Turns /\ InStep /\ Prepared /\ PictureInv
  BY DEF ImageInv
<1>3. global_state = "START" /\ output_scanline = 0
  BY <1>1, <1>2 DEF Turns, InStep
<1>4. StartHeader("jpeg_read_header")
  BY <1>1, <1>3 DEF jpeg_read_header, ResumeHeader
<1>5. /\ UNCHANGED <<outputVars, is_dummy_pass, source, error>> /\ saw_SOF' = FALSE
      /\ global_state' = "INHEADER" /\ call' = "jpeg_read_header" /\ error = NoError
  BY <1>4 DEF StartHeader, Enter, Idle, reset_input_controller, master
<1>6. Prepared' /\ SourceKept
  BY <1>2, <1>5 DEF Prepared, Plain, SourceKept, source, outputVars
<1>7. Turns' /\ InStep' /\ ~ InLoop /\ ~ InLoop'
  BY <1>1, <1>2, <1>3, <1>5 DEF Turns, InStep, InLoop, outputVars
<1> QED
  BY <1>1, <1>6, <1>7, ImageBeforeLines

\* its parameters are set,
LEMMA ImageByParameters ==
  ASSUME ImageInv, PictureInv', SetParameters
  PROVE  ImageInv'
<1>1. /\ at = "start" /\ at' = "alloc" /\ call = NoCall /\ error = NoError
      /\ setting' = [setting EXCEPT !.jpeg_color_space = "YCbCr"]
      /\ UNCHANGED <<pictures, picture, rgb, IMG_HEIGHT, y, intact>>
      /\ UNCHANGED <<source, seen, progress, setup, coef, error, post, output_scanline, decompress_data, control, master>>
  BY DEF SetParameters, Goto, Idle
<1>2. Turns /\ InStep /\ Prepared
  BY DEF ImageInv
<1>3. setting' = [default_decompress_parms EXCEPT !.jpeg_color_space = "YCbCr"]
  BY <1>1, <1>2 DEF Prepared, Plain, default_decompress_parms
<1>4. Prepared' /\ SourceKept
  BY <1>1, <1>2, <1>3 DEF Prepared, Plain, SourceKept, source, seen, progress, setup, control, master
<1>5. Turns' /\ InStep' /\ ~ InLoop /\ ~ InLoop'
  BY <1>1, <1>2 DEF Turns, InStep, InLoop, control
<1> QED
  BY <1>1, <1>4, <1>5, ImageBeforeLines

\* and it is started, or the library refuses.
LEMMA ImageByStart ==
  ASSUME ImageInv, PictureInv', StartPicture
  PROVE  ImageInv'
<1>1. /\ at = "alloc" /\ at' = "lines" /\ y' = -1
      /\ jpeg_start_decompress \/ BadState("jpeg_start_decompress")
      /\ UNCHANGED <<pictures, picture, rgb, IMG_HEIGHT, intact>>
  BY DEF StartPicture, Goto
<1>2. Turns /\ InStep /\ Prepared /\ PictureInv
  BY DEF ImageInv
<1>3. global_state \in {"INHEADER", "READY"} /\ output_scanline = 0 /\ ~ setting.buffered_image
  BY <1>1, <1>2 DEF Turns, InStep, Prepared, Plain, default_decompress_parms
<1>4. /\ Prepared' /\ SourceKept /\ output_scanline' = 0
      /\ call' \in {NoCall, "jpeg_start_decompress"}
      /\ IF error' = NoError THEN Started' ELSE call' = NoCall
  <2>1. CASE \E e : e # NoError /\ ErrorExit(e)
    <3>1. PICK e : e # NoError /\ ErrorExit(e)
      BY <2>1
    <3>2. Prepared' /\ SourceKept /\ UNCHANGED outputVars
      BY <1>2, <3>1, PreparedByError, PictureAfterError
    <3> QED
      BY <1>3, <3>1, <3>2 DEF ErrorExit, Return, outputVars
  <2>2. CASE ~ \E e : e # NoError /\ ErrorExit(e)
    <3>1. ~ BadState("jpeg_start_decompress")
      BY <2>2 DEF BadState, NoError
    <3>2. /\ master_selection /\ global_state' = "PRELOAD" /\ call' = "jpeg_start_decompress"
      <4>1. MasterError # NoError => ~ ErrorExit(MasterError)
        BY <2>2
      <4>2. jpeg_start_decompress
        BY <1>1, <3>1
      <4>3. global_state = "READY" /\ ~ (MasterError # NoError)
        BY <1>3, <4>1, <4>2 DEF jpeg_start_decompress
      <4> QED
        BY <1>3, <4>2, <4>3 DEF jpeg_start_decompress, Enter
    <3>3. /\ ~ is_dummy_pass' /\ UNCHANGED <<source, seen, has_multiple_scans, setting, post, output_scanline>>
          /\ has_multiple_scans \/ coef' = <<>>
          /\ error' = NoError
      BY <1>1, <1>3, <3>1, <3>2 DEF master_selection, use_c_buffer, jpeg_start_decompress, Idle
    <3> QED
      BY <1>2, <1>3, <3>2, <3>3 DEF Prepared, Plain, SourceKept, source, seen, Started
  <2> QED
    BY <2>1, <2>2
<1>5. Turns' /\ InStep' /\ ~ InLoop /\ ~ InLoop'
  BY <1>1, <1>4 DEF Turns, InStep, InLoop
<1> QED
  BY <1>1, <1>4, <1>5, ImageBeforeLines

\* The error handler leaves the array to the next picture.
LEMMA ImageByErrorExit ==
  ASSUME ImageInv, PictureInv', my_error_exit
  PROVE  ImageInv'
<1>1. /\ ErrorExit(NoError) /\ error # NoError /\ at' = "bitmap"
      /\ UNCHANGED <<pictures, picture, rgb, IMG_HEIGHT, y, intact>>
  BY DEF my_error_exit, ErrorExit, Goto
<1>2. Turns /\ InStep /\ Prepared /\ PictureInv
  BY DEF ImageInv
<1>3. Prepared' /\ SourceKept /\ call' = NoCall /\ error' = NoError
  BY <1>1, <1>2, PreparedByError, PictureAfterError DEF ErrorExit, Return
<1>4. Turns' /\ InStep' /\ (~ InLoop \/ y = 0) /\ ~ InLoop'
  BY <1>1, <1>2, <1>3 DEF Turns, InStep, InLoop
<1> QED
  BY <1>1, <1>3, <1>4, ImageBeforeLines

\* The array is made for the height that all pictures have.
LEMMA ImageByArray ==
  ASSUME ImageInv, PictureInv', AllocateArray
  PROVE  ImageInv'
<1>1. /\ at = "lines" /\ Idle /\ y = -1 /\ y' = 0
      /\ IF rgb = NULL THEN /\ IMG_HEIGHT' = frame.height
                            /\ rgb' = [r \in 1..frame.height |-> Garbage]
                       ELSE UNCHANGED <<IMG_HEIGHT, rgb>>
      /\ UNCHANGED <<decompressVars, pictures, at, picture, bitmap, intact>>
  BY DEF AllocateArray
<1>2. /\ whole /\ pictures \in Seq(Seq(Units)) /\ PictureInv /\ Prepared /\ Turns /\ InStep /\ ArrayRows
      /\ call = NoCall /\ error = NoError
  BY <1>1 DEF ImageInv, Idle
<1>3. PICK h \in 0..MAX_Y : OneHeight(h)
  BY DEF ImageInv
<1>4. UNCHANGED <<stream, whole, saw_SOF, frame, eoi_reached, has_multiple_scans, coef, error, setting, decompress_data,
                  post, output_scanline, global_state, call, max_lines, is_dummy_pass>>
  BY <1>1 DEF decompressVars, inputVars, outputVars, control, master, source, seen, progress, setup
<1>5. Started /\ output_scanline = 0
  BY <1>1, <1>2 DEF Turns, InStep
<1>6. frame.height = h /\ h \in Nat \ {0} /\ saw_SOF
  <2>1. inheaders = 0
    BY <1>2, <1>5 DEF PictureInv, LineInv, Modes
  <2>2. saw_SOF /\ frame.height \in Nat \ {0}
    BY <1>2, <2>1 DEF PictureInv, InputInv, Headers
  <2> QED
    BY <1>3, <2>2 DEF OneHeight
<1>7. /\ IMG_HEIGHT' = h /\ rgb' # NULL /\ rgb' = [r \in 1..h |-> rgb'[r]]
      /\ \A r \in 1..h : intact # 0 => rgb'[r] = Row(intact, r - 1)
  <2>1. CASE rgb = NULL
    <3>1. IMG_HEIGHT' = h /\ rgb' = [r \in 1..h |-> Garbage] /\ intact = 0
      BY <1>1, <1>2, <1>6, <2>1 DEF ArrayRows
    <3>2. 1 \in DOMAIN rgb' /\ 1 \notin DOMAIN NULL
      BY <1>6, <3>1 DEF NULL
    <3> QED
      BY <3>1, <3>2
  <2>2. CASE rgb # NULL
    <3>1. IMG_HEIGHT' = h /\ rgb' = rgb /\ IMG_HEIGHT = h
      BY <1>1, <1>3, <2>2 DEF OneHeight
    <3>2. ~ InLoop
      BY <1>1 DEF InLoop
    <3> QED
      BY <1>2, <2>2, <3>1, <3>2 DEF ArrayRows
  <2> QED
    BY <2>1, <2>2
<1>8. Turns' /\ InStep' /\ InLoop'
  BY <1>1, <1>2, <1>4, <1>5 DEF Turns, InStep, InLoop, Started
<1>9. ArrayRows'
  <2>1. \A r \in 1..h : ~ r <= y'
    BY <1>1, <1>6
  <2> QED
    BY <1>1, <1>7, <2>1 DEF ArrayRows, Row
<1>10. OneHeight(h)'
  BY <1>1, <1>3, <1>4, <1>7 DEF OneHeight, SofHeights
<1>11. Prepared'
  BY <1>2, <1>4 DEF Prepared, Plain
<1>12. BitmapIsOnePicture'
  BY <1>1 DEF BitmapIsOnePicture
<1> QED
  BY <1>1, <1>2, <1>3, <1>4, <1>8, <1>9, <1>10, <1>11, <1>12 DEF ImageInv

\* A line is asked for.
LEMMA ImageByReading ==
  ASSUME ImageInv, PictureInv', ReadLine
  PROVE  ImageInv'
<1>1. /\ at = "lines" /\ y >= 0 /\ Idle /\ at' = "copy"
      /\ jpeg_read_scanlines(1) \/ BadState("jpeg_read_scanlines")
      /\ UNCHANGED <<pictures, picture, rgb, IMG_HEIGHT, y, bitmap, intact>>
  BY DEF ReadLine, Goto
<1>2. /\ whole /\ pictures \in Seq(Seq(Units)) /\ PictureInv /\ Prepared /\ Turns /\ InStep /\ ArrayRows
      /\ call = NoCall /\ error = NoError /\ y \in Int /\ InLoop
  BY <1>1 DEF ImageInv, Idle, Turns, InLoop
<1>3. CASE jpeg_read_scanlines(1)
  <2>1. /\ global_state = "SCANNING" /\ max_lines' = 1 /\ call' = "jpeg_read_scanlines"
        /\ UNCHANGED <<inputVars, outputVars, global_state, master>>
    BY <1>3 DEF jpeg_read_scanlines, Enter
  <2>2. UNCHANGED <<stream, whole, saw_SOF, frame, eoi_reached, has_multiple_scans, coef, error, setting,
                    decompress_data, post, output_scanline, is_dummy_pass, unread_marker, pos, main>>
    BY <2>1 DEF inputVars, outputVars, master, source, seen, progress, setup, reader
  <2>3. Prepared'
    BY <1>2, <2>1, <2>2 DEF Prepared, Plain, NoCall
  <2>4. SourceKept
    BY <2>2 DEF SourceKept
  <2>5. OutOfData' <=> OutOfData
    BY <2>1, <2>2 DEF OutOfData, HasUnit
  <2>6. Turns' /\ InLoop'
    BY <1>1, <1>2, <2>1, <2>2 DEF Turns, InLoop
  <2>7. InStep'
    <3>1. OutOfData \/ output_scanline = y
      BY <1>1, <1>2 DEF InStep
    <3> QED
      BY <1>1, <1>2, <2>1, <2>2, <2>5, <3>1 DEF InStep, InLoop, NoCall
  <2>8. ArrayRows'
    <3>1. rgb # NULL
      BY <1>2 DEF ArrayRows
    <3>2. rgb = [r \in 1..IMG_HEIGHT |-> rgb[r]]
      BY <1>2, <3>1 DEF ArrayRows
    <3>3. \A r \in 1..IMG_HEIGHT : r <= y => OutOfData \/ rgb[r] = Row(picture, r - 1)
      BY <1>2, <3>1 DEF ArrayRows
    <3>4. \A r \in 1..IMG_HEIGHT : ~ r <= y /\ intact # 0 => rgb[r] = Row(intact, r - 1)
      BY <1>2, <3>1 DEF ArrayRows
    <3> QED
      BY <1>1, <2>5, <2>6, <3>1, <3>2, <3>3, <3>4 DEF ArrayRows, Row
  <2>9. PICK h \in 0..MAX_Y : OneHeight(h)
    BY DEF ImageInv
  <2>10. OneHeight(h)'
    BY <1>1, <2>4, <2>9, HeightKept
  <2>11. BitmapIsOnePicture'
    BY <1>1 DEF BitmapIsOnePicture
  <2> QED
    BY <1>1, <1>2, <2>2, <2>3, <2>6, <2>7, <2>8, <2>9, <2>10, <2>11 DEF ImageInv
<1>4. CASE BadState("jpeg_read_scanlines")
  <2>1. global_state # "SCANNING" /\ ErrorExit("BAD_STATE")
    BY <1>4 DEF BadState, LegalStates
  <2>2. y = 0
    BY <1>1, <1>2, <2>1 DEF InStep
  <2>3. Prepared' /\ SourceKept /\ error' = "BAD_STATE" /\ call' = NoCall
    BY <1>2, <2>1, PreparedByError, PictureAfterError DEF ErrorExit, Return
  <2>4. Turns' /\ InStep' /\ InLoop'
    BY <1>1, <1>2, <2>2, <2>3 DEF Turns, InStep, InLoop, NoError
  <2> QED
    BY <1>1, <1>2, <2>2, <2>3, <2>4, ImageBeforeLines
<1> QED
  BY <1>1, <1>3, <1>4

\* While the lines are read, those given out are counted, and are the first ones of the picture.
LEMMA LinesGiven ==
  ASSUME PictureInv, Prepared, global_state = "SCANNING"
  PROVE  /\ output_scanline \in Nat /\ frame.height \in Nat \ {0} /\ output_scanline <= frame.height /\ saw_SOF
         /\ InOrder
<1>1. Sized /\ saw_SOF /\ Buffers /\ setting \in Parameters /\ ~ setting.raw_data_out /\ post.mode = "JBUF_PASS_THRU"
  BY DEF PictureInv, LineInv, Modes, Started, InputInv, Headers, Sized, PassInv, Prepared, Plain, default_decompress_parms
<1>2. output_height = frame.height
  BY <1>1, PlainHeight DEF Prepared
<1>3. LinesCounted /\ InOrder
  BY <1>1 DEF Upsampling, PictureInv, LineInv
<1>4. output_scanline \in Nat
  BY <1>1, <1>3, LinesAreCounted DEF PictureInv, Phases
<1> QED
  BY <1>1, <1>2, <1>3, <1>4 DEF LinesCounted, Sized

\* A line goes to its row.
LEMMA ImageByLine ==
  ASSUME ImageInv, PictureInv', CopyLine, at' # "crashed"
  PROVE  ImageInv'
<1>1. /\ at = "copy" /\ Idle /\ at' = "lines"
      /\ jpegbuffer' = IF output_scanline > 0 THEN Row(picture, lines[output_scanline]) ELSE Garbage
      /\ rgb' = [r \in DOMAIN rgb |-> IF r = y + 1 THEN jpegbuffer' ELSE rgb[r]]
      /\ y' = Smallest({y + 1, MAX_Y})
      /\ UNCHANGED <<decompressVars, pictures, picture, IMG_HEIGHT, bitmap, intact>>
  BY DEF CopyLine, Goto
<1>2. /\ whole /\ pictures \in Seq(Seq(Units)) /\ PictureInv /\ Prepared /\ Turns /\ InStep /\ ArrayRows
      /\ call = NoCall /\ error = NoError /\ y \in Int /\ y >= 0 /\ InLoop
  BY <1>1 DEF ImageInv, Idle, Turns, InLoop
<1>3. PICK h \in 0..MAX_Y : OneHeight(h)
  BY DEF ImageInv
<1>4. UNCHANGED <<stream, whole, saw_SOF, frame, eoi_reached, has_multiple_scans, coef, error, setting, decompress_data,
                  post, output_scanline, global_state, call, max_lines, is_dummy_pass, unread_marker, pos, main>>
  BY <1>1 DEF decompressVars, inputVars, outputVars, control, master, source, seen, progress, setup, reader
<1>5. global_state = "SCANNING" /\ (OutOfData \/ output_scanline = y + 1)
  BY <1>1, <1>2 DEF InStep
<1>6. /\ output_scanline \in Nat /\ frame.height \in Nat \ {0} /\ output_scanline <= frame.height
      /\ frame.height = h /\ InOrder
  BY <1>2, <1>3, <1>5, LinesGiven DEF OneHeight
<1>7. rgb # NULL /\ IMG_HEIGHT = h /\ rgb = [r \in 1..h |-> rgb[r]]
  BY <1>2, <1>3 DEF ArrayRows, OneHeight
<1>8. h \in Nat /\ MAX_Y \in Nat /\ h <= MAX_Y
  BY <1>3, BoundAssumption
<1>9. y' = IF y + 1 <= MAX_Y THEN y + 1 ELSE MAX_Y
  BY <1>1, <1>2, <1>8, SmallestOfTwo
<1>10. /\ \A r \in 1..h : rgb'[r] = IF r = y + 1 THEN jpegbuffer' ELSE rgb[r]
       /\ rgb' = [r \in 1..h |-> rgb'[r]]
  <2>1. DOMAIN rgb = 1..h
    BY <1>7
  <2> QED
    BY <1>1, <2>1
<1>11. rgb' # NULL
  <2>1. 1 \in DOMAIN rgb' /\ 1 \notin DOMAIN NULL
    BY <1>6, <1>10 DEF NULL
  <2> QED
    BY <2>1
<1>12. OutOfData' <=> OutOfData
  BY <1>4 DEF OutOfData, HasUnit
<1>13. OutOfData \/ (output_scanline = y' /\ y' = y + 1)
  BY <1>2, <1>5, <1>6, <1>8, <1>9
<1>14. Turns' /\ InStep' /\ InLoop'
  <2>1. y' \in Int /\ y' >= 0
    BY <1>2, <1>8, <1>9
  <2>2. Turns'
    BY <1>1, <1>2, <1>4, <1>5, <2>1 DEF Turns, Started
  <2> QED
    BY <1>1, <1>2, <1>4, <1>5, <1>12, <1>13, <2>1, <2>2 DEF InStep, InLoop
<1>15. \A r \in 1..h : r <= y' => OutOfData \/ rgb'[r] = Row(picture, r - 1)
  <2> SUFFICES ASSUME NEW r \in 1..h, r <= y', ~ OutOfData PROVE rgb'[r] = Row(picture, r - 1)
    OBVIOUS
  <2>1. output_scanline = y + 1 /\ y' = y + 1 /\ output_scanline > 0
    BY <1>2, <1>13
  <2>2. CASE r = y + 1
    <3>1. lines[output_scanline] = output_scanline - 1
      BY <1>6, <2>1 DEF InOrder, Ordered
    <3> QED
      BY <1>1, <1>10, <2>1, <2>2, <3>1
  <2>3. CASE r # y + 1
    <3>1. r <= y
      BY <1>2, <2>1, <2>3
    <3> QED
      BY <1>2, <1>7, <1>10, <2>3, <3>1 DEF ArrayRows
  <2> QED
    BY <2>2, <2>3
<1>16. \A r \in 1..h : ~ r <= y' /\ intact # 0 => rgb'[r] = Row(intact, r - 1)
  <2> SUFFICES ASSUME NEW r \in 1..h, ~ r <= y', intact # 0 PROVE rgb'[r] = Row(intact, r - 1)
    OBVIOUS
  <2>1. ~ r <= y /\ r # y + 1
    BY <1>2, <1>8, <1>9
  <2> QED
    BY <1>2, <1>7, <1>10, <2>1 DEF ArrayRows
<1>17. ArrayRows'
  BY <1>1, <1>7, <1>10, <1>11, <1>12, <1>14, <1>15, <1>16 DEF ArrayRows, Row
<1>18. OneHeight(h)'
  BY <1>1, <1>3, <1>4, <1>7 DEF OneHeight, SofHeights
<1>19. Prepared'
  BY <1>2, <1>4 DEF Prepared, Plain
<1>20. BitmapIsOnePicture'
  BY <1>1 DEF BitmapIsOnePicture
<1> QED
  BY <1>1, <1>2, <1>3, <1>4, <1>14, <1>17, <1>18, <1>19, <1>20 DEF ImageInv

\* The picture is whole in the array.
LEMMA ImageByFinish ==
  ASSUME ImageInv, PictureInv', FinishPicture
  PROVE  ImageInv'
<1>1. /\ at = "lines" /\ y >= 0 /\ Idle /\ at' = "finish" /\ output_scanline >= frame.height
      /\ jpeg_finish_decompress /\ intact' = picture
      /\ UNCHANGED <<pictures, picture, rgb, IMG_HEIGHT, y, bitmap>>
  BY DEF FinishPicture, Goto
<1>2. /\ whole /\ pictures \in Seq(Seq(Units)) /\ PictureInv /\ Prepared /\ Turns /\ InStep /\ ArrayRows
      /\ call = NoCall /\ error = NoError /\ y \in Int /\ InLoop /\ Started
  BY <1>1 DEF ImageInv, Idle, Turns, InLoop
<1>3. PICK h \in 0..MAX_Y : OneHeight(h)
  BY DEF ImageInv
<1>4. rgb # NULL /\ IMG_HEIGHT = h /\ rgb = [r \in 1..h |-> rgb[r]]
  BY <1>2, <1>3 DEF ArrayRows, OneHeight
<1>5. frame.height \in Nat \ {0} /\ frame.height = h
  <2>1. inheaders = 0
    BY <1>2 DEF PictureInv, LineInv, Modes
  <2>2. saw_SOF /\ frame.height \in Nat \ {0}
    BY <1>2, <2>1 DEF PictureInv, InputInv, Headers
  <2> QED
    BY <1>3, <2>2 DEF OneHeight
<1>6. output_scanline = y /\ ~ OutOfData
  <2>1. OutOfData \/ output_scanline = y
    BY <1>1, <1>2 DEF InStep
  <2>2. ASSUME OutOfData PROVE FALSE
    <3>1. output_scanline \in Nat /\ output_scanline < frame.height
      BY <1>2, <2>2, LinesGiven DEF OutOfData
    <3> QED
      BY <1>1, <1>5, <3>1
  <2> QED
    BY <2>1, <2>2
<1>7. \A r \in 1..h : rgb[r] = Row(picture, r - 1)
  <2>1. \A r \in 1..h : r <= y
    BY <1>1, <1>2, <1>5, <1>6
  <2> QED
    BY <1>2, <1>4, <1>6, <2>1 DEF ArrayRows
<1>8. /\ Prepared' /\ SourceKept /\ call' \in {NoCall, "jpeg_finish_decompress"}
      /\ error' # NoError => call' = NoCall
  <2>1. CASE ErrorExit("TOO_LITTLE_DATA")
    BY <1>2, <2>1, PreparedByError, PictureAfterError DEF ErrorExit, Return
  <2>2. CASE ~ ErrorExit("TOO_LITTLE_DATA")
    <3>1. UNCHANGED <<inputVars, outputVars, master>> /\ global_state' = "STOPPING" /\ call' = "jpeg_finish_decompress"
      BY <1>1, <2>2 DEF jpeg_finish_decompress, Enter
    <3> QED
      BY <1>2, <3>1 DEF Prepared, Plain, SourceKept, inputVars, outputVars, master, source, seen, progress, setup, NoCall
  <2> QED
    BY <2>1, <2>2
<1>9. Turns' /\ InStep' /\ ~ InLoop'
  BY <1>1, <1>2, <1>8 DEF Turns, InStep, InLoop
<1>10. ArrayRows'
  BY <1>1, <1>4, <1>7, <1>9 DEF ArrayRows, Row
<1>11. OneHeight(h)'
  BY <1>1, <1>3, <1>8, HeightKept
<1>12. BitmapIsOnePicture'
  BY <1>1 DEF BitmapIsOnePicture
<1> QED
  BY <1>1, <1>2, <1>3, <1>8, <1>9, <1>10, <1>11, <1>12 DEF ImageInv, SourceKept

\* The array is freed, or its rows go to the bitmap: those of the last whole picture.
LEMMA ImageByArrayUse ==
  ASSUME ImageInv, PictureInv', CopyToBitmap \/ freeCameraMemory, at' # "crashed"
  PROVE  ImageInv'
<1>1. /\ UNCHANGED <<decompressVars, pictures, picture, IMG_HEIGHT, y>> /\ at' = "idle"
      /\ at \in {"idle", "bitmap"} \/ (at = "finish" /\ Idle)
      /\ \/ /\ UNCHANGED <<rgb, intact>> /\ bitmap' = IF IMG_HEIGHT = BITMAP_HEIGHT THEN rgb ELSE bitmap
         \/ rgb' = NULL /\ intact' = 0
  BY DEF CopyToBitmap, freeCameraMemory, Goto
<1>2. UNCHANGED <<stream, whole, saw_SOF, frame, eoi_reached, has_multiple_scans, coef, error, setting, decompress_data,
                  post, output_scanline, global_state, call, max_lines, is_dummy_pass>>
  BY <1>1 DEF decompressVars, inputVars, outputVars, control, master, source, seen, progress, setup
<1>3. /\ whole /\ pictures \in Seq(Seq(Units)) /\ PictureInv /\ Prepared /\ Turns /\ InStep /\ ArrayRows
      /\ call = NoCall
  BY <1>1 DEF ImageInv, Turns, Idle
<1>4. PICK h \in 0..MAX_Y : OneHeight(h)
  BY DEF ImageInv
<1>5. Turns' /\ InStep' /\ ~ InLoop /\ ~ InLoop'
  BY <1>1, <1>2, <1>3 DEF Turns, InStep, InLoop
<1>6. ArrayRows'
  BY <1>1, <1>3, <1>5 DEF ArrayRows, Row, NULL
<1>7. BitmapIsOnePicture'
  <2> SUFFICES ASSUME intact' # 0, IMG_HEIGHT' = BITMAP_HEIGHT
               PROVE  bitmap' = [r \in 1..IMG_HEIGHT |-> Row(intact, r - 1)] /\ UNCHANGED <<IMG_HEIGHT, intact>>
    BY DEF BitmapIsOnePicture, Row
  <2>1. intact' = intact /\ IMG_HEIGHT' = IMG_HEIGHT /\ bitmap' = rgb
    BY <1>1
  <2>2. rgb = [r \in 1..IMG_HEIGHT |-> rgb[r]] /\ \A r \in 1..IMG_HEIGHT : rgb[r] = Row(intact, r - 1)
    BY <1>3, <1>5, <2>1 DEF ArrayRows
  <2> QED
    BY <2>1, <2>2
<1>8. OneHeight(h)'
  BY <1>1, <1>2, <1>4 DEF OneHeight, SofHeights
<1>9. Prepared'
  BY <1>2, <1>3 DEF Prepared, Plain
<1> QED
  BY <1>1, <1>2, <1>3, <1>4, <1>5, <1>6, <1>7, <1>8, <1>9 DEF ImageInv

\* Nothing happens to it elsewhere in the view.
LEMMA ImageByView ==
  ASSUME ImageInv, UNCHANGED <<decompressVars, imageVars>>
  PROVE  ImageInv'
<1>1. UNCHANGED <<pictures, at, picture, rgb, IMG_HEIGHT, y, bitmap, intact>>
  BY DEF imageVars
<1>2. UNCHANGED <<stream, whole, saw_SOF, frame, eoi_reached, has_multiple_scans, coef, error, setting, decompress_data,
                  post, output_scanline, global_state, call, max_lines, is_dummy_pass, unread_marker, pos, main>>
  BY DEF decompressVars, inputVars, outputVars, control, master, source, seen, progress, setup, reader
<1>3. PictureInv'
  BY PictureStays DEF ImageInv
<1>4. OutOfData' <=> OutOfData
  BY <1>2 DEF OutOfData, HasUnit
<1>5. Turns' /\ InStep' /\ (InLoop' <=> InLoop)
  BY <1>1, <1>2, <1>4 DEF ImageInv, Turns, InStep, InLoop, Started
<1>6. ArrayRows'
  BY <1>1, <1>4, <1>5 DEF ImageInv, ArrayRows, Row, NULL
<1>7. PICK h \in 0..MAX_Y : OneHeight(h)
  BY DEF ImageInv
<1>8. OneHeight(h)'
  BY <1>1, <1>2, <1>7 DEF OneHeight, SofHeights
<1>9. Prepared'
  BY <1>2 DEF ImageInv, Prepared, Plain
<1>10. BitmapIsOnePicture'
  BY <1>1 DEF ImageInv, BitmapIsOnePicture, Row
<1> QED
  BY <1>1, <1>2, <1>3, <1>5, <1>6, <1>7, <1>8, <1>9, <1>10 DEF ImageInv

\* The view begins without an array and without a picture.
LEMMA InitImage == NativeInit => ImageInv
<1> SUFFICES ASSUME NativeInit PROVE ImageInv
  OBVIOUS
<1>1. PICK feed \in Feeds : ImageInit(feed)
  BY DEF NativeInit
<1>2. DecompressInit /\ stream = <<>> /\ whole = TRUE /\ at = "idle"
  BY DEF NativeInit
<1>3. PictureInv
  <2>1. stream \in Seq(Units)
    BY <1>2
  <2> QED
    BY <1>2, <2>1, InitialPicture DEF NewObject
<1>4. /\ pictures = feed /\ rgb = NULL /\ y = -1 /\ intact = 0
      /\ global_state = "START" /\ call = NoCall /\ error = NoError /\ saw_SOF = FALSE
      /\ setting = default_decompress_parms /\ ~ is_dummy_pass /\ post.mode = "JBUF_PASS_THRU"
  BY <1>1, <1>2 DEF ImageInit, DecompressInit, InputInit, OutputInit
<1>5. /\ feed \in Seq(Seq(Units))
      /\ \E h \in 0..MAX_Y : \A i \in DOMAIN feed : SofHeights(feed[i]) \subseteq {h}
  BY <1>1, FeedsAssumption
<1>6. \E h \in 0..MAX_Y : OneHeight(h)
  <2>1. SofHeights(stream) = {}
    BY <1>2 DEF SofHeights
  <2> QED
    BY <1>4, <1>5, <2>1 DEF OneHeight
<1>7. Turns /\ InStep /\ ~ InLoop
  BY <1>2, <1>4 DEF Turns, InStep, InLoop
<1>8. Prepared /\ ArrayRows /\ BitmapIsOnePicture
  BY <1>4, <1>7 DEF Prepared, Plain, ArrayRows, BitmapIsOnePicture, NoCall
<1> QED
  BY <1>2, <1>3, <1>4, <1>5, <1>6, <1>7, <1>8 DEF ImageInv

\* What is known of the picture while the process lives.
LivingInv == at # "crashed" => ImageInv

\* Every step keeps what is known of the picture, unless the process dies of it.
LEMMA NextImage == LivingInv /\ [ViewNext]_nativeVars => LivingInv'
<1> SUFFICES ASSUME LivingInv, [ViewNext]_nativeVars, at' # "crashed" PROVE ImageInv'
  BY DEF LivingInv
<1>0. ImageInv
  BY DEF LivingInv, ViewNext, nativeVars, imageVars
<1>1. ASSUME pixeltobmp \/ ProcessImage \/ freeCameraMemory PROVE ImageInv'
  <2>1. PictureInv'
    BY <1>0, <1>1, PictureByImage DEF ImageInv
  <2> QED
    BY <1>0, <1>1, <2>1, ImageByNew, ImageInCalls, ImageByHeader, ImageByParameters, ImageByStart, ImageByArray,
       ImageByReading, ImageByLine, ImageByFinish, ImageByErrorExit, ImageByArrayUse DEF ProcessImage
<1>2. CASE _setSource \/ _stopPlayback \/ _surfaceCreated \/ _surfaceDestroyed \/ Joined \/ UNCHANGED nativeVars
  <2>1. UNCHANGED <<decompressVars, imageVars>>
    BY <1>2 DEF _setSource, _stopPlayback, _surfaceCreated, _surfaceDestroyed, Joined, StopAndJoin, nativeVars
  <2> QED
    BY <1>0, <2>1, ImageByView
<1>3. CASE _freeCameraMemory
  BY <1>1, <1>3 DEF _freeCameraMemory
<1>4. CASE \E t \in Threads : RunThread(t)
  <2>1. pixeltobmp \/ UNCHANGED <<decompressVars, imageVars>>
    BY <1>4 DEF RunThread, TestRun, TestSurface, readMjpegFrame, UncaughtException, Goto, Decoded, Draw
  <2> QED
    BY <1>0, <1>1, <2>1, ImageByView
<1>5. CASE Decode
  BY <1>1, <1>5 DEF Decode
<1> QED
  BY <1>2, <1>3, <1>4, <1>5 DEF ViewNext

\* What the bitmap shows after a picture: all lines of the last picture that went whole into the array,
\* whatever came before and after it.
THEOREM OnePicture == NativeSpec => []BitmapIsOnePicture
<1>1. NativeInit => LivingInv
  BY InitImage DEF LivingInv
<1>2. LivingInv /\ [ViewNext]_nativeVars => LivingInv'
  BY NextImage
<1>3. LivingInv => BitmapIsOnePicture
  BY DEF LivingInv, ImageInv, BitmapIsOnePicture
<1> QED
  BY <1>1, <1>2, <1>3, PTL DEF NativeSpec
=============================================================================
