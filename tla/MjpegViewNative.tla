---------------------------- MODULE MjpegViewNative ----------------------------
(***************************************************************************)
(* The native renderer, MjpegViewNative.java: a render thread that reads a *)
(* frame, has it decoded by ImageProc.c and draws it, and the main thread  *)
(* that sets sources, stops, and hears of the surface.  Its flags are      *)
(* plain fields: a loop that does nothing but test them need not see them  *)
(* change.                                                                 *)
(***************************************************************************)
EXTENDS ImageProc

CONSTANTS
  MAX_SOURCES,          \* a bound on the sources that are set
  Feeds                 \* the sequences of pictures that may come

\* The pictures of a camera are of one height.
ASSUME FeedsAssumption ==
  \A feed \in Feeds :
    /\ feed \in Seq(Seq(Units))
    /\ \E h \in 0..MAX_Y : \A i \in DOMAIN feed : SofHeights(feed[i]) \subseteq {h}

VARIABLES
  mIn,                  \* the source that is played, or None
  mRun,
  suspending,
  surfaceDone,
  surface,              \* the system's surface is there
  thread,               \* the thread object of the field, or None
  run,                  \* how far the run() of each thread object has come; "waiting" for the server, for ever
  looper,               \* what the main thread waits for, or the end of the process
  sources               \* the number of sources set so far

viewVars == <<mIn, mRun, suspending, surfaceDone, surface, thread, run, looper, sources>>
nativeVars == <<decompressVars, imageVars, viewVars>>

Threads == DOMAIN run

Alive == {t \in Threads : run[t] \notin {"new", "end"}}

ViewInit ==
  /\ mIn = None
  /\ mRun = FALSE /\ suspending = FALSE
  /\ surfaceDone = FALSE /\ surface = FALSE
  /\ thread = 1 /\ run = <<"new">>
  /\ looper = "idle"
  /\ sources = 0

-----------------------------------------------------------------------------
(* The main thread. *)

\* Starts the thread of the field, or a new one if it is to be replaced or there is none.
StartThread(fresh) ==
  IF fresh \/ thread = None
  THEN thread' = Len(run) + 1 /\ run' = Append(run, "loop") /\ UNCHANGED looper
  ELSE /\ UNCHANGED thread
       /\ IF run[thread] = "new" THEN run' = [run EXCEPT ![thread] = "loop"] /\ UNCHANGED looper
                                 ELSE looper' = "thrown" /\ UNCHANGED run

_startPlayback == mRun' = TRUE /\ StartThread(FALSE) /\ UNCHANGED suspending

_resumePlayback == mRun' = TRUE /\ StartThread(TRUE) /\ suspending' = FALSE

_setSource ==
  /\ looper = "idle" /\ sources < MAX_SOURCES
  /\ sources' = sources + 1
  /\ mIn' = sources + 1
  /\ IF suspending THEN _resumePlayback ELSE _startPlayback
  /\ UNCHANGED <<decompressVars, imageVars, surfaceDone, surface>>

\* Mutant: the flag that ends the loop stays.
StopWithoutFlag(returning) ==
  /\ suspending' = (suspending \/ mRun)
  /\ looper' = returning
  /\ UNCHANGED <<decompressVars, imageVars, mIn, mRun, surface, thread, run, sources>>

\* Asks the thread to end and waits for that; then the source is closed.
StopAndJoin(returning) ==
  /\ suspending' = (suspending \/ mRun)
  /\ mRun' = FALSE
  /\ looper' = returning
  /\ UNCHANGED <<decompressVars, imageVars, mIn, surface, thread, run, sources>>

_stopPlayback == looper = "idle" /\ StopAndJoin("join") /\ UNCHANGED surfaceDone

\* The surface stays until the callback has returned.
_surfaceDestroyed ==
  /\ looper = "idle" /\ surface
  /\ surfaceDone' = FALSE
  /\ StopAndJoin("destroying")

\* Mutant: nobody waits for the thread.
NotJoined ==
  /\ looper \in {"join", "destroying"}
  /\ thread' = None
  /\ mIn' = None
  /\ surface' = (surface /\ looper # "destroying")
  /\ looper' = "idle"
  /\ UNCHANGED <<decompressVars, imageVars, mRun, suspending, surfaceDone, run, sources>>

Joined ==
  /\ looper \in {"join", "destroying"}
  /\ thread # None => run[thread] \in {"new", "end"}
  /\ thread' = None
  /\ mIn' = None
  /\ surface' = (surface /\ looper # "destroying")
  /\ looper' = "idle"
  /\ UNCHANGED <<decompressVars, imageVars, mRun, suspending, surfaceDone, run, sources>>

_surfaceCreated ==
  /\ looper = "idle" /\ ~ surface
  /\ surface' = TRUE
  /\ surfaceDone' = TRUE
  /\ UNCHANGED <<decompressVars, imageVars, mIn, mRun, suspending, thread, run, looper, sources>>

\* Frees the array of the decoder, if there is a source; not while it is decoded into.
_freeCameraMemory ==
  /\ looper = "idle" /\ mIn # None
  /\ freeCameraMemory
  /\ UNCHANGED viewVars

-----------------------------------------------------------------------------
(* The render thread. *)

Goes(t, from, to) ==
  /\ run[t] = from
  /\ run' = [run EXCEPT ![t] = to]
  /\ UNCHANGED <<mIn, mRun, suspending, surfaceDone, surface, thread, looper, sources>>

TestRun(t) ==
  /\ Goes(t, "loop", IF mRun THEN "surface" ELSE "end")
  /\ UNCHANGED <<decompressVars, imageVars>>

\* Without a surface the loop has nothing in it that makes the thread read the flags again.
TestSurface(t) ==
  /\ IF surfaceDone THEN Goes(t, "surface", "read")
     ELSE Goes(t, "surface", "loop") \/ Goes(t, "surface", "spinning")
  /\ UNCHANGED <<decompressVars, imageVars>>

\* The reader throws what run() does not catch (a length that was not found, a header too large).
UncaughtException(t) ==
  /\ Goto("crashed") /\ Goes(t, "read", "end")
  /\ UNCHANGED <<decompressVars, pictures, picture, rgb, IMG_HEIGHT, jpegbuffer, y, bitmap, intact>>

\* readMjpegFrame: a frame; or, when no more come, -1 at the end of the stream, an IOException, which
\* is ignored, another exception, or the wait for a server that says nothing, which has no timeout.
readMjpegFrame(t) ==
  \/ pixeltobmp /\ Goes(t, "read", "decoding")
  \/ /\ pictures = <<>>
     /\ \E to \in {"end", "loop", "waiting"} : Goes(t, "read", to)
     /\ UNCHANGED <<decompressVars, imageVars>>
  \/ pictures = <<>> /\ at = "idle" /\ UncaughtException(t)

\* pixeltobmp returns -1 when the bitmap is not of the size of the array, and the thread ends.
Decoded(t) ==
  /\ at = "idle"
  /\ Goes(t, "decoding", IF IMG_HEIGHT = BITMAP_HEIGHT THEN "draw" ELSE "end")
  /\ UNCHANGED <<decompressVars, imageVars>>

Draw(t) == Goes(t, "draw", "loop") /\ UNCHANGED <<decompressVars, imageVars>>

RunThread(t) == TestRun(t) \/ TestSurface(t) \/ readMjpegFrame(t) \/ Decoded(t) \/ Draw(t)

Decode == ProcessImage /\ UNCHANGED viewVars

\* After an exception on the main thread only the others go on, until the process is ended.
ViewNext ==
  /\ at # "crashed"
  /\ \/ _setSource
     \/ _stopPlayback
     \/ _surfaceCreated
     \/ _surfaceDestroyed
     \/ _freeCameraMemory
     \/ Joined
     \/ \E t \in Threads : RunThread(t)
     \/ Decode

NativeInit ==
  /\ DecompressInit /\ stream = <<>> /\ whole = TRUE
  /\ at = "idle" /\ \E feed \in Feeds : ImageInit(feed)
  /\ ViewInit

\* The render threads, the decoder they call, and a join go on; the main thread may do nothing more.
NativeFairness ==
  /\ WF_nativeVars(Decode)
  /\ WF_nativeVars(at # "crashed" /\ Joined)
  /\ \A t \in 1..(MAX_SOURCES + 1) : WF_nativeVars(at # "crashed" /\ t \in Threads /\ RunThread(t))

NativeSpec == NativeInit /\ [][ViewNext]_nativeVars /\ NativeFairness

-----------------------------------------------------------------------------
(* Properties *)

\* At most one render thread is alive, and so in the decoder, whose array is one for the process:
\* a new one is started only after the last was joined, and a second start of one throws.
OneRenderThread == Cardinality(Alive) <= 1

\* A thread that is about to draw has a surface: surfaceDestroyed waits for the thread, and a
\* thread that starts without a surface does not read.  Without one the canvas would be null, and
\* the exception, which nobody catches, would end the process.
DrawsOnASurface == \A t \in Threads : run[t] = "draw" => surface

\* pixeltobmp comes back, with or without an error, from every picture whose data has its end
\* marker: damage makes the decoder go on with made-up data or jump out, and never wait.  (From a
\* picture that stops short it need not: jpeg_read_scanlines then gives no line, and the loop that
\* looks at nothing but output_scanline asks for it for ever, or until it has written over something
\* that matters.  And where the array was freed and the picture fails, the process dies.)
PictureReturns == (Decoding /\ Ends) ~> ~ Decoding

\* stopPlayback and surfaceDestroyed return, though nothing bounds their wait: the thread ends when
\* the frame it has is drawn.  Not so in a decode that does not end, nor when it spins or waits for a
\* server that says nothing; and the process may die first.
StopReturns ==
  looper \in {"join", "destroying"} ~>
    \/ looper \notin {"join", "destroying"}
    \/ Decoding /\ ~ Ends
    \/ \E t \in Threads : run[t] \in {"spinning", "waiting"}
    \/ at = "crashed"
=============================================================================
