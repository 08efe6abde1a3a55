--------------------------- MODULE MjpegViewDefault ---------------------------
(***************************************************************************)
(* The video surface of mjpeg-view (MjpegViewDefault.java): the looper     *)
(* (Android main thread) gives it streams, stops it and forwards the       *)
(* SurfaceView callbacks, while one render thread per setSource loops over *)
(* lockCanvas / synchronized(holder) / readMjpegFrame / draw / unlock.     *)
(*                                                                         *)
(* mRun and surfaceDone are volatile in the code.  The field mIn is not:   *)
(* a render thread may read any value the looper wrote to it since the     *)
(* last write that thread is ordered after.  The model keeps every write   *)
(* (writes), the index of the newest write ordered before each thread      *)
(* (seen) and the one that each lock or volatile publishes (pub).  A thread *)
(* never reads an older value after a newer one: what runs it keeps to     *)
(* that, although the language promises it of volatile fields only.        *)
(***************************************************************************)
EXTENDS Integers, Sequences

CONSTANTS
    MaxSources,   \* bound: how often setSource is called
    Sizes         \* surface sizes; a size stands for its width and its height

ASSUME MaxSourcesAssumption == MaxSources \in Nat
ASSUME SizesAssumption == Sizes \subseteq Nat

(* Objects are numbered as they are made: the k-th setSource is given      *)
(* stream k and starts thread k; thread 0 is the one of the constructor.   *)
Threads == 0..MaxSources    \* MjpegViewThread
Streams == 1..MaxSources    \* MjpegInputStreamDefault
Null    == 0                \* mIn == null
None    == -1               \* thread == null, or a lock nobody holds
Looper  == -2               \* the main thread as the holder of a lock

VARIABLES
    process,      \* "up", or "crashed" by an uncaught exception in any thread
    \* fields of MjpegViewDefault
    mRun, surfaceDone, thread, dispWidth, dispHeight,
    writes,       \* the values written to mIn, oldest first
    \* the looper
    main,         \* where the looper is in a method of the view
    destroying,   \* _stopPlayback was called by _surfaceDestroyed
    size,         \* the argument of a _surfaceChanged under way
    \* the render threads
    pc, seen, version, width, height,
    \* shared outside the view
    drawable,     \* SurfaceView has a surface to draw on
    canvas,       \* who is between lockCanvas and unlockCanvasAndPost
    monitor,      \* who is in synchronized (mSurfaceHolder)
    pub,          \* newest write to mIn ordered before the next acquire of each lock
    closed,       \* streams on which close() was called
    posted,       \* the last frame posted: which write of mIn, and its size
    excused       \* history: a source was set on a view that streams, a join timed
                  \* out, the surface was cleared when there is none, or the
                  \* server sent a part that readMjpegFrame does not survive

fields  == <<mRun, surfaceDone, dispWidth, dispHeight, writes>>
call    == <<destroying, size>>
threads == <<pc, seen, version, width, height>>
surface == <<drawable, canvas, monitor, pub>>
output  == <<closed, posted, excused>>
vars == <<process, fields, thread, main, call, threads, surface, output>>

Syncs  == {"mRun", "surfaceDone", "canvas", "monitor"}
mIn    == writes[Len(writes)]
Newest(a, b) == IF a < b THEN b ELSE a

ViewOK ==
    /\ process \in {"up", "crashed"}
    /\ mRun \in BOOLEAN /\ surfaceDone \in BOOLEAN
    /\ thread \in Threads \cup {None}
    /\ dispWidth \in Sizes \cup {0} /\ dispHeight \in Sizes \cup {0}
    /\ writes \in Seq(Streams \cup {Null}) /\ Len(writes) > 0

LooperOK ==
    /\ main \in {"looper", "resume", "stop", "join", "close", "clear",
                 "resize", "resizing", "hide", "wipe"}
    /\ destroying \in BOOLEAN
    /\ size \in Sizes \cup {0}

Points == {"unborn", "new", "loop", "gate", "lock", "enter", "fetch",
           "read", "measure", "draw", "leave", "post", "dead"}

ThreadsOK ==
    /\ pc \in [Threads -> Points]
    /\ seen \in [Threads -> Nat] /\ version \in [Threads -> Nat]
    /\ width \in [Threads -> Sizes \cup {0}] /\ height \in [Threads -> Sizes \cup {0}]

SurfaceOK ==
    /\ drawable \in BOOLEAN
    /\ canvas \in Threads \cup {None}
    /\ monitor \in Threads \cup {None, Looper}
    /\ pub \in [Syncs -> Nat]

OutputOK ==
    /\ closed \subseteq Streams
    /\ posted \in [version: Nat, width: Sizes \cup {0}, height: Sizes \cup {0}]
    /\ excused \in BOOLEAN

TypeOK == ViewOK /\ LooperOK /\ ThreadsOK /\ SurfaceOK /\ OutputOK

(* The constructor: init() makes a thread object that no code ever starts  *)
(* and sets resume, so every setSource takes the _resumePlayback branch.   *)
Init ==
    /\ process = "up"
    /\ mRun = FALSE /\ surfaceDone = FALSE /\ drawable = FALSE
    /\ thread = 0
    /\ pc = [t \in Threads |-> IF t = 0 THEN "new" ELSE "unborn"]
    /\ dispWidth = 0 /\ dispHeight = 0 /\ size = 0
    /\ writes = <<Null>>
    /\ main = "looper" /\ destroying = FALSE
    /\ seen = [t \in Threads |-> 0] /\ version = [t \in Threads |-> 0]
    /\ width = [t \in Threads |-> 0] /\ height = [t \in Threads |-> 0]
    /\ canvas = None /\ monitor = None
    /\ pub = [x \in Syncs |-> 1]
    /\ closed = {} /\ excused = FALSE
    /\ posted = [version |-> 0, width |-> 0, height |-> 0]

Crash == process' = "crashed"

(* What the looper has written to mIn so far becomes visible to whoever    *)
(* acquires x next.                                                        *)
PublishWrites(x) == pub' = [pub EXCEPT ![x] = Len(writes)]

-------------------------------------------------------------------------------
(* The looper.  A method runs to its end before the looper takes the next  *)
(* call; it is interleaved with the render threads at each access to what  *)
(* they share.                                                             *)

At(m)    == process = "up" /\ main = m
GoTo(m)  == main' = m /\ UNCHANGED process

(* The thread object the next init() makes. *)
Fresh(t) == pc[t] = "unborn" /\ \A u \in Threads : u < t => pc[u] # "unborn"

(* _setSource: the stream it replaces is not closed. *)
SetSource(s) ==
    /\ At("looper") /\ GoTo("resume")
    /\ Fresh(s)
    /\ writes' = Append(writes, s)
    /\ excused' = (excused \/ mRun)
    /\ UNCHANGED <<mRun, surfaceDone, dispWidth, dispHeight, thread, call, threads,
                   surface, closed, posted>>

(* _resumePlayback: mRun = true; init(); thread.start(). *)
ResumePlayback ==
    /\ At("resume") /\ GoTo("looper")
    /\ mRun' = TRUE
    /\ PublishWrites("mRun")
    /\ \E t \in Threads :
        /\ Fresh(t)
        /\ thread' = t
        /\ pc' = [pc EXCEPT ![t] = "loop"]
        /\ seen' = [seen EXCEPT ![t] = Len(writes)]
    /\ UNCHANGED <<surfaceDone, dispWidth, dispHeight, writes, call, version, width, height,
                   drawable, canvas, monitor, output>>

(* _stopPlayback up to the join, called by the user of the view or by      *)
(* _surfaceDestroyed.                                                      *)
StopPlayback ==
    /\ At("looper") \/ At("stop")
    /\ GoTo("join")
    /\ mRun' = FALSE
    /\ PublishWrites("mRun")
    /\ UNCHANGED <<surfaceDone, dispWidth, dispHeight, writes, thread, call, threads,
                   drawable, canvas, monitor, output>>

Terminated(t) == pc[t] \in {"unborn", "new", "dead"}

(* Mutant: no join. *)
JoinedAlways == TRUE

(* Of the threads started since the last stop only the one in the field is *)
(* waited for.                                                             *)
Joined == thread # None => Terminated(thread)

(* Mutant: a join without the 500 ms. *)
JoinTimesOutNever == FALSE

JoinTimesOut == ~Joined

(* thread.join(500) *)
Join ==
    /\ At("join") /\ GoTo("close")
    /\ \/ Joined /\ UNCHANGED excused
       \/ JoinTimesOut /\ excused' = TRUE
    /\ UNCHANGED <<fields, thread, call, threads, surface, closed, posted>>

(* The end of _stopPlayback; _surfaceDestroyed then drops the thread. *)
Return ==
    /\ GoTo("looper")
    /\ destroying' = FALSE
    /\ thread' = IF destroying THEN None ELSE thread

(* Mutant: close() without the test for null. *)
NothingToCloseNever == FALSE

NothingToClose == mIn = Null

CloseStream ==
    /\ At("close")
    /\ \/ NothingToClose /\ Return /\ UNCHANGED closed
       \/ /\ ~NothingToClose
          /\ closed' = closed \cup {mIn}
          /\ GoTo("clear") /\ UNCHANGED <<destroying, thread>>
    /\ UNCHANGED <<fields, size, threads, surface, posted, excused>>

ClearSource ==
    /\ At("clear")
    /\ writes' = Append(writes, Null)
    /\ Return
    /\ UNCHANGED <<mRun, surfaceDone, dispWidth, dispHeight, size, threads, surface, output>>

(* SurfaceView makes its surface and calls surfaceCreated; nothing here    *)
(* resumes the playback that _surfaceDestroyed stopped.                    *)
SurfaceCreated ==
    /\ At("looper") /\ GoTo("looper")
    /\ ~drawable
    /\ drawable' = TRUE
    /\ surfaceDone' = TRUE
    /\ PublishWrites("surfaceDone")
    /\ UNCHANGED <<mRun, dispWidth, dispHeight, writes, thread, call, threads, canvas, monitor,
                   output>>

(* _surfaceChanged calls thread.setSurfaceSize when there is a thread ... *)
SurfaceChanged(n) ==
    /\ At("looper") /\ GoTo("resize")
    /\ drawable
    /\ thread # None
    /\ size' = n
    /\ UNCHANGED <<fields, thread, destroying, threads, surface, output>>

(* Mutant: setSurfaceSize without synchronized. *)
MayResizeAnytime == TRUE

MayResize == monitor = None

(* ... which waits for the monitor, then writes one field ... *)
SetWidth ==
    /\ At("resize") /\ GoTo("resizing")
    /\ MayResize
    /\ monitor' = Looper
    /\ dispWidth' = size
    /\ UNCHANGED <<mRun, surfaceDone, dispHeight, writes, thread, call, threads, drawable,
                   canvas, pub, output>>

(* ... after the other. *)
SetHeight ==
    /\ At("resizing") /\ GoTo("looper")
    /\ dispHeight' = size
    /\ size' = 0
    /\ monitor' = None
    /\ PublishWrites("monitor")
    /\ UNCHANGED <<mRun, surfaceDone, dispWidth, writes, thread, destroying, threads,
                   drawable, canvas, output>>

(* SurfaceView takes its surface away: it waits until nobody has a canvas, *)
(* and calls surfaceDestroyed.                                             *)
SurfaceHidden ==
    /\ At("looper") /\ GoTo("hide")
    /\ drawable
    /\ UNCHANGED <<fields, thread, call, threads, surface, output>>

SurfaceDestroyed ==
    /\ At("hide") /\ GoTo("stop")
    /\ canvas = None
    /\ drawable' = FALSE
    /\ surfaceDone' = FALSE
    /\ pub' = [x \in Syncs |->
                 IF x \in {"canvas", "surfaceDone"} THEN Len(writes) ELSE pub[x]]
    /\ destroying' = TRUE
    /\ UNCHANGED <<mRun, dispWidth, dispHeight, writes, thread, size, threads, canvas, monitor,
                   output>>

(* clearStream takes a canvas on the looper.  With no surface the canvas   *)
(* is null and c.drawColor throws what nobody catches.                     *)
ClearStream ==
    /\ At("looper") /\ GoTo("wipe")
    /\ UNCHANGED <<fields, thread, call, threads, surface, output>>

Wipe ==
    /\ At("wipe") /\ main' = "looper"
    /\ canvas = None
    /\ \/ drawable /\ PublishWrites("canvas") /\ UNCHANGED process
       \/ ~drawable /\ Crash /\ UNCHANGED pub
    /\ excused' = (excused \/ ~drawable)
    /\ UNCHANGED <<fields, thread, call, threads, drawable, canvas, monitor, closed, posted>>

-------------------------------------------------------------------------------
(* The render threads: run(). *)

Step(t, from, to) ==
    /\ process = "up" /\ UNCHANGED process
    /\ pc[t] = from
    /\ pc' = [pc EXCEPT ![t] = to]

(* t acquires x (or reads the volatile x): it sees at least what x publishes. *)
SeePublished(t, x) == seen' = [seen EXCEPT ![t] = Newest(seen[t], pub[x])]
Publish(t, x)      == pub' = [pub EXCEPT ![x] = seen[t]]

(* Mutant: while (true). *)
AfterWhileForever == "gate"

AfterWhile == IF mRun THEN "gate" ELSE "dead"

(* while (mRun) *)
Loop(t) ==
    /\ Step(t, "loop", AfterWhile)
    /\ SeePublished(t, "mRun")
    /\ UNCHANGED <<fields, thread, main, call, version, width, height, surface, output>>

(* if (surfaceDone): a busy wait when there is no surface. *)
Gate(t) ==
    /\ Step(t, "gate", IF surfaceDone THEN "lock" ELSE "loop")
    /\ SeePublished(t, "surfaceDone")
    /\ UNCHANGED <<fields, thread, main, call, version, width, height, surface, output>>

(* lockCanvas waits for the canvas; it returns null when the surface is    *)
(* gone, and the loop continues.                                           *)
LockCanvas(t) ==
    /\ canvas = None
    /\ \/ ~drawable /\ Step(t, "lock", "loop") /\ UNCHANGED canvas
       \/ drawable /\ Step(t, "lock", "enter") /\ canvas' = t
    /\ SeePublished(t, "canvas")
    /\ UNCHANGED <<fields, thread, main, call, version, width, height, drawable, monitor, pub,
                   output>>

(* synchronized (mSurfaceHolder) *)
EnterMonitor(t) ==
    /\ Step(t, "enter", "fetch")
    /\ monitor = None
    /\ monitor' = t
    /\ SeePublished(t, "monitor")
    /\ UNCHANGED <<fields, thread, main, call, version, width, height, drawable, canvas, pub,
                   output>>

(* Mutant: the thread keeps reading a stream it found earlier. *)
VisibleToStale(t) == 1..Len(writes)

(* The writes of mIn a racing read of the field can return. *)
VisibleTo(t) == seen[t]..Len(writes)

(* mIn.readMjpegFrame(): the field is read.  A null is a                   *)
(* NullPointerException, which the catch clause does not name; a closed    *)
(* stream is an IOException, which it does, and the canvas is posted with  *)
(* nothing drawn (version 0).                                              *)
Gone(v) == writes[v] \in closed

Fetch(t) ==
    /\ process = "up" /\ pc[t] = "fetch"
    /\ \E v \in VisibleTo(t) :
        \/ writes[v] = Null /\ Crash /\ UNCHANGED <<pc, seen, version>>
        \/ /\ writes[v] # Null
           /\ seen' = [seen EXCEPT ![t] = v]
           /\ \/ Gone(v) /\ Step(t, "fetch", "leave") /\ UNCHANGED version
              \/ ~Gone(v) /\ Step(t, "fetch", "read") /\ version' = [version EXCEPT ![t] = v]
    /\ UNCHANGED <<fields, thread, main, call, width, height, surface, output>>

(* Mutant: an exception leaves run() without the finally clause. *)
AfterIOExceptionReturn == "dead"

AfterIOException == "leave"

(* The network answers: a frame, the end of the stream or a close in the   *)
(* middle (IOException), or a part that makes readMjpegFrame return null   *)
(* or throw an unchecked exception.                                        *)
ReadFrame(t) ==
    /\ process = "up" /\ pc[t] = "read"
    /\ \/ Step(t, "read", "measure") /\ UNCHANGED <<version, excused>>
       \/ /\ Step(t, "read", AfterIOException) /\ UNCHANGED excused
          /\ version' = [version EXCEPT ![t] = 0]
       \/ Crash /\ excused' = TRUE /\ UNCHANGED <<pc, version>>
    /\ UNCHANGED <<fields, thread, main, call, seen, width, height, surface, closed, posted>>

(* destRect reads the width and the height of the surface ... *)
Measure(t) ==
    /\ Step(t, "measure", "draw")
    /\ width' = [width EXCEPT ![t] = dispWidth]
    /\ UNCHANGED <<fields, thread, main, call, seen, version, height, surface, output>>

(* ... and the bitmap is drawn at that size. *)
Draw(t) ==
    /\ Step(t, "draw", "leave")
    /\ height' = [height EXCEPT ![t] = dispHeight]
    /\ UNCHANGED <<fields, thread, main, call, seen, version, width, surface, output>>

LeaveMonitor(t) ==
    /\ Step(t, "leave", "post")
    /\ monitor' = None
    /\ Publish(t, "monitor")
    /\ UNCHANGED <<fields, thread, main, call, seen, version, width, height, drawable, canvas,
                   output>>

(* finally: unlockCanvasAndPost; the locals of the iteration are dead. *)
UnlockCanvasAndPost(t) ==
    /\ Step(t, "post", "loop")
    /\ canvas' = None
    /\ Publish(t, "canvas")
    /\ posted' = IF version[t] = 0 THEN posted
                 ELSE [version |-> version[t], width |-> width[t], height |-> height[t]]
    /\ version' = [version EXCEPT ![t] = 0]
    /\ width' = [width EXCEPT ![t] = 0] /\ height' = [height EXCEPT ![t] = 0]
    /\ UNCHANGED <<fields, thread, main, call, seen, drawable, monitor, closed, excused>>

-------------------------------------------------------------------------------
Calls ==
    \/ \E s \in Streams : SetSource(s)
    \/ \E n \in Sizes : SurfaceChanged(n)
    \/ At("looper") /\ StopPlayback
    \/ SurfaceCreated
    \/ SurfaceHidden
    \/ ClearStream

(* What the looper goes on with, and where it waits for a lock first. *)
Resume ==
    \/ ResumePlayback
    \/ At("stop") /\ StopPlayback
    \/ Join
    \/ CloseStream
    \/ ClearSource
    \/ SetHeight

Acquire == SetWidth \/ SurfaceDestroyed \/ Wipe

Compute(t) ==
    \/ Loop(t) \/ Gate(t) \/ Fetch(t) \/ Measure(t) \/ Draw(t)
    \/ LeaveMonitor(t) \/ UnlockCanvasAndPost(t)

Wait(t) == LockCanvas(t) \/ EnterMonitor(t)

Render(t) == Compute(t) \/ Wait(t) \/ ReadFrame(t)

Next == Calls \/ Resume \/ Acquire \/ \E t \in Threads : Render(t)

Spec == Init /\ [][Next]_vars

(* The scheduler runs every thread that can run, and a lock that becomes   *)
(* free again and again is granted in the end to whoever waits for it.     *)
Scheduling ==
    /\ WF_vars(Resume) /\ SF_vars(Acquire)
    /\ \A t \in Threads \ {0} : WF_vars(Compute(t)) /\ SF_vars(Wait(t))

(* A read under which the stream is closed ends.  Any other read may wait  *)
(* for the server for ever: the connection has no read timeout.            *)
ClosedReadsEnd ==
    \A t \in Threads \ {0} : WF_vars(ReadFrame(t) /\ writes[version[t]] \in closed)

(* The server, or the operating system on its behalf, answers every read. *)
NetworkAnswers == \A t \in Threads \ {0} : WF_vars(ReadFrame(t))

FairSpec == Spec /\ Scheduling /\ ClosedReadsEnd

-------------------------------------------------------------------------------
(* Properties. *)

(* setSurfaceSize and the drawing in run() exclude each other (the monitor *)
(* of the holder): no frame is drawn with the width of one surface and the *)
(* height of another.                                                      *)
SurfaceSizeNotTorn == posted.width = posted.height

(* The frames of a replaced stream never come back, although several       *)
(* render threads share the racing field mIn: the canvas is held from the  *)
(* read of the field to the post of the frame.  It is the part of          *)
(* ImplementsVideoPlayer that speaks of the order.                         *)
FramesInSourceOrder == [][posted'.version >= posted.version]_vars

Player == INSTANCE VideoPlayer WITH given <- writes, shown <- posted.version

(* The view implements the abstract player: what it posts was read from a  *)
(* stream given by setSource (never from the null that _stopPlayback       *)
(* leaves), in order.                                                      *)
ImplementsVideoPlayer == Player!Spec

(* An exception that nobody catches (a thread finds the null that          *)
(* _stopPlayback leaves in mIn, a canvas that is null) ends the process    *)
(* only when a join did not wait for its thread, the caller did not stop   *)
(* before it set a source or cleared a view with no surface, or the stream *)
(* was malformed.                                                          *)
NoUncaughtException == process = "up" \/ excused

(* _stopPlayback comes back to the looper even if the server is silent and *)
(* the render thread sits in its read: this is what the 500 ms are for.    *)
StopReturns == main \in {"join", "close", "clear"} ~> (main = "looper" \/ process = "crashed")

(* Once nobody streams any more, and reads are answered, every render      *)
(* thread ends, those that were replaced without being joined too.         *)
ThreadsEndWhenStopped ==
    NetworkAnswers =>
        (<>[](~mRun) => <>[](process = "crashed" \/ \A t \in Threads : Terminated(t)))

(* A render thread holds the canvas while it waits for the network, and    *)
(* the looper waits for the canvas and the monitor; as long as reads are   *)
(* answered the looper gets them.                                          *)
LooperReturns ==
    NetworkAnswers => (main # "looper" ~> (main = "looper" \/ process = "crashed"))

(* "close the connection" (_stopPlayback): when the view does not stream,  *)
(* every stream it was given has been closed.                              *)
StopClosesTheConnection ==
    main = "looper" /\ ~mRun => \A s \in Streams : pc[s] # "unborn" => s \in closed
===============================================================================
