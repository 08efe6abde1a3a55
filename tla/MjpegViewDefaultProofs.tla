------------------------ MODULE MjpegViewDefaultProofs ------------------------
(***************************************************************************)
(* Proofs about MjpegViewDefault for every number of setSource calls and   *)
(* every set of surface sizes.                                             *)
(***************************************************************************)
EXTENDS MjpegViewDefault, TLAPS

InMonitor == {"fetch", "read", "measure", "draw", "leave"}
HasCanvas == InMonitor \cup {"enter", "post"}
HasRead   == {"read", "measure", "draw", "leave", "post"}

(* The canvas and the monitor have the holders that the program counters   *)
(* say they have, hence at most one each.                                  *)
LockInv ==
    /\ \A t \in Threads : pc[t] \in HasCanvas <=> canvas = t
    /\ \A t \in Threads : pc[t] \in InMonitor <=> monitor = t
    /\ main = "resizing" <=> monitor = Looper

(* Whoever holds the canvas sees at least the write of mIn whose frame is  *)
(* on the screen, and what it has read is what it sees.                    *)
OrderInv ==
    /\ \A x \in Syncs : pub[x] \in 1..Len(writes)
    /\ \A t \in Threads : seen[t] <= Len(writes)
    /\ posted.version <= pub["canvas"]
    /\ \A t \in Threads : pc[t] \in HasCanvas => pub["canvas"] <= seen[t]
    /\ \A t \in Threads :
         pc[t] \in HasRead /\ version[t] # 0 =>
            /\ version[t] = seen[t]
            /\ writes[version[t]] # Null
    /\ \A t \in Threads : pc[t] \notin HasRead => version[t] = 0

(* Outside the monitor the two fields of the surface size agree. *)
SizeInv ==
    /\ main # "resizing" => dispWidth = dispHeight
    /\ main = "resizing" => dispWidth = size
    /\ \A t \in Threads : pc[t] = "draw" => width[t] = dispWidth
    /\ \A t \in Threads :
         pc[t] \in {"leave", "post"} /\ version[t] # 0 => width[t] = height[t]
    /\ posted.width = posted.height

IndInv == TypeOK /\ LockInv /\ OrderInv /\ SizeInv

-------------------------------------------------------------------------------
(* Every variable keeps its type. *)
THEOREM TypeCorrect == Spec => []TypeOK
<1>1. ASSUME Init PROVE TypeOK
  <2>1. 0 \in Threads
    BY MaxSourcesAssumption DEF Threads
  <2>2. ViewOK
    <3>1. writes \in Seq(Streams \cup {Null}) /\ Len(writes) > 0
      BY <1>1 DEF Init
    <3> QED
      BY <1>1, <2>1, <3>1 DEF Init, ViewOK
  <2>3. LooperOK /\ ThreadsOK
    BY <1>1 DEF Init, LooperOK, ThreadsOK, Points
  <2>4. SurfaceOK /\ OutputOK
    BY <1>1 DEF Init, SurfaceOK, OutputOK
  <2> QED
    BY <2>2, <2>3, <2>4 DEF TypeOK
<1>2. ASSUME TypeOK, [Next]_vars PROVE TypeOK'
  <2> USE <1>2 DEF TypeOK
  <2>0. Len(writes) \in Nat
    BY DEF ViewOK
  <2>1. ASSUME NEW s \in Streams, SetSource(s) PROVE TypeOK'
    <3>1. ViewOK'
      BY <2>1 DEF SetSource, ViewOK, GoTo
    <3>2. LooperOK'
      BY <2>1 DEF SetSource, LooperOK, GoTo, call
    <3>3. ThreadsOK' /\ SurfaceOK' /\ OutputOK'
      BY <2>1 DEF SetSource, ThreadsOK, SurfaceOK, OutputOK, threads, surface, output
    <3> QED
      BY <3>1, <3>2, <3>3
  <2>2. ASSUME NEW n \in Sizes, SurfaceChanged(n) PROVE TypeOK'
    <3>1. ViewOK'
      BY <2>2 DEF SurfaceChanged, ViewOK, GoTo, fields
    <3>2. LooperOK'
      BY <2>2 DEF SurfaceChanged, LooperOK, GoTo
    <3>3. ThreadsOK' /\ SurfaceOK' /\ OutputOK'
      BY <2>2 DEF SurfaceChanged, ThreadsOK, SurfaceOK, OutputOK, threads, surface, output
    <3> QED
      BY <3>1, <3>2, <3>3
  <2>3. ASSUME StopPlayback PROVE TypeOK'
    <3>1. ViewOK'
      BY <2>3 DEF StopPlayback, ViewOK, GoTo
    <3>2. LooperOK'
      BY <2>3 DEF StopPlayback, LooperOK, GoTo, call
    <3>3. SurfaceOK'
      BY <2>0, <2>3 DEF StopPlayback, SurfaceOK, PublishWrites
    <3>4. ThreadsOK' /\ OutputOK'
      BY <2>3 DEF StopPlayback, ThreadsOK, OutputOK, threads, output
    <3> QED
      BY <3>1, <3>2, <3>3, <3>4
  <2>4. ASSUME SurfaceCreated PROVE TypeOK'
    <3>1. ViewOK'
      BY <2>4 DEF SurfaceCreated, ViewOK, GoTo
    <3>2. LooperOK'
      BY <2>4 DEF SurfaceCreated, LooperOK, GoTo, call
    <3>3. SurfaceOK'
      BY <2>0, <2>4 DEF SurfaceCreated, SurfaceOK, PublishWrites
    <3>4. ThreadsOK' /\ OutputOK'
      BY <2>4 DEF SurfaceCreated, ThreadsOK, OutputOK, threads, output
    <3> QED
      BY <3>1, <3>2, <3>3, <3>4
  <2>5. ASSUME SurfaceHidden PROVE TypeOK'
    <3>1. ViewOK'
      BY <2>5 DEF SurfaceHidden, ViewOK, GoTo, fields
    <3>2. LooperOK'
      BY <2>5 DEF SurfaceHidden, LooperOK, GoTo, call
    <3>3. ThreadsOK' /\ SurfaceOK' /\ OutputOK'
      BY <2>5 DEF SurfaceHidden, ThreadsOK, SurfaceOK, OutputOK, threads, surface, output
    <3> QED
      BY <3>1, <3>2, <3>3
  <2>6. ASSUME ClearStream PROVE TypeOK'
    <3>1. ViewOK'
      BY <2>6 DEF ClearStream, ViewOK, GoTo, fields
    <3>2. LooperOK'
      BY <2>6 DEF ClearStream, LooperOK, GoTo, call
    <3>3. ThreadsOK' /\ SurfaceOK' /\ OutputOK'
      BY <2>6 DEF ClearStream, ThreadsOK, SurfaceOK, OutputOK, threads, surface, output
    <3> QED
      BY <3>1, <3>2, <3>3
  <2>7. ASSUME ResumePlayback PROVE TypeOK'
    <3>1. ViewOK'
      BY <2>7 DEF ResumePlayback, ViewOK, GoTo
    <3>2. LooperOK'
      BY <2>7 DEF ResumePlayback, LooperOK, GoTo, call
    <3>3. ThreadsOK'
      BY <2>7 DEF ResumePlayback, ThreadsOK, Points, ViewOK
    <3>4. SurfaceOK'
      BY <2>0, <2>7 DEF ResumePlayback, SurfaceOK, PublishWrites
    <3>5. OutputOK'
      BY <2>7 DEF ResumePlayback, OutputOK, output
    <3> QED
      BY <3>1, <3>2, <3>3, <3>4, <3>5
  <2>8. ASSUME Join PROVE TypeOK'
    <3>1. ViewOK'
      BY <2>8 DEF Join, ViewOK, GoTo, fields
    <3>2. LooperOK'
      BY <2>8 DEF Join, LooperOK, GoTo, call
    <3>3. ThreadsOK' /\ SurfaceOK' /\ OutputOK'
      BY <2>8 DEF Join, ThreadsOK, SurfaceOK, OutputOK, threads, surface, output
    <3> QED
      BY <3>1, <3>2, <3>3
  <2>9. ASSUME CloseStream PROVE TypeOK'
    <3>1. ViewOK'
      BY <2>9 DEF CloseStream, ViewOK, Return, GoTo, fields
    <3>2. LooperOK'
      BY <2>9 DEF CloseStream, LooperOK, Return, GoTo
    <3>3. OutputOK'
      BY <2>9 DEF CloseStream, OutputOK, NothingToClose, mIn, ViewOK
    <3>4. ThreadsOK' /\ SurfaceOK'
      BY <2>9 DEF CloseStream, ThreadsOK, SurfaceOK, threads, surface
    <3> QED
      BY <3>1, <3>2, <3>3, <3>4
  <2>10. ASSUME ClearSource PROVE TypeOK'
    <3>1. ViewOK'
      BY <2>10 DEF ClearSource, ViewOK, Return, GoTo
    <3>2. LooperOK'
      BY <2>10 DEF ClearSource, LooperOK, Return, GoTo
    <3>3. ThreadsOK' /\ SurfaceOK' /\ OutputOK'
      BY <2>10 DEF ClearSource, ThreadsOK, SurfaceOK, OutputOK, threads, surface, output
    <3> QED
      BY <3>1, <3>2, <3>3
  <2>11. ASSUME SetHeight PROVE TypeOK'
    <3>1. ViewOK'
      BY <2>11 DEF SetHeight, ViewOK, GoTo, LooperOK
    <3>2. LooperOK'
      BY <2>11 DEF SetHeight, LooperOK, GoTo
    <3>3. SurfaceOK'
      BY <2>0, <2>11 DEF SetHeight, SurfaceOK, PublishWrites
    <3>4. ThreadsOK' /\ OutputOK'
      BY <2>11 DEF SetHeight, ThreadsOK, OutputOK, threads, output
    <3> QED
      BY <3>1, <3>2, <3>3, <3>4
  <2>12. ASSUME SetWidth PROVE TypeOK'
    <3>1. ViewOK'
      BY <2>12 DEF SetWidth, ViewOK, GoTo, LooperOK
    <3>2. LooperOK'
      BY <2>12 DEF SetWidth, LooperOK, GoTo, call
    <3>3. SurfaceOK'
      BY <2>12 DEF SetWidth, SurfaceOK
    <3>4. ThreadsOK' /\ OutputOK'
      BY <2>12 DEF SetWidth, ThreadsOK, OutputOK, threads, output
    <3> QED
      BY <3>1, <3>2, <3>3, <3>4
  <2>13. ASSUME SurfaceDestroyed PROVE TypeOK'
    <3>1. ViewOK'
      BY <2>13 DEF SurfaceDestroyed, ViewOK, GoTo
    <3>2. LooperOK'
      BY <2>13 DEF SurfaceDestroyed, LooperOK, GoTo
    <3>3. SurfaceOK'
      BY <2>0, <2>13 DEF SurfaceDestroyed, SurfaceOK
    <3>4. ThreadsOK' /\ OutputOK'
      BY <2>13 DEF SurfaceDestroyed, ThreadsOK, OutputOK, threads, output
    <3> QED
      BY <3>1, <3>2, <3>3, <3>4
  <2>14. ASSUME Wipe PROVE TypeOK'
    <3>1. ViewOK'
      BY <2>14 DEF Wipe, ViewOK, Crash, fields
    <3>2. LooperOK'
      BY <2>14 DEF Wipe, LooperOK, call
    <3>3. SurfaceOK'
      BY <2>0, <2>14 DEF Wipe, SurfaceOK, PublishWrites
    <3>4. ThreadsOK' /\ OutputOK'
      BY <2>14 DEF Wipe, ThreadsOK, OutputOK, threads, output
    <3> QED
      BY <3>1, <3>2, <3>3, <3>4
  <2>15. ASSUME NEW t \in Threads, Loop(t) PROVE TypeOK'
    <3>1. ViewOK'
      BY <2>15 DEF Loop, ViewOK, Step, fields
    <3>2. ThreadsOK'
      BY <2>15 DEF Loop, ThreadsOK, Step, Points, AfterWhile, SeePublished, Newest,
         Syncs, SurfaceOK
    <3>3. LooperOK' /\ SurfaceOK' /\ OutputOK'
      BY <2>15 DEF Loop, LooperOK, SurfaceOK, OutputOK, call, surface, output
    <3> QED
      BY <3>1, <3>2, <3>3
  <2>16. ASSUME NEW t \in Threads, Gate(t) PROVE TypeOK'
    <3>1. ViewOK'
      BY <2>16 DEF Gate, ViewOK, Step, fields
    <3>2. ThreadsOK'
      BY <2>16 DEF Gate, ThreadsOK, Step, Points, SeePublished, Newest, Syncs, SurfaceOK
    <3>3. LooperOK' /\ SurfaceOK' /\ OutputOK'
      BY <2>16 DEF Gate, LooperOK, SurfaceOK, OutputOK, call, surface, output
    <3> QED
      BY <3>1, <3>2, <3>3
  <2>17. ASSUME NEW t \in Threads, LockCanvas(t) PROVE TypeOK'
    <3>1. ViewOK'
      BY <2>17 DEF LockCanvas, ViewOK, Step, fields
    <3>2. ThreadsOK'
      BY <2>17 DEF LockCanvas, ThreadsOK, Step, Points, SeePublished, Newest, Syncs,
         SurfaceOK
    <3>3. SurfaceOK'
      BY <2>17 DEF LockCanvas, SurfaceOK
    <3>4. LooperOK' /\ OutputOK'
      BY <2>17 DEF LockCanvas, LooperOK, OutputOK, call, output
    <3> QED
      BY <3>1, <3>2, <3>3, <3>4
  <2>18. ASSUME NEW t \in Threads, EnterMonitor(t) PROVE TypeOK'
    <3>1. ViewOK'
      BY <2>18 DEF EnterMonitor, ViewOK, Step, fields
    <3>2. ThreadsOK'
      BY <2>18 DEF EnterMonitor, ThreadsOK, Step, Points, SeePublished, Newest,
         Syncs, SurfaceOK
    <3>3. SurfaceOK'
      BY <2>18 DEF EnterMonitor, SurfaceOK
    <3>4. LooperOK' /\ OutputOK'
      BY <2>18 DEF EnterMonitor, LooperOK, OutputOK, call, output
    <3> QED
      BY <3>1, <3>2, <3>3, <3>4
  <2>19. ASSUME NEW t \in Threads, Fetch(t) PROVE TypeOK'
    <3>1. ViewOK'
      BY <2>19 DEF Fetch, ViewOK, Step, Crash, fields
    <3>2. PICK v \in VisibleTo(t) : Fetch(t)!2!(v)
      BY <2>19 DEF Fetch
    <3>3. v \in Nat
      BY <3>2, <2>0 DEF VisibleTo, ThreadsOK
    <3>4. ThreadsOK'
      BY <2>19, <3>2, <3>3 DEF Fetch, ThreadsOK, Step, Points
    <3>5. LooperOK' /\ SurfaceOK' /\ OutputOK'
      BY <2>19 DEF Fetch, LooperOK, SurfaceOK, OutputOK, call, surface, output
    <3> QED
      BY <3>1, <3>4, <3>5
  <2>20. ASSUME NEW t \in Threads, ReadFrame(t) PROVE TypeOK'
    <3>1. ViewOK'
      BY <2>20 DEF ReadFrame, ViewOK, Step, Crash, fields
    <3>2. ThreadsOK'
      BY <2>20 DEF ReadFrame, ThreadsOK, Step, Points, AfterIOException
    <3>3. LooperOK' /\ SurfaceOK'
      BY <2>20 DEF ReadFrame, LooperOK, SurfaceOK, call, surface
    <3>4. UNCHANGED <<closed, posted>> /\ (excused' = TRUE \/ UNCHANGED excused)
      BY <2>20 DEF ReadFrame
    <3>5. OutputOK'
      BY <3>4 DEF OutputOK
    <3> QED
      BY <3>1, <3>2, <3>3, <3>5
  <2>21. ASSUME NEW t \in Threads, Measure(t) PROVE TypeOK'
    <3>1. ViewOK'
      BY <2>21 DEF Measure, ViewOK, Step, fields
    <3>2. ThreadsOK'
      BY <2>21 DEF Measure, ThreadsOK, Step, Points, ViewOK
    <3>3. LooperOK' /\ SurfaceOK' /\ OutputOK'
      BY <2>21 DEF Measure, LooperOK, SurfaceOK, OutputOK, call, surface, output
    <3> QED
      BY <3>1, <3>2, <3>3
  <2>22. ASSUME NEW t \in Threads, Draw(t) PROVE TypeOK'
    <3>1. ViewOK'
      BY <2>22 DEF Draw, ViewOK, Step, fields
    <3>2. ThreadsOK'
      BY <2>22 DEF Draw, ThreadsOK, Step, Points, ViewOK
    <3>3. LooperOK' /\ SurfaceOK' /\ OutputOK'
      BY <2>22 DEF Draw, LooperOK, SurfaceOK, OutputOK, call, surface, output
    <3> QED
      BY <3>1, <3>2, <3>3
  <2>23. ASSUME NEW t \in Threads, LeaveMonitor(t) PROVE TypeOK'
    <3>1. ViewOK'
      BY <2>23 DEF LeaveMonitor, ViewOK, Step, fields
    <3>2. ThreadsOK'
      BY <2>23 DEF LeaveMonitor, ThreadsOK, Step, Points
    <3>3. SurfaceOK'
      BY <2>23 DEF LeaveMonitor, SurfaceOK, Publish, ThreadsOK
    <3>4. LooperOK' /\ OutputOK'
      BY <2>23 DEF LeaveMonitor, LooperOK, OutputOK, call, output
    <3> QED
      BY <3>1, <3>2, <3>3, <3>4
  <2>24. ASSUME NEW t \in Threads, UnlockCanvasAndPost(t) PROVE TypeOK'
    <3>1. ViewOK'
      BY <2>24 DEF UnlockCanvasAndPost, ViewOK, Step, fields
    <3>2. ThreadsOK'
      BY <2>24 DEF UnlockCanvasAndPost, ThreadsOK, Step, Points
    <3>3. SurfaceOK'
      BY <2>24 DEF UnlockCanvasAndPost, SurfaceOK, Publish, ThreadsOK
    <3>4. OutputOK'
      BY <2>24 DEF UnlockCanvasAndPost, OutputOK, ThreadsOK
    <3>5. LooperOK'
      BY <2>24 DEF UnlockCanvasAndPost, LooperOK, call
    <3> QED
      BY <3>1, <3>2, <3>3, <3>4, <3>5
  <2>25. CASE UNCHANGED vars
    <3>1. ViewOK' /\ LooperOK'
      BY <2>25 DEF vars, ViewOK, LooperOK, fields, call
    <3>2. ThreadsOK' /\ SurfaceOK' /\ OutputOK'
      BY <2>25 DEF vars, ThreadsOK, SurfaceOK, OutputOK, threads, surface, output
    <3> QED
      BY <3>1, <3>2
  <2> QED
    BY <2>1, <2>2, <2>3, <2>4, <2>5, <2>6, <2>7, <2>8, <2>9, <2>10, <2>11, <2>12, <2>13,
       <2>14, <2>15, <2>16, <2>17, <2>18, <2>19, <2>20, <2>21, <2>22, <2>23, <2>24, <2>25
    DEF Next, Calls, Resume, Acquire, Render, Compute, Wait
<1> QED
  BY <1>1, <1>2, PTL DEF Spec
-------------------------------------------------------------------------------
LEMMA Names ==
    /\ \A t \in Threads : t \in Nat /\ t # None /\ t # Looper
    /\ None # Looper
    /\ \A s \in Streams : s # Null
  BY MaxSourcesAssumption DEF Threads, Streams, None, Looper, Null

(* A step of the specification keeps the inductive invariant. *)
LEMMA IndStep ==
    ASSUME TypeOK, TypeOK', LockInv, OrderInv, SizeInv, [Next]_vars
    PROVE  LockInv' /\ OrderInv' /\ SizeInv'
<1> USE Names DEF TypeOK, InMonitor, HasCanvas, HasRead
<1>1. ASSUME NEW s \in Streams, SetSource(s) PROVE LockInv' /\ OrderInv' /\ SizeInv'
  <2>1. LockInv'
    BY <1>1 DEF SetSource, LockInv, ThreadsOK, SurfaceOK, Points, At, GoTo, Fresh,
       fields, call, threads, surface, output
  <2>2. OrderInv'
    <3>1. Len(writes') = Len(writes) + 1 /\ \A i \in 1..Len(writes) : writes'[i] = writes[i]
      BY <1>1 DEF SetSource, ViewOK
    <3>2. UNCHANGED <<pc, seen, version, pub, posted>>
      BY <1>1 DEF SetSource, threads, surface, output
    <3>3. \A t \in Threads :
            pc[t] \in HasRead /\ version[t] # 0 => version[t] \in 1..Len(writes)
      BY DEF OrderInv, ThreadsOK, ViewOK
    <3>4. (\A x \in Syncs : pub[x] \in 1..Len(writes))'
      BY <3>1, <3>2 DEF OrderInv, ViewOK
    <3>5. (\A t \in Threads : seen[t] <= Len(writes))'
      BY <3>1, <3>2 DEF OrderInv, ThreadsOK, ViewOK
    <3> QED
      BY <3>1, <3>2, <3>3, <3>4, <3>5 DEF OrderInv
  <2>3. SizeInv'
    BY <1>1 DEF SetSource, LockInv, SizeInv, ViewOK, LooperOK, ThreadsOK, OutputOK,
       At, GoTo, Fresh, fields, call, threads, surface, output
  <2> QED
    BY <2>1, <2>2, <2>3
<1>2. ASSUME NEW n \in Sizes, SurfaceChanged(n) PROVE LockInv' /\ OrderInv' /\ SizeInv'
  <2>1. LockInv'
    BY <1>2 DEF SurfaceChanged, LockInv, ThreadsOK, SurfaceOK, Points, At, GoTo,
       fields, call, threads, surface, output
  <2>2. OrderInv'
    BY <1>2 DEF SurfaceChanged, LockInv, OrderInv, ViewOK, ThreadsOK, SurfaceOK,
       OutputOK, Syncs, At, GoTo, fields, call, threads, surface, output
  <2>3. SizeInv'
    BY <1>2 DEF SurfaceChanged, LockInv, SizeInv, ViewOK, LooperOK, ThreadsOK,
       OutputOK, At, GoTo, fields, call, threads, surface, output
  <2> QED
    BY <2>1, <2>2, <2>3
<1>3. ASSUME StopPlayback PROVE LockInv' /\ OrderInv' /\ SizeInv'
  <2>1. LockInv'
    BY <1>3 DEF StopPlayback, LockInv, ThreadsOK, SurfaceOK, Points, At, GoTo,
       PublishWrites, fields, call, threads, surface, output
  <2>2. OrderInv'
    BY <1>3 DEF StopPlayback, LockInv, OrderInv, ViewOK, ThreadsOK, SurfaceOK,
       OutputOK, Syncs, At, GoTo, PublishWrites, fields, call, threads, surface,
       output
  <2>3. SizeInv'
    BY <1>3 DEF StopPlayback, LockInv, SizeInv, ViewOK, LooperOK, ThreadsOK, OutputOK,
       At, GoTo, PublishWrites, fields, call, threads, surface, output
  <2> QED
    BY <2>1, <2>2, <2>3
<1>4. ASSUME SurfaceCreated PROVE LockInv' /\ OrderInv' /\ SizeInv'
  <2>1. LockInv'
    BY <1>4 DEF SurfaceCreated, LockInv, ThreadsOK, SurfaceOK, Points, At, GoTo,
       PublishWrites, fields, call, threads, surface, output
  <2>2. OrderInv'
    BY <1>4 DEF SurfaceCreated, LockInv, OrderInv, ViewOK, ThreadsOK, SurfaceOK,
       OutputOK, Syncs, At, GoTo, PublishWrites, fields, call, threads, surface,
       output
  <2>3. SizeInv'
    BY <1>4 DEF SurfaceCreated, LockInv, SizeInv, ViewOK, LooperOK, ThreadsOK,
       OutputOK, At, GoTo, PublishWrites, fields, call, threads, surface, output
  <2> QED
    BY <2>1, <2>2, <2>3
<1>5. ASSUME SurfaceHidden PROVE LockInv' /\ OrderInv' /\ SizeInv'
  <2>1. LockInv'
    BY <1>5 DEF SurfaceHidden, LockInv, ThreadsOK, SurfaceOK, Points, At, GoTo,
       fields, call, threads, surface, output
  <2>2. OrderInv'
    BY <1>5 DEF SurfaceHidden, LockInv, OrderInv, ViewOK, ThreadsOK, SurfaceOK,
       OutputOK, Syncs, At, GoTo, fields, call, threads, surface, output
  <2>3. SizeInv'
    BY <1>5 DEF SurfaceHidden, LockInv, SizeInv, ViewOK, LooperOK, ThreadsOK,
       OutputOK, At, GoTo, fields, call, threads, surface, output
  <2> QED
    BY <2>1, <2>2, <2>3
<1>6. ASSUME ClearStream PROVE LockInv' /\ OrderInv' /\ SizeInv'
  <2>1. LockInv'
    BY <1>6 DEF ClearStream, LockInv, ThreadsOK, SurfaceOK, Points, At, GoTo, fields,
       call, threads, surface, output
  <2>2. OrderInv'
    BY <1>6 DEF ClearStream, LockInv, OrderInv, ViewOK, ThreadsOK, SurfaceOK,
       OutputOK, Syncs, At, GoTo, fields, call, threads, surface, output
  <2>3. SizeInv'
    BY <1>6 DEF ClearStream, LockInv, SizeInv, ViewOK, LooperOK, ThreadsOK, OutputOK,
       At, GoTo, fields, call, threads, surface, output
  <2> QED
    BY <2>1, <2>2, <2>3
<1>7. ASSUME ResumePlayback PROVE LockInv' /\ OrderInv' /\ SizeInv'
  <2>1. LockInv'
    BY <1>7 DEF ResumePlayback, LockInv, ThreadsOK, SurfaceOK, Points, At, GoTo,
       Fresh, PublishWrites, fields, call, threads, surface, output
  <2>2. OrderInv'
    <3>1. PICK t \in Threads : ResumePlayback!4!(t)
      BY <1>7 DEF ResumePlayback
    <3>2. pub' = [pub EXCEPT !["mRun"] = Len(writes)] /\ UNCHANGED <<writes, version, posted>>
      BY <1>7 DEF ResumePlayback, PublishWrites, output
    <3>3. Len(writes) \in Nat /\ Len(writes) > 0
      BY DEF ViewOK
    <3>4. (\A x \in Syncs : pub[x] \in 1..Len(writes))' /\ pub'["canvas"] = pub["canvas"]
      BY <3>2, <3>3 DEF OrderInv, SurfaceOK, Syncs
    <3>5. (\A u \in Threads : seen[u] <= Len(writes))'
      BY <3>1, <3>2, <3>3 DEF OrderInv, ThreadsOK
    <3>6. \A u \in Threads : u # t => pc'[u] = pc[u] /\ seen'[u] = seen[u]
      BY <3>1 DEF ThreadsOK
    <3>7. pc[t] = "unborn" /\ pc'[t] = "loop"
      BY <3>1 DEF Fresh, ThreadsOK
    <3> QED
      BY <3>2, <3>4, <3>5, <3>6, <3>7 DEF OrderInv
  <2>3. SizeInv'
    BY <1>7 DEF ResumePlayback, LockInv, SizeInv, ViewOK, LooperOK, ThreadsOK,
       OutputOK, At, GoTo, Fresh, PublishWrites, fields, call, threads, surface,
       output
  <2> QED
    BY <2>1, <2>2, <2>3
<1>8. ASSUME Join PROVE LockInv' /\ OrderInv' /\ SizeInv'
  <2>1. LockInv'
    BY <1>8 DEF Join, LockInv, ThreadsOK, SurfaceOK, Points, At, GoTo, fields, call,
       threads, surface, output
  <2>2. OrderInv'
    BY <1>8 DEF Join, LockInv, OrderInv, ViewOK, ThreadsOK, SurfaceOK, OutputOK,
       Syncs, At, GoTo, fields, call, threads, surface, output
  <2>3. SizeInv'
    BY <1>8 DEF Join, LockInv, SizeInv, ViewOK, LooperOK, ThreadsOK, OutputOK, At,
       GoTo, fields, call, threads, surface, output
  <2> QED
    BY <2>1, <2>2, <2>3
<1>9. ASSUME CloseStream PROVE LockInv' /\ OrderInv' /\ SizeInv'
  <2>1. LockInv'
    BY <1>9 DEF CloseStream, LockInv, ThreadsOK, SurfaceOK, Points, At, GoTo, Return,
       fields, call, threads, surface, output
  <2>2. OrderInv'
    BY <1>9 DEF CloseStream, LockInv, OrderInv, ViewOK, ThreadsOK, SurfaceOK,
       OutputOK, Syncs, At, GoTo, Return, fields, call, threads, surface, output
  <2>3. SizeInv'
    BY <1>9 DEF CloseStream, LockInv, SizeInv, ViewOK, LooperOK, ThreadsOK, OutputOK,
       At, GoTo, Return, fields, call, threads, surface, output
  <2> QED
    BY <2>1, <2>2, <2>3
<1>10. ASSUME ClearSource PROVE LockInv' /\ OrderInv' /\ SizeInv'
  <2>1. LockInv'
    BY <1>10 DEF ClearSource, LockInv, ThreadsOK, SurfaceOK, Points, At, GoTo, Return,
       fields, call, threads, surface, output
  <2>2. OrderInv'
    BY <1>10 DEF ClearSource, LockInv, OrderInv, ViewOK, ThreadsOK, SurfaceOK,
       OutputOK, Syncs, At, GoTo, Return, fields, call, threads, surface, output
  <2>3. SizeInv'
    BY <1>10 DEF ClearSource, LockInv, SizeInv, ViewOK, LooperOK, ThreadsOK, OutputOK,
       At, GoTo, Return, fields, call, threads, surface, output
  <2> QED
    BY <2>1, <2>2, <2>3
<1>11. ASSUME SetHeight PROVE LockInv' /\ OrderInv' /\ SizeInv'
  <2>1. LockInv'
    BY <1>11 DEF SetHeight, LockInv, ThreadsOK, SurfaceOK, Points, At, GoTo,
       PublishWrites, fields, call, threads, surface, output
  <2>2. OrderInv'
    BY <1>11 DEF SetHeight, LockInv, OrderInv, ViewOK, ThreadsOK, SurfaceOK, OutputOK,
       Syncs, At, GoTo, PublishWrites, fields, call, threads, surface, output
  <2>3. SizeInv'
    BY <1>11 DEF SetHeight, LockInv, SizeInv, ViewOK, LooperOK, ThreadsOK, OutputOK,
       At, GoTo, PublishWrites, fields, call, threads, surface, output
  <2> QED
    BY <2>1, <2>2, <2>3
<1>12. ASSUME SetWidth PROVE LockInv' /\ OrderInv' /\ SizeInv'
  <2>1. LockInv'
    BY <1>12 DEF SetWidth, LockInv, ThreadsOK, SurfaceOK, Points, At, GoTo, MayResize,
       fields, call, threads, surface, output
  <2>2. OrderInv'
    BY <1>12 DEF SetWidth, LockInv, OrderInv, ViewOK, ThreadsOK, SurfaceOK, OutputOK,
       Syncs, At, GoTo, MayResize, fields, call, threads, surface, output
  <2>3. SizeInv'
    BY <1>12 DEF SetWidth, LockInv, SizeInv, ViewOK, LooperOK, ThreadsOK, OutputOK,
       At, GoTo, MayResize, fields, call, threads, surface, output
  <2> QED
    BY <2>1, <2>2, <2>3
<1>13. ASSUME SurfaceDestroyed PROVE LockInv' /\ OrderInv' /\ SizeInv'
  <2>1. LockInv'
    BY <1>13 DEF SurfaceDestroyed, LockInv, ThreadsOK, SurfaceOK, Points, At, GoTo,
       fields, call, threads, surface, output
  <2>2. OrderInv'
    BY <1>13 DEF SurfaceDestroyed, LockInv, OrderInv, ViewOK, ThreadsOK, SurfaceOK,
       OutputOK, Syncs, At, GoTo, fields, call, threads, surface, output
  <2>3. SizeInv'
    BY <1>13 DEF SurfaceDestroyed, LockInv, SizeInv, ViewOK, LooperOK, ThreadsOK,
       OutputOK, At, GoTo, fields, call, threads, surface, output
  <2> QED
    BY <2>1, <2>2, <2>3
<1>14. ASSUME Wipe PROVE LockInv' /\ OrderInv' /\ SizeInv'
  <2>1. LockInv'
    BY <1>14 DEF Wipe, LockInv, ThreadsOK, SurfaceOK, Points, At, PublishWrites,
       fields, call, threads, surface, output
  <2>2. OrderInv'
    BY <1>14 DEF Wipe, LockInv, OrderInv, ViewOK, ThreadsOK, SurfaceOK, OutputOK,
       Syncs, At, PublishWrites, fields, call, threads, surface, output
  <2>3. SizeInv'
    BY <1>14 DEF Wipe, LockInv, SizeInv, ViewOK, LooperOK, ThreadsOK, OutputOK, At,
       PublishWrites, fields, call, threads, surface, output
  <2> QED
    BY <2>1, <2>2, <2>3
<1>15. ASSUME NEW t \in Threads, Loop(t) PROVE LockInv' /\ OrderInv' /\ SizeInv'
  <2>1. LockInv'
    BY <1>15 DEF Loop, LockInv, ThreadsOK, SurfaceOK, Points, Step, AfterWhile,
       SeePublished, Newest, fields, call, threads, surface, output
  <2>2. OrderInv'
    <3>1. UNCHANGED <<writes, version, pub, posted>>
      BY <1>15 DEF Loop, fields, surface, output
    <3>2. pc[t] \notin HasRead /\ pc'[t] \notin HasCanvas
      BY <1>15 DEF Loop, Step, AfterWhile, ThreadsOK
    <3>3. \A u \in Threads : u # t => pc'[u] = pc[u] /\ seen'[u] = seen[u]
      BY <1>15 DEF Loop, Step, SeePublished, ThreadsOK
    <3>4. seen'[t] = Newest(seen[t], pub["mRun"])
      BY <1>15 DEF Loop, SeePublished, ThreadsOK
    <3>5. seen'[t] <= Len(writes)
      BY <3>4 DEF OrderInv, Newest, Syncs
    <3> QED
      BY <3>1, <3>2, <3>3, <3>5 DEF OrderInv
  <2>3. SizeInv'
    BY <1>15 DEF Loop, LockInv, SizeInv, ViewOK, LooperOK, ThreadsOK, OutputOK, Step,
       AfterWhile, SeePublished, Newest, fields, call, threads, surface, output
  <2> QED
    BY <2>1, <2>2, <2>3
<1>16. ASSUME NEW t \in Threads, Gate(t) PROVE LockInv' /\ OrderInv' /\ SizeInv'
  <2>1. LockInv'
    BY <1>16 DEF Gate, LockInv, ThreadsOK, SurfaceOK, Points, Step, SeePublished,
       Newest, fields, call, threads, surface, output
  <2>2. OrderInv'
    <3>1. UNCHANGED <<writes, version, pub, posted>>
      BY <1>16 DEF Gate, fields, surface, output
    <3>2. pc[t] \notin HasRead /\ pc'[t] \notin HasCanvas
      BY <1>16 DEF Gate, Step, ThreadsOK
    <3>3. \A u \in Threads : u # t => pc'[u] = pc[u] /\ seen'[u] = seen[u]
      BY <1>16 DEF Gate, Step, SeePublished, ThreadsOK
    <3>4. seen'[t] = Newest(seen[t], pub["surfaceDone"])
      BY <1>16 DEF Gate, SeePublished, ThreadsOK
    <3>5. seen'[t] <= Len(writes)
      BY <3>4 DEF OrderInv, Newest, Syncs
    <3> QED
      BY <3>1, <3>2, <3>3, <3>5 DEF OrderInv
  <2>3. SizeInv'
    BY <1>16 DEF Gate, LockInv, SizeInv, ViewOK, LooperOK, ThreadsOK, OutputOK, Step,
       SeePublished, Newest, fields, call, threads, surface, output
  <2> QED
    BY <2>1, <2>2, <2>3
<1>17. ASSUME NEW t \in Threads, LockCanvas(t) PROVE LockInv' /\ OrderInv' /\ SizeInv'
  <2>1. LockInv'
    BY <1>17 DEF LockCanvas, LockInv, ThreadsOK, SurfaceOK, Points, Step,
       SeePublished, Newest, fields, call, threads, surface, output
  <2>2. OrderInv'
    BY <1>17 DEF LockCanvas, LockInv, OrderInv, ViewOK, ThreadsOK, SurfaceOK,
       OutputOK, Syncs, Step, SeePublished, Newest, fields, call, threads, surface,
       output
  <2>3. SizeInv'
    BY <1>17 DEF LockCanvas, LockInv, SizeInv, ViewOK, LooperOK, ThreadsOK, OutputOK,
       Step, SeePublished, Newest, fields, call, threads, surface, output
  <2> QED
    BY <2>1, <2>2, <2>3
<1>18. ASSUME NEW t \in Threads, EnterMonitor(t) PROVE LockInv' /\ OrderInv' /\ SizeInv'
  <2>1. LockInv'
    BY <1>18 DEF EnterMonitor, LockInv, ThreadsOK, SurfaceOK, Points, Step,
       SeePublished, Newest, fields, call, threads, surface, output
  <2>2. OrderInv'
    BY <1>18 DEF EnterMonitor, LockInv, OrderInv, ViewOK, ThreadsOK, SurfaceOK,
       OutputOK, Syncs, Step, SeePublished, Newest, fields, call, threads, surface,
       output
  <2>3. SizeInv'
    BY <1>18 DEF EnterMonitor, LockInv, SizeInv, ViewOK, LooperOK, ThreadsOK,
       OutputOK, Step, SeePublished, Newest, fields, call, threads, surface, output
  <2> QED
    BY <2>1, <2>2, <2>3
<1>19. ASSUME NEW t \in Threads, Fetch(t) PROVE LockInv' /\ OrderInv' /\ SizeInv'
  <2>1. LockInv'
    BY <1>19 DEF Fetch, LockInv, ThreadsOK, SurfaceOK, Points, Step, VisibleTo,
       fields, call, threads, surface, output
  <2>2. OrderInv'
    <3>1. UNCHANGED <<writes, pub, posted>>
      BY <1>19 DEF Fetch, fields, surface, output
    <3>2. PICK v \in VisibleTo(t) : Fetch(t)!2!(v)
      BY <1>19 DEF Fetch
    <3>3. CASE UNCHANGED <<pc, seen, version>>
      BY <3>1, <3>3 DEF OrderInv
    <3>4. CASE /\ writes[v] # Null /\ seen' = [seen EXCEPT ![t] = v]
               /\ \/ Step(t, "fetch", "leave") /\ UNCHANGED version
                  \/ Step(t, "fetch", "read") /\ version' = [version EXCEPT ![t] = v]
      <4>1. pc[t] = "fetch" /\ pc'[t] \in {"leave", "read"}
        BY <3>4 DEF Step, ThreadsOK
      <4>2. \A u \in Threads :
               u # t => pc'[u] = pc[u] /\ seen'[u] = seen[u] /\ version'[u] = version[u]
        BY <3>4 DEF Step, ThreadsOK
      <4>3. seen'[t] = v /\ seen[t] <= v /\ v <= Len(writes)
        BY <3>4 DEF VisibleTo, ThreadsOK, ViewOK
      <4>4. version'[t] \in {0, v}
        BY <3>4, <4>1 DEF OrderInv, ThreadsOK
      <4>5. pub["canvas"] \in Nat /\ seen[t] \in Nat /\ v \in Nat /\ pub["canvas"] <= seen[t]
        BY <4>1, <3>2 DEF OrderInv, SurfaceOK, Syncs, ThreadsOK, VisibleTo, ViewOK
      <4>6. pub["canvas"] <= seen'[t]
        BY <4>3, <4>5
      <4> QED
        BY <3>1, <3>4, <4>1, <4>2, <4>3, <4>4, <4>6 DEF OrderInv
    <3> QED
      BY <3>2, <3>3, <3>4
  <2>3. SizeInv'
    <3>1. UNCHANGED <<main, size, dispWidth, dispHeight, width, height, posted>>
      BY <1>19 DEF Fetch, fields, call, output
    <3>2. \/ UNCHANGED <<pc, version>>
          \/ Step(t, "fetch", "leave") /\ UNCHANGED version
          \/ Step(t, "fetch", "read") /\ version' = [version EXCEPT ![t] = version'[t]]
      BY <1>19 DEF Fetch, ThreadsOK
    <3>3. pc[t] = "fetch" /\ version[t] = 0
      BY <1>19 DEF Fetch, OrderInv
    <3> QED
      BY <3>1, <3>2, <3>3 DEF SizeInv, Step, ThreadsOK
  <2> QED
    BY <2>1, <2>2, <2>3
<1>20. ASSUME NEW t \in Threads, ReadFrame(t) PROVE LockInv' /\ OrderInv' /\ SizeInv'
  <2>1. LockInv'
    BY <1>20 DEF ReadFrame, LockInv, ThreadsOK, SurfaceOK, Points, Step,
       AfterIOException, fields, call, threads, surface, output
  <2>2. OrderInv'
    <3>1. UNCHANGED <<writes, seen, pub, posted>>
      BY <1>20 DEF ReadFrame, fields, surface, output
    <3>2. \/ UNCHANGED <<pc, version>>
          \/ Step(t, "read", "measure") /\ UNCHANGED version
          \/ Step(t, "read", "leave") /\ version' = [version EXCEPT ![t] = 0]
      BY <1>20 DEF ReadFrame, AfterIOException
    <3>3. pc[t] = "read"
      BY <1>20 DEF ReadFrame
    <3> QED
      BY <3>1, <3>2, <3>3 DEF OrderInv, Step, ThreadsOK
  <2>3. SizeInv'
    BY <1>20 DEF ReadFrame, LockInv, SizeInv, ViewOK, LooperOK, ThreadsOK, OutputOK,
       Step, AfterIOException, fields, call, threads, surface, output
  <2> QED
    BY <2>1, <2>2, <2>3
<1>21. ASSUME NEW t \in Threads, Measure(t) PROVE LockInv' /\ OrderInv' /\ SizeInv'
  <2>1. LockInv'
    BY <1>21 DEF Measure, LockInv, ThreadsOK, SurfaceOK, Points, Step, fields, call,
       threads, surface, output
  <2>2. OrderInv'
    BY <1>21 DEF Measure, LockInv, OrderInv, ViewOK, ThreadsOK, SurfaceOK, OutputOK,
       Syncs, Step, fields, call, threads, surface, output
  <2>3. SizeInv'
    BY <1>21 DEF Measure, LockInv, SizeInv, ViewOK, LooperOK, ThreadsOK, OutputOK,
       Step, fields, call, threads, surface, output
  <2> QED
    BY <2>1, <2>2, <2>3
<1>22. ASSUME NEW t \in Threads, Draw(t) PROVE LockInv' /\ OrderInv' /\ SizeInv'
  <2>1. LockInv'
    BY <1>22 DEF Draw, LockInv, ThreadsOK, SurfaceOK, Points, Step, fields, call,
       threads, surface, output
  <2>2. OrderInv'
    BY <1>22 DEF Draw, LockInv, OrderInv, ViewOK, ThreadsOK, SurfaceOK, OutputOK,
       Syncs, Step, fields, call, threads, surface, output
  <2>3. SizeInv'
    BY <1>22 DEF Draw, LockInv, SizeInv, ViewOK, LooperOK, ThreadsOK, OutputOK, Step,
       fields, call, threads, surface, output
  <2> QED
    BY <2>1, <2>2, <2>3
<1>23. ASSUME NEW t \in Threads, LeaveMonitor(t) PROVE LockInv' /\ OrderInv' /\ SizeInv'
  <2>1. LockInv'
    BY <1>23 DEF LeaveMonitor, LockInv, ThreadsOK, SurfaceOK, Points, Step, Publish,
       fields, call, threads, surface, output
  <2>2. OrderInv'
    BY <1>23 DEF LeaveMonitor, LockInv, OrderInv, ViewOK, ThreadsOK, SurfaceOK,
       OutputOK, Syncs, Step, Publish, fields, call, threads, surface, output
  <2>3. SizeInv'
    BY <1>23 DEF LeaveMonitor, LockInv, SizeInv, ViewOK, LooperOK, ThreadsOK,
       OutputOK, Step, Publish, fields, call, threads, surface, output
  <2> QED
    BY <2>1, <2>2, <2>3
<1>24. ASSUME NEW t \in Threads, UnlockCanvasAndPost(t) PROVE LockInv' /\ OrderInv' /\ SizeInv'
  <2>1. LockInv'
    BY <1>24 DEF UnlockCanvasAndPost, LockInv, ThreadsOK, SurfaceOK, Points, Step,
       Publish, fields, call, threads, surface, output
  <2>2. OrderInv'
    BY <1>24 DEF UnlockCanvasAndPost, LockInv, OrderInv, ViewOK, ThreadsOK, SurfaceOK,
       OutputOK, Syncs, Step, Publish, fields, call, threads, surface, output
  <2>3. SizeInv'
    BY <1>24 DEF UnlockCanvasAndPost, LockInv, SizeInv, ViewOK, LooperOK, ThreadsOK,
       OutputOK, Step, Publish, fields, call, threads, surface, output
  <2> QED
    BY <2>1, <2>2, <2>3
<1>25. CASE UNCHANGED vars
  BY <1>25 DEF vars, LockInv, OrderInv, SizeInv, fields, call, threads, surface, output
<1> QED
  BY <1>1, <1>2, <1>3, <1>4, <1>5, <1>6, <1>7, <1>8, <1>9, <1>10, <1>11, <1>12, <1>13,
     <1>14, <1>15, <1>16, <1>17, <1>18, <1>19, <1>20, <1>21, <1>22, <1>23, <1>24, <1>25
  DEF Next, Calls, Resume, Acquire, Render, Compute, Wait

LEMMA Invariant == Spec => [](TypeOK /\ LockInv /\ OrderInv /\ SizeInv)
<1>1. ASSUME Init PROVE LockInv /\ OrderInv /\ SizeInv
  <2>1. LockInv
    BY <1>1, Names DEF Init, LockInv, InMonitor, HasCanvas
  <2>2. OrderInv
    <3>1. Len(writes) = 1 /\ pub["canvas"] = 1 /\ posted.version = 0
      BY <1>1 DEF Init, Syncs
    <3>2. \A t \in Threads : pc[t] \notin HasCanvas /\ pc[t] \notin HasRead
      BY <1>1 DEF Init, HasCanvas, HasRead, InMonitor
    <3> QED
      BY <1>1, <3>1, <3>2 DEF Init, OrderInv
  <2>3. SizeInv
    BY <1>1 DEF Init, SizeInv
  <2> QED
    BY <2>1, <2>2, <2>3
<1> QED
  BY <1>1, IndStep, TypeCorrect, PTL DEF Spec

(* No frame is drawn with the width of one surface and the height of       *)
(* another: setSurfaceSize and run() exclude each other.                   *)
THEOREM SizeNotTorn == Spec => []SurfaceSizeNotTorn
<1>1. SizeInv => SurfaceSizeNotTorn
  BY DEF SizeInv, SurfaceSizeNotTorn
<1> QED
  BY <1>1, Invariant, PTL

(* What a post shows is a stream given by setSource, and not an older one  *)
(* than what it replaces.                                                  *)
LEMMA PostStep ==
    ASSUME TypeOK, OrderInv, NEW t \in Threads, UnlockCanvasAndPost(t)
    PROVE  \/ UNCHANGED posted
           \/ /\ posted'.version \in 1..Len(writes)
              /\ posted'.version >= posted.version
              /\ writes[posted'.version] # Null
<1>1. CASE version[t] = 0
  BY <1>1 DEF UnlockCanvasAndPost
<1>2. CASE version[t] # 0
  <2>1. pc[t] = "post"
    BY DEF UnlockCanvasAndPost, Step
  <2>2. version[t] = seen[t] /\ writes[version[t]] # Null /\ pub["canvas"] <= seen[t]
    BY <1>2, <2>1 DEF OrderInv, HasRead, HasCanvas
  <2>3. /\ version[t] \in Nat /\ pub["canvas"] \in Nat /\ posted.version \in Nat
        /\ Len(writes) \in Nat
    BY DEF TypeOK, ThreadsOK, SurfaceOK, OutputOK, ViewOK, Syncs
  <2>4. posted'.version = version[t]
    BY <1>2 DEF UnlockCanvasAndPost
  <2>5. version[t] <= Len(writes) /\ posted.version <= pub["canvas"]
    BY <2>2 DEF OrderInv
  <2> QED
    BY <1>2, <2>2, <2>3, <2>4, <2>5
<1> QED
  BY <1>1, <1>2

(* Every other step leaves the screen alone. *)
LEMMA OtherSteps ==
    ASSUME [Next]_vars, ~ \E t \in Threads : UnlockCanvasAndPost(t)
    PROVE  UNCHANGED posted
<1> USE DEF output
<1>1. CASE Calls
  BY <1>1 DEF Calls, SetSource, SurfaceChanged, StopPlayback, SurfaceCreated, SurfaceHidden,
              ClearStream
<1>2. CASE Resume \/ Acquire
  BY <1>2 DEF Resume, Acquire, ResumePlayback, StopPlayback, Join, CloseStream, ClearSource,
              SetHeight, SetWidth, SurfaceDestroyed, Wipe
<1>3. ASSUME NEW t \in Threads, Render(t) PROVE UNCHANGED posted
  BY <1>3 DEF Render, Compute, Wait, Loop, Gate, Fetch, Measure, Draw, LeaveMonitor,
              LockCanvas, EnterMonitor, ReadFrame
<1>4. CASE UNCHANGED vars
  BY <1>4 DEF vars
<1> QED
  BY <1>1, <1>2, <1>3, <1>4 DEF Next

(* Frames of a replaced stream never come back, for any number of streams  *)
(* set and of render threads left running by setSource.                    *)
THEOREM SourceOrder == Spec => FramesInSourceOrder
<1>1. ASSUME TypeOK, OrderInv, [Next]_vars PROVE posted'.version >= posted.version
  <2>1. posted.version \in Nat
    BY <1>1 DEF TypeOK, OutputOK
  <2> QED
    BY <1>1, <2>1, PostStep, OtherSteps
<1> QED
  BY <1>1, Invariant, PTL DEF Spec, FramesInSourceOrder

(* A step that leaves the screen alone gives the view a stream, takes its  *)
(* stream away, or leaves its streams alone too.                           *)
LEMMA SourceSteps ==
    ASSUME [Next]_vars
    PROVE  \/ \E s \in Streams : writes' = Append(writes, s) /\ UNCHANGED posted
           \/ writes' = Append(writes, Null) /\ UNCHANGED posted
           \/ UNCHANGED writes
<1> USE DEF fields, output
<1>1. CASE Calls
  BY <1>1 DEF Calls, SetSource, SurfaceChanged, StopPlayback, SurfaceCreated, SurfaceHidden,
              ClearStream
<1>2. CASE Resume \/ Acquire
  BY <1>2 DEF Resume, Acquire, ResumePlayback, StopPlayback, Join, CloseStream, ClearSource,
              SetHeight, SetWidth, SurfaceDestroyed, Wipe
<1>3. ASSUME NEW t \in Threads, Render(t) PROVE UNCHANGED writes
  BY <1>3 DEF Render, Compute, Wait, Loop, Gate, Fetch, Measure, Draw, LeaveMonitor,
              LockCanvas, EnterMonitor, ReadFrame, UnlockCanvasAndPost
<1>4. CASE UNCHANGED vars
  BY <1>4 DEF vars
<1> QED
  BY <1>1, <1>2, <1>3, <1>4 DEF Next

(* The view implements the abstract video player: SetSource is Give,       *)
(* ClearSource is Withdraw, the post of a frame is Show, and every other   *)
(* step stutters.                                                          *)
THEOREM Refinement == Spec => ImplementsVideoPlayer
<1>1. Init => Player!Init
  BY DEF Init, Player!Init
<1>2. ASSUME TypeOK, OrderInv, [Next]_vars
      PROVE  [Player!Next]_<<writes, posted.version>>
  <2>1. CASE \E t \in Threads : UnlockCanvasAndPost(t)
    <3>1. UNCHANGED writes
      BY <2>1 DEF UnlockCanvasAndPost, fields
    <3>2. CASE UNCHANGED posted
      BY <3>1, <3>2
    <3>3. CASE /\ posted'.version \in 1..Len(writes)
               /\ posted'.version >= posted.version
               /\ writes[posted'.version] # Null
      BY <3>1, <3>3 DEF Player!Next, Player!Show
    <3> QED
      BY <1>2, <2>1, <3>2, <3>3, PostStep
  <2>2. CASE ~ \E t \in Threads : UnlockCanvasAndPost(t)
    <3>1. UNCHANGED posted
      BY <1>2, <2>2, OtherSteps
    <3> QED
      BY <1>2, <3>1, SourceSteps DEF Player!Next, Player!Give, Player!Withdraw
  <2> QED
    BY <2>1, <2>2
<1> QED
  BY <1>1, <1>2, Invariant, PTL DEF Spec, ImplementsVideoPlayer, Player!Spec
-------------------------------------------------------------------------------
(* The calm of a caller who stops before it sets a source, whose joins     *)
(* wait: at most the thread of the field runs, only while the view         *)
(* streams, and no write of mIn that it may still read is a null.          *)
Live(t)       == ~Terminated(t)
StoppedCalls  == {"join", "close", "clear", "resume"}

Calm ==
    /\ main \in StoppedCalls => ~mRun
    /\ \A t \in Threads : Live(t) => t = thread /\ (mRun \/ main = "join")
    /\ main = "resume" => mIn # Null
    /\ \A t \in Threads : Live(t) => \A v \in VisibleTo(t) : writes[v] # Null

CalmInv == excused \/ (process = "up" /\ Calm)

(* The calls that neither write mIn nor start or stop a thread. *)
LEMMA SurfaceSteps ==
    ASSUME TypeOK, Calm,
           \/ \E n \in Sizes : SurfaceChanged(n)
           \/ SurfaceCreated \/ SurfaceHidden \/ ClearStream
           \/ SetWidth \/ SetHeight \/ SurfaceDestroyed \/ Wipe
    PROVE  Calm'
<1>1. UNCHANGED <<mRun, thread, writes, pc, seen>>
  BY DEF SurfaceChanged, SurfaceCreated, SurfaceHidden, ClearStream, SetWidth, SetHeight,
         SurfaceDestroyed, Wipe, fields, threads
<1>2. main \notin StoppedCalls /\ main' \notin StoppedCalls
  BY DEF SurfaceChanged, SurfaceCreated, SurfaceHidden, ClearStream, SetWidth, SetHeight,
         SurfaceDestroyed, Wipe, At, GoTo, StoppedCalls
<1> QED
  BY <1>1, <1>2 DEF Calm, StoppedCalls, Live, Terminated, VisibleTo

(* A render thread that does not crash only sees newer writes. *)
LEMMA RenderSteps ==
    ASSUME TypeOK, OrderInv, NEW t \in Threads, Render(t)
    PROVE  /\ UNCHANGED <<mRun, thread, main, writes>>
           /\ Live(t)
           /\ \A u \in Threads : u # t => pc'[u] = pc[u] /\ seen'[u] = seen[u]
           /\ seen[t] <= seen'[t]
<1> USE DEF TypeOK, Live, Terminated
<1>1. UNCHANGED <<mRun, thread, main, writes>>
  BY DEF Render, Compute, Wait, Loop, Gate, Fetch, Measure, Draw, LeaveMonitor,
         LockCanvas, EnterMonitor, ReadFrame, UnlockCanvasAndPost, fields
<1>2. Live(t)
  BY DEF Render, Compute, Wait, Loop, Gate, Fetch, Measure, Draw, LeaveMonitor,
         LockCanvas, EnterMonitor, ReadFrame, UnlockCanvasAndPost, Step
<1>3. \A u \in Threads : u # t => pc'[u] = pc[u]
  BY DEF Render, Compute, Wait, Loop, Gate, Fetch, Measure, Draw, LeaveMonitor,
         LockCanvas, EnterMonitor, ReadFrame, UnlockCanvasAndPost, Step, ThreadsOK
<1>4. seen[t] \in Nat /\ \A x \in Syncs : pub[x] \in Nat
  BY DEF ThreadsOK, SurfaceOK
<1>5. \/ UNCHANGED seen
      \/ \E x \in Syncs : SeePublished(t, x)
      \/ \E v \in VisibleTo(t) : seen' = [seen EXCEPT ![t] = v]
  BY DEF Render, Compute, Wait, Loop, Gate, Fetch, Measure, Draw, LeaveMonitor,
         LockCanvas, EnterMonitor, ReadFrame, UnlockCanvasAndPost, Syncs
<1>6. (\A u \in Threads : u # t => seen'[u] = seen[u]) /\ seen[t] <= seen'[t]
  <2>1. CASE UNCHANGED seen
    BY <1>4, <2>1
  <2>2. ASSUME NEW x \in Syncs, SeePublished(t, x)
        PROVE  (\A u \in Threads : u # t => seen'[u] = seen[u]) /\ seen[t] <= seen'[t]
    BY <1>4, <2>2 DEF SeePublished, Newest, ThreadsOK
  <2>3. ASSUME NEW v \in VisibleTo(t), seen' = [seen EXCEPT ![t] = v]
        PROVE  (\A u \in Threads : u # t => seen'[u] = seen[u]) /\ seen[t] <= seen'[t]
    BY <1>4, <2>3 DEF VisibleTo, ThreadsOK, ViewOK
  <2> QED
    BY <1>5, <2>1, <2>2, <2>3
<1> QED
  BY <1>1, <1>2, <1>3, <1>6

LEMMA CalmStep ==
    ASSUME TypeOK, TypeOK', OrderInv, CalmInv, ~excused', [Next]_vars
    PROVE  process' = "up" /\ Calm'
<1> USE DEF TypeOK
<1>0. process = "up" /\ Calm
  <2>1. ~excused
    BY DEF Next, Calls, Resume, Acquire, Render, Compute, Wait, SetSource, SurfaceChanged,
           StopPlayback, SurfaceCreated, SurfaceHidden, ClearStream, ResumePlayback, Join,
           CloseStream, ClearSource, SetHeight, SetWidth, SurfaceDestroyed, Wipe, Loop, Gate,
           Fetch, Measure, Draw, LeaveMonitor, UnlockCanvasAndPost, LockCanvas, EnterMonitor,
           ReadFrame, vars, output
  <2> QED
    BY <2>1 DEF CalmInv
<1>1. ASSUME NEW s \in Streams, SetSource(s) PROVE process' = "up" /\ Calm'
  <2>1. ~mRun /\ ~mRun' /\ main = "looper" /\ main' = "resume" /\ process' = "up"
    BY <1>1 DEF SetSource, At, GoTo
  <2>2. \A t \in Threads : ~Live(t) /\ ~Live(t)'
    BY <1>0, <1>1, <2>1 DEF SetSource, Calm, Live, Terminated, threads
  <2>3. mIn' # Null
    BY <1>1, Names DEF SetSource, mIn, ViewOK
  <2> QED
    BY <2>1, <2>2, <2>3 DEF Calm
<1>2. ASSUME StopPlayback PROVE process' = "up" /\ Calm'
  <2>1. ~mRun' /\ main' = "join" /\ process' = "up" /\ UNCHANGED <<thread, writes, pc, seen>>
    BY <1>2 DEF StopPlayback, At, GoTo, threads
  <2> QED
    BY <1>0, <2>1 DEF Calm, Live, Terminated, VisibleTo
<1>3. ASSUME ResumePlayback PROVE process' = "up" /\ Calm'
  <2>1. mRun' /\ main = "resume" /\ main' = "looper" /\ process' = "up" /\ UNCHANGED writes
    BY <1>3 DEF ResumePlayback, At, GoTo
  <2>2. PICK t \in Threads : /\ thread' = t
                             /\ pc' = [pc EXCEPT ![t] = "loop"]
                             /\ seen' = [seen EXCEPT ![t] = Len(writes)]
    BY <1>3 DEF ResumePlayback
  <2>3. \A u \in Threads : ~Live(u)
    BY <1>0, <2>1 DEF Calm, StoppedCalls
  <2>4. \A u \in Threads : u # t => ~Live(u)'
    BY <2>2, <2>3 DEF Live, Terminated, ThreadsOK
  <2>5. VisibleTo(t)' = {Len(writes)} /\ writes[Len(writes)] # Null
    BY <1>0, <2>1, <2>2 DEF VisibleTo, ThreadsOK, ViewOK, Calm, mIn
  <2> QED
    BY <2>1, <2>2, <2>4, <2>5 DEF Calm, StoppedCalls
<1>4. ASSUME Join PROVE process' = "up" /\ Calm'
  <2>1. Joined /\ UNCHANGED <<mRun, thread, writes, pc, seen, process>>
    BY <1>4 DEF Join, GoTo, fields, threads
  <2>2. main = "join" /\ main' = "close" /\ ~mRun
    BY <1>0, <1>4 DEF Join, At, GoTo, Calm, StoppedCalls
  <2>3. \A u \in Threads : ~Live(u)
    BY <1>0, <2>1, Names DEF Calm, Joined, Live
  <2> QED
    BY <1>0, <2>1, <2>2, <2>3 DEF Calm, Live, Terminated
<1>5. ASSUME CloseStream \/ ClearSource PROVE process' = "up" /\ Calm'
  <2>1. /\ main \in {"close", "clear"} /\ main' \in {"clear", "looper"}
        /\ UNCHANGED <<mRun, pc, process>>
    BY <1>5 DEF CloseStream, ClearSource, Return, At, GoTo, fields, threads
  <2>2. ~mRun /\ \A u \in Threads : ~Live(u)
    BY <1>0, <2>1 DEF Calm, StoppedCalls
  <2> QED
    BY <1>0, <2>1, <2>2 DEF Calm, Live, Terminated
<1>6. ASSUME \/ \E n \in Sizes : SurfaceChanged(n)
             \/ SurfaceCreated \/ SurfaceHidden \/ ClearStream
             \/ SetWidth \/ SetHeight \/ SurfaceDestroyed \/ Wipe
      PROVE  process' = "up" /\ Calm'
  <2>1. process' = "up"
    BY <1>0, <1>6 DEF SurfaceChanged, SurfaceCreated, SurfaceHidden, ClearStream, SetWidth,
       SetHeight, SurfaceDestroyed, Wipe, GoTo
  <2> QED
    BY <1>0, <1>6, <2>1, SurfaceSteps
<1>7. ASSUME NEW t \in Threads, Render(t) PROVE process' = "up" /\ Calm'
  <2>1. /\ UNCHANGED <<mRun, thread, main, writes>>
        /\ Live(t)
        /\ \A u \in Threads : u # t => pc'[u] = pc[u] /\ seen'[u] = seen[u]
        /\ seen[t] <= seen'[t]
    BY <1>7, RenderSteps
  <2>2. \A v \in VisibleTo(t) : writes[v] # Null
    BY <1>0, <2>1 DEF Calm
  <2>3. process' = "up"
    BY <1>0, <1>7, <2>2 DEF Render, Compute, Wait, Loop, Gate, Fetch, Measure, Draw,
       LeaveMonitor, LockCanvas, EnterMonitor, ReadFrame, UnlockCanvasAndPost, Step
  <2>4. \A u \in Threads : Live(u)' => Live(u)
    BY <2>1 DEF Live, Terminated
  <2>5. ASSUME NEW u \in Threads PROVE VisibleTo(u)' \subseteq VisibleTo(u)
    <3>1. seen[u] \in Nat /\ seen'[u] \in Nat /\ Len(writes) \in Nat
      BY DEF ThreadsOK, ViewOK
    <3>2. seen[u] <= seen'[u]
      BY <2>1, <3>1
    <3> QED
      BY <2>1, <3>1, <3>2 DEF VisibleTo
  <2>6. \A u \in Threads : Live(u)' => u = thread' /\ (mRun' \/ main' = "join")
    BY <1>0, <2>1, <2>4 DEF Calm
  <2>7. \A u \in Threads : Live(u)' => \A v \in VisibleTo(u)' : writes'[v] # Null
    BY <1>0, <2>1, <2>4, <2>5 DEF Calm
  <2>8. /\ main' \in StoppedCalls => ~mRun'
        /\ main' = "resume" => mIn' # Null
    BY <1>0, <2>1 DEF Calm, mIn
  <2> QED
    BY <2>3, <2>6, <2>7, <2>8 DEF Calm
<1>8. CASE UNCHANGED vars
  BY <1>0, <1>8 DEF vars, fields, threads, Calm, Live, Terminated, VisibleTo, mIn
<1> QED
  BY <1>1, <1>2, <1>3, <1>4, <1>5, <1>6, <1>7, <1>8 DEF Next, Calls, Resume, Acquire

(* When every setSource follows a stop, joins wait, views are cleared on a *)
(* surface and the stream is well formed, no thread of the process ends in *)
(* an exception: no render thread finds the null that _stopPlayback leaves *)
(* in the racing field mIn.                                                *)
THEOREM NoCrash == Spec => []NoUncaughtException
<1>1. ASSUME Init PROVE CalmInv
  <2>1. process = "up" /\ main = "looper" /\ \A t \in Threads : ~Live(t)
    BY <1>1 DEF Init, Live, Terminated
  <2> QED
    BY <2>1 DEF CalmInv, Calm, StoppedCalls
<1>2. ASSUME TypeOK, TypeOK', OrderInv, CalmInv, [Next]_vars PROVE CalmInv'
  BY <1>2, CalmStep DEF CalmInv
<1>3. CalmInv => NoUncaughtException
  BY DEF CalmInv, NoUncaughtException
<1> QED
  BY <1>1, <1>2, <1>3, Invariant, PTL DEF Spec
===============================================================================
