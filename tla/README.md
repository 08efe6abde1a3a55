# IOTClient in TLA+

IOTClient is an Android application (Java, `src/app`) with in-tree libraries: an MJPEG surface
(`src/mjpeg-view`, Java and a JNI decoder in C over libjpeg 8d, whose sources are built with it), and a chart library
(`src/JNChartLib`, a renamed fork of MPAndroidChart). It logs a user in, lists sensors fetched over
HTTP, draws their history, receives their live values over MQTT, and shows and switches an IP camera.
The repository has no tests of its own logic. The application and the view have no documentation but their
comments; libjpeg comes with its own (`jpeg8d/libjpeg.txt`, `structure.txt`). The findings below quote both.

This directory is kept beside the code: TLA+ modules, the TLC configurations that check them, and
proofs checked by TLAPS. `PROJECT.json` maps every definition to the lines it translates.

## 1. Inventory

| component | state it keeps | operations | what is hard | what makes it correct |
|---|---|---|---|---|
| MJPEG view, default renderer (`MjpegViewDefault`, `MjpegSurfaceView`) | `mRun`, `surfaceDone` (volatile), `mIn`, `thread`, surface size; canvas lock and holder monitor | `setSource`, `stopPlayback`, `clearStream`, the three surface callbacks, `run()` of each render thread | one render thread per `setSource`; `mIn` is read without a lock; a join that gives up after 500 ms; locks held across a network read | frames stay in source order, sizes are whole, a stop returns and ends the threads, the looper gets its locks |
| MJPEG view, native renderer (`MjpegViewNative`) | `mRun`, `surfaceDone` (plain), `suspending`, `mIn`, `thread`, `bmp`, native pixel buffer | the same, plus `freeCameraMemory`, `setResolution` | untimed join on a thread in a network read; plain fields as flags; native memory freed beside its reader | a stop returns when reads end, a stopped view can be resumed, native memory is not used after it is freed |
| MJPEG stream readers (`MjpegInputStreamDefault/Native`) | the buffered stream, its mark, reused buffers | find start and end of sequence, content length, read or skip a frame | a hand-written matcher, lengths relative to different origins, negative results | the frame returned is the frame sent, and the next read starts behind it |
| Stream opening (`Mjpeg`) | credentials, an Rx chain | `open` = defer, connect on io, timeout, observe on main | an answer after the timeout | every opened stream is delivered or closed |
| JNI decoder (`ImageProc.c`) | global pixel buffer, width, height, jmp_buf | `processimage`, `pixeltobmp`, `freeCameraMemory` | global state, `longjmp` out of libjpeg, a loop that only a line given out moves on | a bitmap shows lines of one picture, every call returns |
| Camera page (`VideoFragment`) | view, error page, `socket`/`in`/`out` shared by control threads, network receiver | `loadIpCam`, switch on, switch off, network change, destroy | several opens in flight, answers out of order, two control threads on one set of fields | what is visible agrees with what is playing; a command goes to the connection it was meant for |
| MQTT service (`MQTTService`) | `client`, receiver, singleton event beans | start, connect, subscribe, message, connection lost, network broadcast, destroy | failures that end the retry loop; a second start replaces the client | connected again after an outage; a connected client is subscribed |
| Live readings (`ShowTempInfoActivity`, `ShowSensirInfo`, EventBus) | the series on the chart, the singleton bean | `onEvent`, initial load | messages of other devices, the initial answer racing live ones | a chart shows values of its device, each once, in order |
| Sensor pages (`Temperature/Sensirion/Door/GPSFragment`) | list, adapter, `UploadSuccess`, dialog | refresh, load more, click | busy wait beside an asynchronous answer; late answers; flags never reset | the list shown is the list clicked; a failed refresh is reported; no dialog stays |
| History pages (`History*Activity`) | list or error page, dialog | load, render | the same, and views hidden and not shown again | a page that loaded shows its list |
| Login and registration (`LoginActivity`, `LoginService`, `RegisterActivity`, `RegisterAction`) | entered account, dialog, saved credentials | click, answer, failure | answers to an earlier click; several commits for one fact | saved credentials were accepted together |
| Preferences and splash (`Sputil`, `SplashActivity`) | the preference file | put, delete, clear, first-run test | a crash between two commits, one file for two purposes | the file is not left half written |
| Main screen (`MainActivity`) | tabs, exit timer | tab switch, back, start of the MQTT service | start of an already started service | one main page |
| Helpers (`RecyclerViewClickListener`, `ReplaceViewHelper`, `HttpUtils`) | gesture flags, replaced view, http client | touch, replace, send | order of callbacks | one event per gesture; a removed view comes back in its place |
| Chart library (`src/JNChartLib`) | data sets, viewport matrices, animation, gestures | add/remove entry, zoom, drag, highlight, approximate | incremental min/max, clamping | bounds agree with the data, the viewport stays inside its limits |
| libjpeg 8d (`jni/jpeg8d`) | decompressor state (markers, tables, scans, coefficients, rows of the output), the state of entropy coders between MCUs | the calls of the API; Huffman and arithmetic coding, both ways; discrete cosine transforms of all sizes | suspension at any byte, several scans, buffered images, two passes over stored pictures, damaged data, hand-scheduled arithmetic | lines come out in order and once, calls return, output never overtakes input; what is coded is decoded again, faults stay where they are |

How they interact: `SplashActivity` starts `LoginActivity`, whose success starts
`MainActivity`, which starts `MQTTService`. `Mjpeg.open` delivers a stream on the main thread to `VideoFragment`, which gives
it to the view; the view starts a render thread that pulls frames from the stream reader (and, in the
native renderer, the JNI decoder, which is an application of libjpeg). `SurfaceView` calls the view back on the main thread. `MQTTService`
posts beans on EventBus to the pages. The pages fetch lists with OkHttp callbacks and `AsyncTask`s.

## 2. What is modelled

Each module translates one component; `PROJECT.json` maps every definition to its lines. Operators whose
name ends in what goes wrong (`VisibleToStale`, `JoinedAlways`, ...) are mutants: plausible bugs, each
placed before the definition it replaces, that show that a property depends on the code it is about.

### `MjpegViewDefault` (with `MjpegViewDefaultProofs`, `VideoPlayer`)

The looper and every render thread as processes. The looper's methods are cut where the render threads
can interleave: `SetSource` / `ResumePlayback`; `StopPlayback` / `Join` / `CloseStream` / `ClearSource`;
`SurfaceChanged` / `SetWidth` / `SetHeight`; `SurfaceHidden` / `SurfaceDestroyed`; `ClearStream` /
`Wipe`. A render thread goes through `Loop`, `Gate`, `LockCanvas`, `EnterMonitor`, `Fetch`, `ReadFrame`,
`Measure`, `Draw`, `LeaveMonitor`, `UnlockCanvasAndPost`, one step for each access to shared state.

`mIn` is a plain field that several threads use, so a read of it is modelled as the Java memory model
allows: `writes` is the history of the field, `seen[t]` the newest write ordered before thread `t`
(by the volatile fields, the two locks, or `Thread.start`), and a read returns any write from there on, but
none older than the thread has read before: the virtual machines that run this keep to that, although the
language promises it of volatile fields only.
The stream itself is external: a read gives a frame, an `IOException`, or something `readMjpegFrame` does
not survive. An uncaught exception in any thread ends the process. `excused` is a history variable that
records the circumstances in which this may happen. `MCMjpegViewDefault` adds a bound for model checking.

`VideoPlayer` is the abstract specification: streams are given and withdrawn, and frames shown are of
given streams and never of an older stream than the frame they replace. `MjpegViewDefault` implements it
with `given <- writes` and `shown <- posted.version`.

### `MqttService` (with `ServiceProofs`)

The service object, its static `client`, and what Paho does for it: `Start` (`onStartCommand`), `Destroy`,
the results `OnSuccess` / `OnFailure` / `ConnectionLost`, and the broadcast receiver `OnReceive`, all run by
the main thread from `inbox`; `Connect`, `Accept`, `Fail`, `Lose` are Paho's thread. All clients of the
service have one server and one client id, hence one connection, and every client that ever connected
(`bound`) gets every result. A client that is used before it is bound throws what nobody catches.
`hurried` records that the service was started before the last start was dealt with, or was stopped.

### `Account` (with `ServiceProofs`), `MCMqttService`

The pages before the main page: `Launch`, `HandleSplash`, the clicks and answers of login pages, `Logout`, and
`Dies`, which keeps the preference file and nothing else. `stack` holds the activities; the system puts a page
there when it is started, before it is created. `onResponse` translates `LoginService` with the two
callbacks. The file gets one commit per key, so `Dies` may come between two. The history variables: `accepted`
(users whose login the server accepted), `torn` (the process died between the commits of the last success),
`reused` (login pages that were used while one of their logins waited), `unsent` (the file is of such a page),
and `strays` (successes that came when their page was finished or left).

The service sees of the pages only that it is started, and a process that dies leaves only the file and a
service that starts anew; the two share no variable. `MCMqttService` explores behaviours of the one and of the
other rather than their interleavings.

### `VideoPage` (with `VideoPageProofs`)

The camera page and `Mjpeg.open`. `inbox` holds, in order, what the main thread will handle: answers of
loads, messages of the control threads, network broadcasts. Each `loadIpCam` is an open of its own that is
answered in time (`OpenReturns`), by the timeout (`Timeout`), or too late (`ConnectLate`, a stream that Rx
drops). `SurfaceView` is external: hiding the view or covering the window stops it. The messages of the
control threads are free in this module, so what holds of it holds for any order of clicks.

### `CameraControl` (with `CameraControlProofs`)

The threads that switch the camera on and off. Each goes through the script of its `run()`, one access to a
shared field at a time. `socket`, `out` and `in` are plain fields without a lock: `visible[f][t]` is the set
of values thread `t` may find, its own last write and every write of another thread since. `Close` and
`Shutdown` (`socket.close(); socket.shutdownInput()`) and `Check` each read `socket` again, so that any of them
may meet the socket of another command; what a socket answers then depends on its `state`. The server is
external: it answers what it receives on a connection in order, each answer in up to `Parts` parts, or closes
it. `Read` takes whatever has arrived, or the end of the stream, which the code does not tell from an answer:
`silent` counts those. `overlapped` and `cut` record whether commands overlapped and whether the server closed
a connection.

### `VideoFragment`

Extends `VideoPage` and `CameraControl`, which share no variable, and composes them: a click is possible when
its button is reachable, and a step of a control thread that posts a message is also the step of the page that
receives it. The user of this composition waits until nothing moves before the next click. `MCCameraPage`
explores in one run behaviours of the page alone, of the threads alone, and of this composition.

### `MjpegInputStream` (with `MjpegInputStreamProofs`), `MCMjpegInputStream`

Both stream readers. A `stream` has its bytes, the places of its pictures, and says whether the headers give
lengths; `reader` is the place in the stream, the mark, the length of the last picture and what the last call
gave or threw. One action is one call of `readMjpegFrame` by the render thread: the searches it makes, `mark`,
`reset` with the limit of the buffer, and every exception, after which the next call goes on from where the
reader is left. What a camera may send is the constant `Streams`: `StreamsAssumption` says where the markers of
a picture are (`Separated`) and how its end is known, by a length (`Measured`) or by the marker (`Delimited`).
`MCMjpegInputStream` makes such streams of three pictures, on which `MCJpegAlgorithms` runs the readers beside the
algorithms below.

### The algorithms of libjpeg

Pure algorithms, written as operators and checked over sets of inputs:

- `JpegInverseDct`, `JpegForwardDct`: the transforms of all 31 sizes that the library scales to and from, with
  its constants and shifts, and the two fast variants. Both were compared with the compiled library, value by
  value, while they were written.
- `JpegHuffmanTables` (`jpeg_gen_optimal_table`, derived tables), `JpegHuffmanEncoder`, `JpegHuffmanDecoder`:
  sequential and progressive scans, refinement passes with end-of-block runs and buffered correction bits, and a
  decoder whose source may run dry at any byte, so that the MCU is undone and decoded again.
- `JpegArithmeticModel`, `JpegArithmeticEncoder`, `JpegArithmeticDecoder`: the probability estimation and both
  sides of the coder (`jaricom.c`, `jcarith.c`, `jdarith.c`).
- `JpegRestarts`: restart markers, and resynchronisation after lost, repeated or damaged ones.
- `MCJpegAlgorithms` chooses a case and states the properties. `Encode`, `Decode`, `ForwardDct`, `InverseDct`
  and `OptimalTable` are constants there, so that a table of results is computed once; the configuration gives
  them the library's algorithms.

These modules use `RECURSIVE` operators, as the library's loops ask for, and no theorem is about them.

### `JpegInput`, `JpegOutput`, `JpegDecompress` (with `JpegDecompressProofs`)

The decompressor. `JpegInput` is the marker reader and the input controller (`jdmarker.c`, `jdinput.c`): it
takes one unit of the file at a time, a marker or the data of an iMCU row, and suspends before any of them.
`JpegOutput` is the way from stored or fresh coefficients to lines: coefficient controller, main and
post-processing controllers, upsampling with and without merging, and colour quantization in one or two
passes. `JpegDecompress` is the API (`jdapimin.c`, `jdapistd.c`, `jdmaster.c`): each call sets `call`, which
the steps of the library carry out, and what one may call next depends on `global_state`. Sizes, factors and
the order of events are kept; samples are not: a line is known by its number and the state of the scan it
was made from.

### `ImageProc`, `MjpegViewNative` (with `MjpegViewNativeProofs`), `MCJpegDecoder`

`ImageProc` is an application of `JpegDecompress`: `processimage` and `pixeltobmp` with their exits, among them
the `longjmp` out of any call of the library, and the array that is kept between pictures. `MjpegViewNative`
extends it with the view: the looper's methods and the render thread, which calls the decoder for each
picture. Its flags are plain fields: a thread that found `surfaceDone` false in its loop need never look
again (`"spinning"`), a read that the server never answers does not end (`"waiting"`), and an exception that
`run()` does not catch ends the process (`UncaughtException`), as may the two places where `ImageProc` uses
memory that it does not have (`CopyLine` below the array, `CopyToBitmap` without one). `MCJpegDecoder` starts
either with a free application, which makes any legal sequence of calls on one of the given files, or with the
native view.

## 3. Runs

| run | module | checks | bounds |
|---|---|---|---|
| `view_default` | `MCMjpegViewDefault` | `TypeOK`, `SurfaceSizeNotTorn`, `NoUncaughtException`, `ImplementsVideoPlayer`; `StopReturns`, `LooperReturns`, `ThreadsEndWhenStopped` | 2 streams; where the surface has a size, 1 stream and 1 size beside the initial one |
| `view_default_leak` | `MjpegViewDefault` | violates `StopClosesTheConnection` | 2 streams |
| `mqtt_connection` | `MCMqttService` | `TypeOK`, `SubscriptionPursued`, `NoUnboundClient`, `AttemptsGoOn`; `SavedWereAccepted`, `PagesDoNotPileUp` | 3 starts, 3 messages waiting; 2 users, 3 login pages and 2 clicks a process, 1 death |
| `mqtt_lost` | `MqttService` | violates `ReconnectsAfterLoss` | 1 start |
| `control_threads` | `CameraControl` | `LoginFirst`, `AnswersBackSuccesses`, `NothingLeftOpen` | 3 clicks in sequence, answers in 2 parts; or 2 clicks that overlap, answers in one part |
| `camera_page` | `MCCameraPage` | `TypeOK`, `QuietPageAgrees`, `ErrorOverVideoEnds` of the page; `CommandsEnd` of the control threads; `OffStays` of both together | 4 opens, bursts of 2, 2 messages waiting, api level 21; 2 clicks in sequence, answers in 2 parts; together 1 message waiting, answers in one part, no window over the page |
| `control_overlap` | `CameraControl` | violates `SendsWhenConnected` | 2 clicks |
| `jpeg_algorithms` | `MCJpegAlgorithms` | `OptimalTableIsComplete`, `SequentialRoundTrip`, `ProgressiveRoundTrip`, `FaultsStayInTheirInterval`, `InverseDctIsAccurate`, `ForwardUndoesInverse`; `EachCallGivesThePicture`, `NoByteTwice` of the stream readers | the sets of cases in the module, `MAX_EOBRUN` 2, `MAX_CORR_BITS` 65; streams of 3 pictures, headers of 0 to 4 lines beside the length, `FRAME_MAX_LENGTH` 16 |
| `fdct_12_14` | `MCJpegAlgorithms` | violates `ForwardUndoesInverseAt12And14` | blocks 12 and 14 wide |
| `jpeg_decoder` | `MCJpegDecoder` | `LinesInOrder`, `StoppingCanFinish`, `InSyncPassIsFinal`, `OutputKeepsBehindInput`, `FirstTableKept`, `CallsReturn` of the library; `BitmapIsOnePicture`, `PictureReturns` of `ImageProc`; `OneRenderThread`, `DrawsOnASurface`, `StopReturns` of the view | 2 table slots, files of at most 3 iMCU rows, 4 lines, bitmap of 2 lines, 2 sources, feeds of 2 pictures |
| `jpeg_decoder_tall` | `MCJpegDecoder` | violates `StopsAtTheBottom` | one file with strips of 3 lines, 5 lines |
| `jpeg_decoder_requested` | `MCJpegDecoder` | violates `RequestedPassIsFinal` | one file with a scan per component, buffered-image mode |

Why the bounds are enough:

- *View.* Two streams give two render threads on one field, a replaced stream beside a stopped one, and up to
  five writes of `mIn`. One size beside the initial one is enough to tear a size; symmetry over threads is
  not used because threads are ordered by creation. What the run shows of safety is also proved for every
  number of streams. Where the surface has a size there is one stream only (`SizedSources`), which keeps the
  graph small enough for what must eventually happen: the resize waits for the monitor only, which is held only
  by a thread that holds the canvas, and waits for the canvas are there with two streams too.
- *MQTT.* Three starts give a client that was replaced twice; three messages let a success, a loss and a
  success of different connections wait together. The connection comes and goes without a bound.
- *Control.* Two overlapping commands share three fields with every stale value; a third command in sequence
  shows what two earlier ones leave behind. Two parts are enough for a read that takes less than an answer, one
  and a piece of the next, or both. No behaviour has both an overlap and a connection closed by the server, or
  answers in parts (bounds, named in the guards of `Click`, `Reset` and `Answer`). The three properties are also
  proved for every number of clicks and parts.
- *Page.* Four opens allow two loads in flight with a burst and an answer of each kind out of order. Safety
  is proved without the bound, and for api levels below 21, where the receiver hides the error page at once.
- *Account.* Two users make a pair that no login had; two clicks a process let answers overlap, and a third
  login page comes from a logout or a new start beside them. Safety is proved without the bounds.
- *Streams.* Three pictures are a first one, one between others, and a last one, which the native reader need
  not find. `FRAME_MAX_LENGTH` is 16, so that there are pictures longer than the buffer. Both properties are
  also proved for every stream and buffer.
- *Algorithms.* The counters whose limits matter are lowered (`MAX_EOBRUN`, `MAX_CORR_BITS`) so that they are
  reached. Blocks are chosen for what the coders tell apart: zero runs, signs, sizes of values, bands,
  successive approximation. The DCTs are exercised on single coefficients and on extreme blocks of every size.
- *Decoder.* Three iMCU rows are a first, a middle and a last one, the last one partial; two scans and two
  slots let a table be redefined between scans; strips and pictures are small, but each sampling and scaling
  has a file of its own. What the runs show of the view and of the tables is also proved without bounds.
- *Page and threads together.* Two clicks allow on after off and off after on. One message waiting is enough,
  because the user waits until nothing moves before the second click, which he does not make once a window was
  over the page; `OffStays` is also proved without these bounds.

`CHECK_DEADLOCK FALSE` is set where a behaviour may stop: an uncaught exception ends the process, or the
clicks and opens of the bound, or the pictures of a stream, are used up. A case of `jpeg_algorithms` is chosen
in a step or two, and that is all.

## 4. Fairness

- *View.* `Scheduling`: weak fairness for what a thread does alone, strong fairness for taking a lock (a
  mutex that is freed again and again is granted in the end; Android's scheduler and its locks are not
  starvation-free in theory, and this is the only assumption that goes beyond "every thread runs").
  `ClosedReadsEnd`: a read on a stream that is closed ends. That the *server* answers is not assumed by
  `FairSpec`: the connection has no read timeout. `LooperReturns` and `ThreadsEndWhenStopped` therefore state
  it as a premise (`NetworkAnswers`), and `StopReturns` does without, which is what the 500 ms of the join
  are for. Thread 0 is never started and has no fairness.
- *MQTT.* The main thread and Paho's thread run; an attempt is answered; a broker asked again and again
  accepts in the end (strong fairness of `Accept`); a dead link is noticed by the keep-alive. The network is
  free to go for good.
- *Page.* The main thread runs, and as long as opens can time out, one does. Connections need not be answered.
- *Control.* As long as a thread can run, one does, and the server answers what it received, on some
  connection first, unless it closes the connection; which thread or connection goes first is left open. Of
  overlapping commands one may wait for good for an answer the other one took; `CommandsEnd` says so.
- *Account.* None: nobody has to use a page, and the properties are safety.
- *Decoder.* A call that was made is carried out, so the library goes on within a call; the application may
  stop calling. In the native view the decoder, the render threads and a join go on while the process lives.
  The server need not answer: a thread whose read it leaves without an answer is `"waiting"` for good, and a
  looper that joins it never comes back, because that join has no timeout. `StopReturns` says that nothing else
  keeps it, but for a decode that does not end and a flag that is not read again. After an exception on the main
  thread the others go on until the process ends.

## 5. Proofs

All theorems hold for every value of the constants that satisfies the named assumptions (`MaxSources` a
natural number, `Sizes` a set of natural numbers, and so on): no bound of a run remains in them.

- `MjpegViewDefaultProofs`. `TypeCorrect` first. The other theorems need more than the properties: the
  inductive invariant is `LockInv` (program counters and lock holders agree, so each lock has one holder),
  `OrderInv` (whoever holds the canvas sees at least the write whose frame is on the screen: this is the
  happens-before edge through the canvas lock, and why a racing field cannot bring an old stream back) and
  `SizeInv` (outside the monitor the two size fields agree). From it `SizeNotTorn`, `SourceOrder` (an action
  property, `FramesInSourceOrder`, which the run checks as part of `ImplementsVideoPlayer`) and `Refinement`
  (`SetSource` is `Give`, `ClearSource` is `Withdraw`, the post is `Show`, every other step stutters).
  `NoCrash` (`NoUncaughtException`, with the exceptions that `excused` records, see 6) adds `Calm`: of a caller who stops before it sets a source, at most the
  thread of the field runs, only while the view streams, and it can find no null in `mIn`.
- `ServiceProofs`, of `MqttService`. `TypeCorrect` with `Idle` (nothing happens before the first start, so
  the client a callback uses exists). `Subscription`: `SubscriptionPursued` is inductive together with "no
  subscription without a connection"; the proof is about what the queue still holds when a message is taken.
  `BoundWhenUsed` proves `NoUnboundClient` from `PatientInv`: while no start was hurried only the newest
  client asked for an attempt, and it is bound before one can succeed.
- `VideoPageProofs`. `TypeCorrect` with `InTime` (a stream in the queue was opened in time and stays so), which
  makes "a stream that plays was opened in time" inductive. `QuietAgreement` from `Agreement`: a view without
  its video or under the error page has a load under way or an answer waiting.
- `CameraControlProofs`. `Login` (`LoginFirst`) and `Closed` (`NothingLeftOpen`), for every number of clicks, as
  long as no two commands overlapped. The invariant `InTurn` is about the places of a script: one thread runs
  (`Alone`); once it made its socket it finds that socket only, later writes to the stream of that socket, has
  logged in on it and sent its command there (`OwnSocket`); and nothing is received before the login
  (`Logins`). `Closing` adds that a thread which posted its success closes next, or has closed.
  `EachItsAnswer` (`AnswersBackSuccesses`) holds for overlapping commands too, and when `shutdownInput` hits the
  socket of another command: the invariant `Counted` compares the finite set of successes with the finite set of
  parts taken and with the reads that were silent, and has room for a thread that has read and not posted yet
  (`HeardOnce`, `HeardTwice`).
- `VideoFragmentProofs`. `ImplementsControl` and `ImplementsPage`: the page with the threads of its buttons is a
  `CameraControl` and a `VideoPage`, so what is proved of the two is true of the composition. Each step of the
  composition is a step of one and a step or a stutter of the other. `StaysOff` (`OffStays`): the invariant `PatientInv` says that no load is under way while a command runs, nor after one that switched the
  camera off (`NoLoad`), and that the page is dark then, or will be with a message that waits (`Dark`).
- `ServiceProofs`, of `Account`. `SavedAccepted` and `PagesCounted` from one inductive invariant, `AccountInv`:
  types; the fields of a page are those of its login that waits, unless the page was used again
  (`FieldsWereSent`); what the file has is of accepted users, unless it is of such a page; and pages are counted
  against `strays`. The lemmas before it say what `finish` and `startActivity` do to the length of
  the stack (`FinishedLength`, `Replaced`). The only assumption is that the empty text is no user.
- `MjpegInputStreamProofs`, for every stream and buffer of `StreamsAssumption`. `PictureByPicture`
  (`EachCallGivesThePicture`): the invariant `ReaderInv` says that a reader which gave its pictures so far stands
  behind the last one, by no more than a header (`BehindThePicture`), and remembers its length. It is what the
  property needs of the call before: a byte too many is allowed, because the next search still meets the next
  marker first. The matcher is a recursive function over the bytes; that it finds exactly the first place where a
  sequence ends (`SeqIndexEquation`, `Matcher`, `LookFinds`) takes induction, which the module gets from the
  library's theorem that finite sets are well-founded (`WellOrdered`, `Induction`: for sets of numbers, so no
  operator is a parameter). `EachByteOnce` (`NoByteTwice`) needs none of this and nothing of the markers: every
  search, `reset` and skip stays between the mark and the end of the stream (`Within`), and a picture is read
  from there (`GoesOn`).
- `JpegDecompressProofs`, for every stream, sampling factor, size, scale and sequence of calls.
  `StreamsAssumption` and `SettingsAssumption` give the units and parameters their types: `get_sof` refuses an
  empty picture or one without components, and `initial_setup` factors that are not 1..4, before anything of
  the model depends on them. `FirstTable`: the table of a component's first scan stays the component's
  (`FirstTableKept`), because nothing is latched before a scan is set up (`NoTableBeforeScans`). `InputFirst`
  (`OutputKeepsBehindInput`): the invariant `InputInv` says how far the arrays are filled by the scan that is
  coming in, block row by block row (`Filled`), and that an array is as high as its component (`Arrays`).
  `LastPassIsFinal` (`InSyncPassIsFinal`), of every pass but the two kinds that `premature` records: the
  invariant `PassInv` says of each row already shown that the blocks it was made from are those of the arrays,
  unless a later scan than the one shown has begun, and that the tables of the inverse DCTs are those saved
  (`Tables`, `Passing`, `InSync`, `ShownIsKept`); `Phases` says which calls each state allows. `PictureInOrder`
  (`LinesInOrder`): the invariant `LineInv` counts the lines of each iMCU row through the main buffer, the row
  groups, the upsampler with its spare row and the strips (`NextLine`, `LinesOfGroup`, `InStrips`), by the facts
  about rounding quotients at the head of the module. It leaves out the second of two passes when it goes
  through strips of three lines or more (`TallStrips`): there the property is false, as `jpeg_decoder_tall`
  shows. `CanFinish` (`StoppingCanFinish`) adds `OnePass`: as long as input and output go in step, an iMCU row
  still to be read has lines still to be given out, so no picture is finished before its data are read. The step
  inside the calls and the state of a new object are stated for any application (`PictureStays`,
  `InitialPicture`), not just for the one of `Spec`.
- `MjpegViewNativeProofs`. `OneThread` and `SurfaceWhenDrawn`: `NativeInv` joins the types with `OnlyTheField`
  (whatever thread lives is the one of the field), `StoppedWhenSuspended`, `FlagIsTrue` and `SurfaceStays` (the
  surface goes only after the render thread that may draw on it was joined). `OnePicture` (`BitmapIsOnePicture`)
  uses what is proved of the decompressor on a second application, `ImageProc.c`: its invariant `ImageInv`,
  which holds while the process lives (`LivingInv`), keeps `PictureInv` in every step of `processimage`
  (`PictureByImage`), says which call can be under way where (`Turns`), and that the loop over the rows and
  `output_scanline` go in step (`InStep`), unless the data ended (`OutOfData`, in which the loop stays); so the
  line read last is the one the row wants, and the array holds the rows of the new picture above those of the
  last whole one (`ArrayRows`). An error comes before the first line, because a picture of one scan has no
  markers to read between its rows, and of one of several all scans are in before the loop (`Prepared`). It
  assumes `FeedsAssumption` (the pictures of a camera are of one height, which the bound `MAX_Y` on counted rows
  admits; an array of another height is too small or too large, see 6) and `BoundAssumption`.

Only model-checked: all liveness (fairness is out of the prover's reach), and the algorithms of
`jpeg_algorithms`, which are written with `RECURSIVE` operators (the prover has no SMT backend beside those, and
no induction over the data that the coders and transforms work on). Every other property that a passing run
checks is a theorem; those whose definitions make exceptions are theorems with these.

## 6. Findings

- `view_default_leak`: `stopPlayback` closes only the last stream. `setSource` on a view that streams
  overwrites the first one, although the comment in `_stopPlayback` is "close the connection".
- `mqtt_lost`: `connectionLost` does nothing, although its comment is "connection lost, reconnect". A broker
  that drops the connection while the network stays is not connected to again.
- `control_overlap`: a second click puts an unconnected socket under a command that runs, although a comment
  says that a message is sent only after connecting.
- `fdct_12_14`: in the forward DCT of blocks 12 or 14 samples wide one term of the row pass is not scaled as the
  others are, so one coefficient is wrong by a factor.
- `jpeg_decoder_tall`: `post_process_2pass` bounds the rows of the last strip without those it has already given
  (`jdpostct.c:224`), although its comment is "We have to check bottom of image here". Strips of three rows or
  more, and calls for different numbers of lines, give a line below the picture.
- `jpeg_decoder_requested`: `start_pass` in `jddctmgr.c` leaves the multipliers of a component without a table at
  zero, and its comment says that the coefficients are zero as well. By the time the pass uses them they need not
  be: an application that asks for a scan to come, as `libjpeg.txt` allows (1967-1973, 2056-2058), is shown a
  component of that scan as if it were empty, although the whole file is in when the pass is done.

A picture whose data end early is no run's subject, but `libjpeg.txt` speaks of it: a source that has no more data
should stop with an error or make up an end marker (1579-1586, 1715-1722). `memory_fill_input_buffer`
(`ImageProc.c:37`) returns `FALSE` instead, which means that more will come. `jpeg_read_scanlines` then gives no
line, and the loop of `processimage`, which looks at `output_scanline` only, repeats it for ever; each round writes
to a row further below the array. The model has this loop, and `PictureReturns` takes it out by its premise `Ends`.

Circumstances that no text of the repository speaks of, so no run is about them; where a model contains one, a
history variable, a guard or a premise named here sets it apart:

- `MjpegViewDefault`: what may end the process (`excused`): a source set on a view that streams, a surface cleared
  when there is none, a join that gives up after 500 ms while the thread is about to read the field that is then
  cleared, and a part of the stream without a frame;
- `MjpegViewNative`: a second start of a thread object, an exception of the reader that is no `IOException`, and
  the joins that wait for a server that does not answer (`"waiting"` in `StopReturns`);
- `MqttService`: a start that leaves the one before no time, or a stop, makes a callback use a client that Paho does
  not know, and the exception ends the process (`hurried`);
- `VideoPage`: an answer to a load after the page was destroyed, an answer to an earlier load after the camera was
  switched off, which shows the video again (the user of `OffStays` waits), and a window over the page, after
  which the video does not come back;
- `CameraControl`: `shutdownInput` of one command on the socket that another has just connected, whose success then
  has no answer behind it (`silent` in `AnswersBackSuccesses`);
- `Account`: a login page used again while its login waits saves a pair that was not sent (`unsent`); one that is
  finished or left before the answer opens a main page beside what is there (`strays`); and a process killed between
  the two commits remembers a new name beside an old password, though both of accepted users (`torn`);
- clearing the preference file also clears the note of the first run; both branches of the splash page do the
  same, so nothing comes of it;
- the native reader, without lengths in the headers, loses a picture that is less than half as long as the one
  before, and both matchers miss a marker behind a fill byte (premises of `EachCallGivesThePicture`);
- pictures of another size than the first; an array that `freeCameraMemory` released, where the next picture fails
  before its lines, so that `pixeltobmp` copies from no array; `freeCameraMemory` beside a decode has no caller;
  `my_jpeg_load_dht` overwrites tables of the stream;
- `jpeg_start_output` called again for another scan after it ran out of data, although rows were shown or a
  component had no table: the pass goes on with what it was set up for (the other kind of `premature`).

## 7. Not modelled, and what is left

- Sensor and history pages, and live readings. Seven copies of one page: a task that waits 4.5 s beside the
  request it sends, on flags and lists without a lock. `PROJECT.json` lists what may go wrong there; a next
  module, `SensorPage`, would have the task, late answers, `UploadSuccess`, the list and its adapter, with the
  history pages as a second instance, and `messageArrived` with the chart series beside it.
- Registration (it keeps nothing), the turning of a login page with the screen, pages opened from the drawer.
- Of libjpeg: the compressor around its algorithms, transcoding, colour conversion and quantization as
  arithmetic, external colour maps, the parameters of restart and conditioning markers in `JpegInput`
  (`JpegRestarts` and the arithmetic coder have them), raw data output, the memory manager, and the command
  line programs. The context-row main controller is dead code here: nothing sets `need_context_rows`
  (`jdsample.c:308`, `jdmerge.c:379`).
Not planned: the chart library (a renamed fork of MPAndroidChart: drawing and floating point,
single-threaded), adapters, beans and utilities without state, the appearance of the view (overlay, colours,
flipping, display modes), TLS, and the layouts.
