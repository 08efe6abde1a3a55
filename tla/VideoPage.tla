------------------------------- MODULE VideoPage -------------------------------
(***************************************************************************)
(* The camera page (VideoFragment.java) and the opening of its streams     *)
(* (Mjpeg.java): what is visible, which stream the view plays, and the     *)
(* answers, handler messages and broadcasts that change it, in the order   *)
(* the main thread takes them.                                             *)
(*                                                                         *)
(* Every loadIpCam is an open of its own: a connection made on an io       *)
(* thread, with a timeout of 2 seconds, answered on the main thread.  None *)
(* is ever cancelled.  SurfaceView is external: setVisibility makes or     *)
(* destroys its surface at once, and a destroyed surface stops the view    *)
(* (MjpegViewDefault._surfaceDestroyed).                                   *)
(***************************************************************************)
EXTENDS Naturals, Sequences, FiniteSets

CONSTANTS
    MaxOpens,   \* bound: how often loadIpCam is called
    Burst,      \* bound: loadIpCam calls of one SUCCESS_ON message
    MaxWaiting, \* bound: handler messages and broadcasts that wait
    Lollipop    \* the api level is at least 21

ASSUME MaxOpensAssumption == MaxOpens \in Nat \ {0}
ASSUME LimitsAssumption == Burst \in Nat \ {0} /\ MaxWaiting \in Nat
ASSUME LollipopAssumption == Lollipop \in BOOLEAN

Opens == 1..MaxOpens   \* calls of loadIpCam, in order

VARIABLES
    process,      \* "up", or "crashed" by an exception in the main thread
    page,         \* "new", "alive" from onCreateView, "destroyed"
    covered,      \* another window covers the page: "never", "now" or "before"
    video,        \* mjpegView is VISIBLE
    error,        \* mErrorView is VISIBLE
    background,   \* of mContainer
    playing,      \* the open whose stream the view plays, 0 for none
    opens,        \* "idle", "connecting", "answered", "late" (timed out), "leaked"
    network,      \* there is a network
    inbox         \* what the main thread will handle, in order

pageVars == <<process, page, covered, video, error, background, playing, opens, network, inbox>>
look == <<video, error, background, playing>>

Handled  == {"connected", "unconnected", "on", "off"}     \* messages of mHandler
InboxMessages == [kind: {"opened", "failed"}, open: Opens] \cup [kind: Handled \cup {"network"}, open: {0}]

PageOK ==
    /\ process \in {"up", "crashed"} /\ page \in {"new", "alive", "destroyed"}
    /\ covered \in {"never", "now", "before"} /\ network \in BOOLEAN
    /\ video \in BOOLEAN /\ error \in BOOLEAN
    /\ background \in {"black", "mjpg"}

(* A stream that plays was opened in time. *)
PlayingOK == playing \in Opens \cup {0} /\ (playing # 0 => opens[playing] = "answered")

TypeOK ==
    /\ PageOK /\ PlayingOK
    /\ opens \in [Opens -> {"idle", "connecting", "answered", "late", "leaked"}]
    /\ inbox \in Seq(InboxMessages)

(* fragment_video.xml shows the view on black and hides the error page. *)
PageInit ==
    /\ process = "up" /\ page = "new" /\ covered = "never"
    /\ video = TRUE /\ error = FALSE /\ background = "black"
    /\ playing = 0
    /\ opens = [k \in Opens |-> "idle"]
    /\ network \in BOOLEAN
    /\ inbox = <<>>

Msg(kind, k) == [kind |-> kind, open |-> k]
Idle         == {k \in Opens : opens[k] = "idle"}
Connecting   == {k \in Opens : opens[k] = "connecting"}

(* The bounds: a message is sent only when few wait and enough opens are   *)
(* left for it and for those.                                              *)
Waiting == {i \in 1..Len(inbox) : inbox[i].open = 0}
Room    == /\ Cardinality(Waiting) < MaxWaiting
           /\ Burst * (Cardinality(Waiting) + 1) <= Cardinality(Idle)

Up           == process = "up" /\ UNCHANGED process
Enqueue(m)   == inbox' = Append(inbox, m)

(* loadIpCam, n times. *)
LoadIpCam(n) ==
    \E new \in SUBSET Idle :
        /\ Cardinality(new) = n
        /\ \A k \in new, j \in Idle \ new : k < j
        /\ opens' = [k \in Opens |-> IF k \in new THEN "connecting" ELSE opens[k]]

-------------------------------------------------------------------------------
(* onCreateView: initView, and the registration of the receiver that is    *)
(* answered with the sticky broadcast.  The first layout, which makes the  *)
(* surface, comes before any answer.                                       *)
CreateView ==
    /\ Up
    /\ page = "new"
    /\ page' = "alive"
    /\ LoadIpCam(1)
    /\ Enqueue(Msg("network", 0))
    /\ UNCHANGED <<covered, look, network>>

(* getInputStream answers or throws before the timeout ... *)
OpenReturns(k) ==
    /\ Up
    /\ opens[k] = "connecting"
    /\ opens' = [opens EXCEPT ![k] = "answered"]
    /\ \/ network /\ Enqueue(Msg("opened", k))
       \/ Enqueue(Msg("failed", k))
    /\ UNCHANGED <<page, covered, look, network>>

(* Mutant: open(url), which has no timeout. *)
TimesOutNever(k) == FALSE

TimesOut(k) == opens[k] = "connecting"

(* ... or the timeout answers for it ... *)
Timeout(k) ==
    /\ Up
    /\ TimesOut(k)
    /\ opens' = [opens EXCEPT ![k] = "late"]
    /\ Enqueue(Msg("failed", k))
    /\ UNCHANGED <<page, covered, look, network>>

(* Mutant: the timeout only adds an answer. *)
LateStreamDelivered(k) == Enqueue(Msg("opened", k))

LateStream(k) == UNCHANGED inbox

(* ... and a stream that comes afterwards is dropped, and not closed. *)
ConnectLate(k) ==
    /\ Up
    /\ opens[k] = "late" /\ network
    /\ opens' = [opens EXCEPT ![k] = "leaked"]
    /\ LateStream(k)
    /\ UNCHANGED <<page, covered, look, network>>

(* A message of a control thread. *)
Posted(kind) ==
    /\ Up
    /\ page # "new" /\ Room
    /\ Enqueue(Msg(kind, 0))
    /\ UNCHANGED <<page, covered, look, opens, network>>

(* The network goes or comes; a registered receiver will hear of it. *)
NetworkChanges ==
    /\ Up
    /\ network' = ~network
    /\ IF page = "alive" THEN Room /\ Enqueue(Msg("network", 0)) ELSE UNCHANGED inbox
    /\ UNCHANGED <<page, covered, look, opens>>

-------------------------------------------------------------------------------
(* The main thread. *)

Take(kind, k) ==
    /\ process = "up"
    /\ inbox # <<>> /\ Head(inbox) = Msg(kind, k)
    /\ inbox' = Tail(inbox)

(* setVisibility(GONE) destroys the surface and with it stops the view. *)
HideVideo == video' = FALSE /\ playing' = IF video /\ covered # "now" THEN 0 ELSE playing
ShowVideo == video' = TRUE /\ UNCHANGED playing

(* onNext of loadIpCam *)
Opened(k) ==
    /\ Take("opened", k) /\ UNCHANGED process
    /\ playing' = k
    /\ video' = TRUE /\ error' = FALSE /\ background' = "black"
    /\ UNCHANGED <<page, covered, opens, network>>

(* Mutant: the handler of errors leaves the error page hidden. *)
ErrorAfterFailureUnchanged == error

ErrorAfterFailure == TRUE

(* onError of loadIpCam *)
Failed(k) ==
    /\ Take("failed", k) /\ UNCHANGED process
    /\ HideVideo
    /\ error' = ErrorAfterFailure /\ background' = "mjpg"
    /\ UNCHANGED <<page, covered, opens, network>>

(* handleMessage, CONNECT_SUCCESS and CONNECT_FAIL: a toast needs an       *)
(* activity.                                                               *)
Toasted ==
    /\ Take("connected", 0) \/ Take("unconnected", 0)
    /\ process' = IF page = "destroyed" THEN "crashed" ELSE process
    /\ UNCHANGED <<page, covered, look, opens, network>>

(* handleMessage, SUCCESS_OFF *)
SuccessOff ==
    /\ Take("off", 0) /\ UNCHANGED process
    /\ HideVideo
    /\ error' = TRUE /\ background' = "mjpg"
    /\ UNCHANGED <<page, covered, opens, network>>

(* handleMessage, SUCCESS_ON: a load, and as many as fit in 10 ms. *)
SuccessOn ==
    /\ Take("on", 0) /\ UNCHANGED process
    /\ ShowVideo
    /\ error' = FALSE /\ background' = "black"
    /\ \E n \in 1..Burst : LoadIpCam(n)
    /\ UNCHANGED <<page, covered, network>>

(* Mutant: the receiver shows the view and does not load. *)
LoadsNothing == UNCHANGED opens

Loads == LoadIpCam(1)

(* NetWorkStateReceiver.onReceive: from api level 21 the error page stays. *)
OnReceive ==
    /\ Take("network", 0) /\ UNCHANGED process
    /\ \/ page # "alive" /\ UNCHANGED <<look, opens>>
       \/ /\ page = "alive" /\ ~network
          /\ HideVideo
          /\ error' = TRUE /\ background' = "mjpg"
          /\ UNCHANGED opens
       \/ /\ page = "alive" /\ network
          /\ ShowVideo
          /\ error' = (Lollipop /\ error) /\ background' = "black"
          /\ Loads
    /\ UNCHANGED <<page, covered, network>>

(* Another window covers the page: the surface goes, the view stops.  When *)
(* the window comes back the surface does, but nothing plays.              *)
Hide ==
    /\ Up
    /\ page = "alive" /\ covered # "now"
    /\ covered' = "now"
    /\ playing' = IF video THEN 0 ELSE playing
    /\ UNCHANGED <<page, video, error, background, opens, network, inbox>>

Show ==
    /\ Up
    /\ page = "alive" /\ covered = "now"
    /\ covered' = "before"
    /\ UNCHANGED <<page, look, opens, network, inbox>>

(* onDestroyView and onDestroy: the receiver goes, the opens do not. *)
Destroy ==
    /\ Up
    /\ page = "alive"
    /\ page' = "destroyed"
    /\ playing' = 0
    /\ UNCHANGED <<covered, video, error, background, opens, network, inbox>>

MainThread ==
    \/ \E k \in Opens : Opened(k) \/ Failed(k)
    \/ Toasted \/ SuccessOn \/ SuccessOff \/ OnReceive

Io(k) == OpenReturns(k) \/ Timeout(k) \/ ConnectLate(k)

System ==
    \/ CreateView \/ Hide \/ Show \/ Destroy
    \/ \E k \in Opens : Io(k)
    \/ NetworkChanges
    \/ MainThread

PageNext == System \/ \E kind \in Handled : Posted(kind)

PageSpec == PageInit /\ [][PageNext]_pageVars

(* The main thread runs, and the timeouts fire. *)
PageFairness == WF_pageVars(MainThread) /\ WF_pageVars(\E k \in Opens : Timeout(k))

PageFairSpec == PageSpec /\ PageFairness

-------------------------------------------------------------------------------
(* Properties. *)

Quiet == page = "alive" /\ covered = "never" /\ Connecting = {} /\ inbox = <<>>

(* When no answer, message or broadcast is outstanding, whatever order     *)
(* they came in, the page shows either the video or the error page, on its *)
(* background, and a stream plays exactly when the video is shown, as long *)
(* as no other window covered the page.                                    *)
QuietPageAgrees ==
    Quiet => /\ error = ~video
             /\ background = IF video THEN "black" ELSE "mjpg"
             /\ playing # 0 <=> video

(* The error page over a visible video, which a broadcast leaves from api  *)
(* level 21 on, goes with the answer to the load it starts.                *)
ErrorOverVideoEnds ==
    page = "alive" /\ error /\ video ~> (~error \/ ~video \/ page = "destroyed")
===============================================================================
