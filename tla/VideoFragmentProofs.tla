-------------------------- MODULE VideoFragmentProofs --------------------------
(***************************************************************************)
(* Proofs about VideoFragment for every number of clicks, opens and        *)
(* messages: the camera page with its control threads behaves like each of *)
(* its two parts, hence has their invariants, and a camera that was        *)
(* switched off stays off the page.                                        *)
(***************************************************************************)
EXTENDS CameraControlProofs, VideoPageProofs, VideoFragment, TLAPS

-------------------------------------------------------------------------------
(* A step of the whole is a step of the control threads or leaves them     *)
(* alone.                                                                  *)
LEMMA ControlStep == [FragmentNext]_fragmentVars => [Next]_vars
<1> SUFFICES ASSUME [FragmentNext]_fragmentVars PROVE [Next]_vars
  OBVIOUS
<1>1. CASE \E c \in Commands : ClickButton(c)
  BY <1>1 DEF ClickButton, Next
<1>2. CASE \E t \in Threads : RunThread(t)
  BY <1>2 DEF RunThread, Next
<1>3. CASE Serve
  BY <1>3 DEF Serve, Next
<1>4. CASE Work \/ UNCHANGED fragmentVars
  BY <1>4 DEF Work, fragmentVars, vars
<1> QED
  BY <1>1, <1>2, <1>3, <1>4 DEF FragmentNext

(* The page leaves the protocol of the control threads as it is: they are  *)
(* refined by the whole, with clicks that never overlap.                   *)
THEOREM ImplementsControl == FragmentSpec => Spec
<1>1. FragmentInit => Init
  BY DEF FragmentInit
<1> QED
  BY <1>1, ControlStep, PTL DEF FragmentSpec, Spec

(* What is proved about the control threads holds of the whole. *)
LEMMA ControlInvariant == FragmentSpec => [](Types /\ InTurn /\ InTurnClosed)
<1>1. Init => Types /\ InTurn /\ InTurnClosed
  BY Initially
<1>2. Types /\ [Next]_vars => Types'
  BY TypesStep
<1>3. Types /\ Types' /\ InTurn /\ [Next]_vars => InTurn'
  BY InTurnStep
<1>4. Types /\ InTurn /\ InTurnClosed /\ [Next]_vars => InTurnClosed'
  BY ClosingStep
<1> QED
  BY <1>1, <1>2, <1>3, <1>4, ImplementsControl, PTL DEF Spec

-------------------------------------------------------------------------------
(* What a step of a control thread posts, and where in its script it is:   *)
(* nothing, whether it is connected, or its success.                       *)
LEMMA RunStep ==
    ASSUME Types, NEW t \in Threads, Run(t)
    PROVE  /\ UNCHANGED <<command, overlapped>>
           /\ \A u \in Threads \ {t} : pc'[u] = pc[u]
           /\ pc[t] \in Nat \ {0} /\ pc'[t] \in {0, pc[t] + 1}
           /\ command[t] \in {"on", "off"}
           /\ \/ UNCHANGED posted
              \/ \E kind \in {"connected", "unconnected"} :
                     posted' = Append(posted, [thread |-> t, kind |-> kind])
              \/ /\ posted' = Append(posted, [thread |-> t, kind |-> command[t]])
                 /\ command[t] = "on" => pc'[t] \notin 1..13
<1>1. Running(t) /\ UNCHANGED <<command, overlapped>>
  BY DEF Run, Create, Connect, Check, GetOutput, Send, GetInput, Read,
         Success, Close, Shutdown, At, history
<1>2. Advance(t) \/ Throw(t)
  BY DEF Run, Create, Connect, Check, GetOutput, Send, GetInput, Read,
         Success, Close, Shutdown
<1>3. pc[t] \in Nat
  <2>1. pc \in [Threads -> 0..15]
    BY DEF Types
  <2> QED
    BY <2>1
<1>4. Throw(t) => pc'[t] = 0 /\ \A u \in Threads \ {t} : pc'[u] = pc[u]
  BY Ends
<1>5. Advance(t) => /\ \A u \in Threads \ {t} : pc'[u] = pc[u]
                    /\ pc'[t] \in {0, pc[t] + 1}
  BY <1>1, Moves
<1>6. command[t] \in {"on", "off"}
  BY <1>1, Placed
<1>7. CASE Check(t)
  BY <1>1, <1>2, <1>3, <1>4, <1>5, <1>6, <1>7 DEF Check, Post, Running
<1>8. CASE Success(t)
  <2>1. At(t, "success") /\ Advance(t)
        /\ posted' = Append(posted, [thread |-> t, kind |-> command[t]])
    BY <1>8 DEF Success, Post, Outcome
  <2>2. command[t] = "on" => pc[t] > 12
    BY <1>1, <2>1, Place DEF Past
  <2>3. command[t] = "on" => pc'[t] \notin 1..13
    BY <1>3, <1>5, <2>1, <2>2
  <2>4. pc[t] \in Nat \ {0}
    BY <1>1, <1>3 DEF Running
  <2> QED
    BY <1>1, <1>5, <1>6, <2>1, <2>3, <2>4
<1>9. CASE ~Check(t) /\ ~Success(t)
  <2>1. UNCHANGED posted
    <3>1. CASE Create(t) \/ Connect(t) \/ GetOutput(t) \/ \E m \in Messages : Send(t, m)
      BY <3>1 DEF Create, Connect, GetOutput, Send
    <3>2. CASE GetInput(t) \/ Read(t) \/ Close(t) \/ Shutdown(t)
      BY <3>2 DEF GetInput, Read, Close, Shutdown
    <3> QED
      BY <1>9, <3>1, <3>2 DEF Run
  <2> QED
    BY <1>1, <1>2, <1>3, <1>4, <1>5, <1>6, <2>1 DEF Running
<1> QED
  BY <1>7, <1>8, <1>9

(* A step of the whole is a step of the page or leaves it alone: what a    *)
(* control thread posts is a message that the handler knows.               *)
LEMMA PageStep ==
    ASSUME Types, [FragmentNext]_fragmentVars
    PROVE  [PageNext]_pageVars
<1>1. CASE \E c \in Commands : ClickButton(c)
  BY <1>1 DEF ClickButton, pageVars
<1>2. ASSUME NEW t \in Threads, RunThread(t)
      PROVE  [PageNext]_pageVars
  <2>1. CASE UNCHANGED pageVars
    BY <2>1 DEF pageVars
  <2>2. CASE posted' # posted /\ Posted(posted'[Len(posted')].kind)
    <3>1. t \in Threads /\ Run(t)
      BY <1>2 DEF RunThread
    <3>2. PICK kind \in {"connected", "unconnected", "on", "off"} :
                 posted' = Append(posted, [thread |-> t, kind |-> kind])
      BY <2>2, <3>1, RunStep
    <3>3. posted'[Len(posted')].kind = kind
      BY <3>2 DEF Types
    <3> QED
      BY <2>2, <3>3 DEF PageNext, Handled
  <2> QED
    BY <1>2, <2>1, <2>2 DEF RunThread
<1>3. CASE Serve \/ Work \/ UNCHANGED fragmentVars
  BY <1>3 DEF Serve, Work, pageVars, fragmentVars, PageNext
<1> QED
  BY <1>1, <1>2, <1>3 DEF FragmentNext

(* The control threads send the page nothing but what its own              *)
(* specification lets them send: the whole implements the page.            *)
THEOREM ImplementsPage == FragmentSpec => PageSpec
<1>1. FragmentInit => PageInit
  BY DEF FragmentInit
<1> QED
  BY <1>1, PageStep, ControlInvariant, PTL DEF FragmentSpec, PageSpec

(* What is proved about the page holds of the whole. *)
LEMMA PageInvariant == FragmentSpec => [](TypeOK /\ QuietPageAgrees)
  BY TypeCorrect, QuietAgreement, ImplementsPage, PTL

-------------------------------------------------------------------------------
(* Nothing that could load or show a video is under way or waits. *)
NoLoad ==
    /\ page # "new" /\ Connecting = {}
    /\ \A i \in 1..Len(inbox) : inbox[i].kind \in {"connected", "unconnected", "off"}

OffWaits == \E i \in 1..Len(inbox) : inbox[i].kind = "off"
Dark     == covered = "never" /\ page = "alive" => ~video \/ OffWaits

(* A thread that runs and has not switched the camera on yet. *)
Commanding(t) == pc[t] > 0 /\ (command[t] = "off" \/ (command[t] = "on" /\ pc[t] <= 13))

(* A user who waits: commands follow each other, no load is under way      *)
(* while one runs, nor after one that switched the camera off, which is    *)
(* dark then or will be with the message that waits.                       *)
PatientInv ==
    /\ ~overlapped
    /\ \A t \in Threads : Commanding(t) => NoLoad
    /\ SwitchedOff => NoLoad /\ Dark

(* The page by itself starts no load, and does not light up. *)
LEMMA WorkStep ==
    ASSUME TypeOK, NoLoad, Work
    PROVE  NoLoad' /\ (Dark => Dark')
<1> DEFINE Calm == \A i \in 1..Len(inbox) : inbox[i].kind \in {"connected", "unconnected", "off"}
<1> USE DEF Msg
<1>0. /\ System /\ UNCHANGED network
      /\ inbox \in Seq(InboxMessages) /\ network \in BOOLEAN
      /\ opens \in [Opens -> {"idle", "connecting", "answered", "late", "leaked"}]
      /\ page # "new" /\ Connecting = {} /\ Calm
  BY DEF Work, TypeOK, PageOK, NoLoad
<1>1. ASSUME UNCHANGED <<page, opens, inbox>>
      PROVE  NoLoad' /\ (OffWaits => OffWaits')
  BY <1>0, <1>1 DEF NoLoad, Connecting, OffWaits
<1>2. CASE Hide \/ Show
  BY <1>0, <1>1, <1>2 DEF Hide, Show, look, Dark
<1>3. CASE Destroy
  BY <1>0, <1>3 DEF Destroy, NoLoad, Connecting, Dark
<1>4. CASE CreateView \/ NetworkChanges
  BY <1>0, <1>4 DEF CreateView, NetworkChanges
<1>5. ASSUME NEW k \in Opens, Io(k)
      PROVE  NoLoad' /\ (Dark => Dark')
  <2>1. opens[k] # "connecting"
    BY <1>0 DEF Connecting
  <2>2. /\ opens' = [opens EXCEPT ![k] = "leaked"]
        /\ UNCHANGED <<page, covered, video, inbox>>
    BY <1>5, <2>1 DEF Io, OpenReturns, Timeout, TimesOut, ConnectLate, LateStream,
       look
  <2>3. Connecting' = {}
    BY <1>0, <2>2 DEF Connecting
  <2> QED
    BY <1>0, <2>2, <2>3 DEF NoLoad, Dark, OffWaits
<1>6. CASE MainThread
  <2>1. PICK kind \in {"opened", "failed", "connected", "unconnected", "on", "off", "network"},
             k \in Opens \cup {0} : Take(kind, k)
    BY <1>6 DEF MainThread, Opened, Failed, Toasted, SuccessOn, SuccessOff,
       OnReceive
  <2>2. inbox # <<>> /\ inbox' = Tail(inbox) /\ Head(inbox).kind = kind
    BY <2>1 DEF Take
  <2>3. /\ Len(inbox) \in Nat /\ Len(inbox) > 0 /\ Len(inbox') = Len(inbox) - 1
        /\ \A i \in 1..Len(inbox') : inbox'[i] = inbox[i + 1]
        /\ Head(inbox) = inbox[1]
    BY <1>0, <2>2
  <2>4. inbox[1].kind \in {"connected", "unconnected", "off"}
    BY <1>0, <2>3
  <2>5. Calm'
    BY <1>0, <2>3
  <2>6. Toasted \/ SuccessOff
    BY <1>6, <2>2, <2>3, <2>4 DEF MainThread, Opened, Failed, SuccessOn,
       OnReceive, Take
  <2>7. /\ UNCHANGED <<page, covered, opens>>
        /\ video' = FALSE \/ (UNCHANGED video /\ kind # "off")
    BY <2>2, <2>6 DEF Toasted, SuccessOff, HideVideo, look, Take
  <2>8. kind # "off" /\ OffWaits => OffWaits'
    <3> SUFFICES ASSUME kind # "off", NEW i \in 1..Len(inbox), inbox[i].kind = "off"
                 PROVE  OffWaits'
      BY DEF OffWaits
    <3>1. i # 1
      BY <2>2, <2>3
    <3>2. i - 1 \in 1..Len(inbox') /\ inbox'[i - 1] = inbox[i]
      BY <2>3, <3>1
    <3> QED
      BY <3>2 DEF OffWaits
  <2> QED
    BY <1>0, <2>5, <2>7, <2>8 DEF NoLoad, Connecting, Dark
<1> QED
  BY <1>0, <1>2, <1>3, <1>4, <1>5, <1>6 DEF System

(* A message of a control thread that is not SUCCESS_ON starts no load     *)
(* either, and SUCCESS_OFF will make the page dark.                        *)
LEMMA PostStep ==
    ASSUME TypeOK, NoLoad, NEW kind \in {"connected", "unconnected", "off"}, Posted(kind)
    PROVE  NoLoad' /\ (Dark \/ kind = "off" => Dark')
<1>1. /\ inbox \in Seq(InboxMessages) /\ Msg(kind, 0) \in InboxMessages
      /\ inbox' = Append(inbox, Msg(kind, 0)) /\ Msg(kind, 0).kind = kind
      /\ UNCHANGED <<page, covered, video, opens>>
  BY DEF TypeOK, Posted, Enqueue, Msg, InboxMessages, Handled, look
<1>2. /\ Len(inbox) \in Nat /\ Len(inbox') = Len(inbox) + 1
      /\ \A i \in 1..Len(inbox) : inbox'[i] = inbox[i]
      /\ inbox'[Len(inbox) + 1] = Msg(kind, 0)
  BY <1>1
<1>3. NoLoad'
  <2>1. \A i \in 1..Len(inbox') : i \in 1..Len(inbox) \/ i = Len(inbox) + 1
    BY <1>2
  <2> QED
    BY <1>1, <1>2, <2>1 DEF NoLoad, Connecting
<1>4. OffWaits \/ kind = "off" => OffWaits'
  <2>1. 1..Len(inbox) \subseteq 1..Len(inbox') /\ Len(inbox) + 1 \in 1..Len(inbox')
    BY <1>2
  <2> QED
    BY <1>1, <1>2, <2>1 DEF OffWaits
<1> QED
  BY <1>1, <1>3, <1>4 DEF Dark
(* What a message more says about the last success. *)
LEMMA LastPost ==
    ASSUME Types, UNCHANGED command, SwitchedOff',
           NEW t \in Threads, NEW kind \in {"connected", "unconnected", "on", "off"},
           posted' = Append(posted, [thread |-> t, kind |-> kind])
    PROVE  IF kind \in {"connected", "unconnected"} THEN SwitchedOff ELSE command[t] = "off"
<1>1. /\ posted \in Seq(Posts)
      /\ [thread |-> t, kind |-> kind] \in Posts
  BY DEF Types, Posts, Commands
<1>2. /\ Len(posted) \in Nat /\ Len(posted') = Len(posted) + 1
      /\ \A i \in 1..Len(posted) : posted'[i] = posted[i]
      /\ posted'[Len(posted) + 1] = [thread |-> t, kind |-> kind]
  BY <1>1
<1>3. PICK i \in 1..Len(posted') :
          /\ posted'[i].kind \in {"on", "off"} /\ command[posted'[i].thread] = "off"
          /\ \A j \in i + 1..Len(posted') : posted'[j].kind \notin {"on", "off"}
  BY DEF SwitchedOff, Commands
<1>4. CASE i = Len(posted) + 1
  BY <1>2, <1>3, <1>4
<1>5. CASE i \in 1..Len(posted)
  <2>1. kind \notin {"on", "off"}
    <3>1. Len(posted) + 1 \in i + 1..Len(posted')
      BY <1>2, <1>5
    <3> QED
      BY <1>2, <1>3, <3>1
  <2>2. \A j \in i + 1..Len(posted) : posted[j].kind \notin {"on", "off"}
    BY <1>2, <1>3, <1>5
  <2>3. SwitchedOff
    BY <1>2, <1>3, <1>5, <2>2 DEF SwitchedOff, Commands
  <2> QED
    BY <2>1, <2>3
<1> QED
  BY <1>2, <1>4, <1>5

(* What a control thread posts goes to the page. *)
LEMMA PostsReachThePage ==
    ASSUME Types, NEW t \in Threads, RunThread(t),
           NEW kind \in {"connected", "unconnected", "on", "off"},
           posted' = Append(posted, [thread |-> t, kind |-> kind])
    PROVE  Posted(kind)
<1>1. posted \in Seq(Posts) /\ [thread |-> t, kind |-> kind] \in Posts
  BY DEF Types, Posts, Commands
<1>2. posted' # posted /\ posted'[Len(posted')].kind = kind
  BY <1>1
<1> QED
  BY <1>2 DEF RunThread

LEMMA PatientStep ==
    ASSUME Types, InTurn, InTurnClosed, TypeOK, PatientInv, [FragmentNext]_fragmentVars
    PROVE  PatientInv'
<1>1. ~overlapped /\ Alone /\ Closing
  BY DEF PatientInv, InTurn, InTurnClosed
<1>2. ASSUME NEW c \in Commands, ClickButton(c)
      PROVE  PatientInv'
  <2>1. Quiet /\ UNCHANGED pageVars /\ Click(c) /\ \A u \in Threads : ~Running(u)
    BY <1>2 DEF ClickButton, Settled
  <2>2. NoLoad'
    BY <2>1 DEF Quiet, NoLoad, pageVars, Connecting
  <2>3. PICK t \in Threads :
            /\ \A u \in Threads : u < t <=> u \in {w \in Threads : command[w] # "none"}
            /\ command' = [command EXCEPT ![t] = c]
            /\ overlapped' = (overlapped \/ \E u \in {w \in Threads : command[w] # "none"} :
                                                Running(u))
            /\ UNCHANGED posted
    BY <2>1 DEF Click
  <2>4. ~overlapped'
    BY <1>1, <2>1, <2>3
  <2>5. SwitchedOff' => SwitchedOff
    <3>1. command \in [Threads -> Commands \cup {"none"}]
      BY DEF Types
    <3>2. command[t] = "none"
      BY <2>3, BoundsAssumption DEF Threads
    <3>3. \A i \in 1..Len(posted) : posted[i].thread # t
      BY <1>1, <2>3, <3>2 DEF Closing
    <3>4. \A u : u # t => command'[u] = command[u]
      BY <2>3, <3>1
    <3> QED
      BY <2>3, <3>3, <3>4 DEF SwitchedOff
  <2>6. Dark => Dark'
    BY <2>1 DEF Dark, OffWaits, pageVars
  <2> QED
    BY <2>2, <2>4, <2>5, <2>6 DEF PatientInv
<1>3. ASSUME NEW t \in Threads, RunThread(t)
      PROVE  PatientInv'
  <2>1. t \in Threads /\ Run(t)
    BY <1>3 DEF RunThread
  <2>2. /\ UNCHANGED <<command, overlapped>>
        /\ \A u \in Threads \ {t} : pc'[u] = pc[u]
        /\ pc[t] \in Nat \ {0} /\ pc'[t] \in {0, pc[t] + 1}
        /\ command[t] \in {"on", "off"}
    BY <2>1, RunStep
  <2>3. \A u \in Threads \ {t} : ~Commanding(u) /\ ~Commanding(u)'
    BY <1>1, <2>1, <2>2 DEF Alone, Running, Commanding
  <2>4. Commanding(t)' => Commanding(t)
    BY <2>2 DEF Commanding
  <2>5. CASE UNCHANGED posted
    <3>1. UNCHANGED pageVars
      BY <1>3, <2>5 DEF RunThread
    <3>2. (NoLoad => NoLoad') /\ (Dark => Dark') /\ (SwitchedOff' => SwitchedOff)
      BY <2>2, <2>5, <3>1 DEF NoLoad, Connecting, Dark, OffWaits, SwitchedOff, pageVars
    <3> QED
      BY <1>1, <2>1, <2>2, <2>3, <2>4, <3>2 DEF PatientInv
  <2>6. ASSUME NEW kind \in {"connected", "unconnected"},
               posted' = Append(posted, [thread |-> t, kind |-> kind])
        PROVE  PatientInv'
    <3>1. Posted(kind)
      BY <1>3, <2>1, <2>6, PostsReachThePage
    <3>2. (NoLoad => NoLoad') /\ (NoLoad /\ Dark => Dark')
      BY <3>1, PostStep
    <3>3. SwitchedOff' => SwitchedOff
      BY <2>1, <2>2, <2>6, LastPost
    <3> QED
      BY <1>1, <2>1, <2>2, <2>3, <2>4, <3>2, <3>3 DEF PatientInv
  <2>7. CASE /\ posted' = Append(posted, [thread |-> t, kind |-> command[t]])
             /\ command[t] = "on" => pc'[t] \notin 1..13
    <3>1. CASE command[t] = "on"
      <4>1. ~SwitchedOff'
        BY <2>1, <2>2, <2>7, <3>1, LastPost
      <4>2. ~Commanding(t)'
        <5>1. pc'[t] \in Nat /\ pc'[t] \notin 1..13 /\ command'[t] = "on"
          BY <2>2, <2>7, <3>1
        <5> QED
          BY <5>1 DEF Commanding
      <4> QED
        BY <1>1, <2>2, <2>3, <4>1, <4>2 DEF PatientInv
    <3>2. CASE command[t] = "off"
      <4>1. posted' = Append(posted, [thread |-> t, kind |-> "off"])
        BY <2>7, <3>2
      <4>2. Posted("off")
        BY <1>3, <2>1, <4>1, PostsReachThePage
      <4>3. NoLoad
        BY <2>1, <2>2, <3>2 DEF PatientInv, Commanding
      <4>4. NoLoad' /\ Dark'
        BY <4>2, <4>3, PostStep
      <4> QED
        BY <1>1, <2>2, <4>4 DEF PatientInv
    <3> QED
      BY <2>2, <3>1, <3>2
  <2> QED
    BY <2>1, <2>5, <2>6, <2>7, RunStep
<1>4. CASE Serve \/ UNCHANGED fragmentVars
  <2>1. UNCHANGED <<command, pc, posted, overlapped>> /\ UNCHANGED pageVars
    BY <1>4 DEF Serve, fragmentVars, vars, Answer, Reset, history
  <2> QED
    BY <2>1 DEF PatientInv, Commanding, NoLoad, Connecting, Dark, OffWaits, SwitchedOff, pageVars
<1>5. CASE Work
  <2>1. UNCHANGED <<command, pc, posted, overlapped>>
    BY <1>5 DEF Work, vars
  <2>2. NoLoad => NoLoad' /\ (Dark => Dark')
    BY <1>5, WorkStep
  <2> QED
    BY <2>1, <2>2 DEF PatientInv, Commanding, SwitchedOff
<1> QED
  BY <1>2, <1>3, <1>4, <1>5 DEF FragmentNext

(* Once the last command that succeeded switched the camera off and        *)
(* nothing moves, the page is dark, plays nothing and offers its button,   *)
(* however many commands went before and whatever the loads answered.      *)
THEOREM StaysOff == FragmentSpec => []OffStays
<1>1. FragmentInit => PatientInv
  <2> SUFFICES ASSUME FragmentInit PROVE PatientInv
    OBVIOUS
  <2>1. posted = <<>> /\ ~overlapped /\ \A t \in Threads : pc[t] = 0
    BY DEF FragmentInit, Init
  <2>2. ~SwitchedOff
    BY <2>1 DEF SwitchedOff
  <2> QED
    BY <2>1, <2>2 DEF PatientInv, Commanding
<1>2. PatientInv /\ QuietPageAgrees => OffStays
  <2> SUFFICES ASSUME PatientInv, QuietPageAgrees, Settled, SwitchedOff
               PROVE  ~video /\ playing = 0 /\ Reachable("on")
    BY DEF OffStays
  <2>1. Quiet
    BY DEF Settled
  <2>2. ~OffWaits
    BY <2>1 DEF Quiet, OffWaits
  <2>3. ~video
    BY <2>1, <2>2 DEF PatientInv, Dark, Quiet
  <2> QED
    BY <2>1, <2>3 DEF QuietPageAgrees, Quiet, Reachable
<1> QED
  BY <1>1, <1>2, PatientStep, ControlInvariant, PageInvariant, PTL DEF FragmentSpec
===============================================================================
