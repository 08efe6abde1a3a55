---------------------------- MODULE VideoPageProofs ---------------------------
(***************************************************************************)
(* Proofs about VideoPage for every number of opens, waiting messages and  *)
(* loads of one message, and for both api levels.                          *)
(***************************************************************************)
EXTENDS VideoPage, FiniteSetTheorems, TLAPS

(* An answer to a load waits for the main thread. *)
AnswerWaits == \E i \in 1..Len(inbox) : inbox[i].kind \in {"opened", "failed"}

(* The view without its video or under the error page is settled by the    *)
(* answer to a load that is under way.                                     *)
Agreement ==
    /\ background = IF video THEN "black" ELSE "mjpg"
    /\ ~video => error /\ playing = 0
    /\ page = "alive" /\ video /\ (error \/ playing = 0) => Connecting # {} \/ AnswerWaits

IndInv == covered = "never" => Agreement

(* A stream that waits to be given to the view was opened in time. *)
InTime == \A i \in 1..Len(inbox) :
              inbox[i].kind = "opened" => opens[inbox[i].open] = "answered"

-------------------------------------------------------------------------------
(* Queues of messages. *)

LEMMA AppendAt ==
    ASSUME NEW s \in Seq(InboxMessages), NEW m \in InboxMessages
    PROVE  /\ Append(s, m) \in Seq(InboxMessages)
           /\ Len(s) \in Nat /\ Len(Append(s, m)) = Len(s) + 1
           /\ \A i \in 1..Len(s) : Append(s, m)[i] = s[i]
           /\ Append(s, m)[Len(s) + 1] = m
  OBVIOUS

LEMMA TailAt ==
    ASSUME NEW s \in Seq(InboxMessages), s # <<>>
    PROVE  /\ Tail(s) \in Seq(InboxMessages)
           /\ Len(s) \in Nat /\ Len(s) > 0 /\ Len(Tail(s)) = Len(s) - 1
           /\ \A i \in 1..Len(Tail(s)) : Tail(s)[i] = s[i + 1]
           /\ Head(s) = s[1]
  OBVIOUS

LEMMA MessagesOf ==
    /\ \A k \in Opens : Msg("opened", k) \in InboxMessages /\ Msg("failed", k) \in InboxMessages
    /\ \A kind \in Handled \cup {"network"} : Msg(kind, 0) \in InboxMessages
  BY DEF Msg, InboxMessages, Handled

(* What a step does to the queue: one message more, or the first one less. *)
LEMMA QueueSteps ==
    ASSUME [PageNext]_pageVars
    PROVE  \/ \E m \in InboxMessages : inbox' = Append(inbox, m)
           \/ inbox # <<>> /\ inbox' = Tail(inbox)
           \/ UNCHANGED inbox
<1> USE MessagesOf DEF Enqueue
<1>1. CASE CreateView \/ Hide \/ Show \/ Destroy \/ NetworkChanges
  BY <1>1 DEF CreateView, Hide, Show, Destroy, NetworkChanges
<1>2. ASSUME NEW k \in Opens, Io(k)
      PROVE  (\E m \in InboxMessages : inbox' = Append(inbox, m)) \/ UNCHANGED inbox
  BY <1>2 DEF Io, OpenReturns, Timeout, ConnectLate, LateStream
<1>3. CASE MainThread
  BY <1>3 DEF MainThread, Opened, Failed, Toasted, SuccessOn, SuccessOff, OnReceive, Take
<1>4. ASSUME NEW kind \in Handled, Posted(kind)
      PROVE  \E m \in InboxMessages : inbox' = Append(inbox, m)
  BY <1>4 DEF Posted
<1>5. CASE UNCHANGED pageVars
  BY <1>5 DEF pageVars
<1> QED
  BY <1>1, <1>2, <1>3, <1>4, <1>5 DEF PageNext, System

-------------------------------------------------------------------------------
(* The opens. *)

(* A load starts at least one open, keeps the type and disturbs no open    *)
(* that was answered.                                                      *)
LEMMA LoadOK ==
    ASSUME TypeOK, NEW n \in Nat \ {0}, LoadIpCam(n)
    PROVE  /\ opens' \in [Opens -> {"idle", "connecting", "answered", "late", "leaked"}]
           /\ \A k \in Opens : opens[k] = "answered" => opens'[k] = "answered"
           /\ Connecting' # {}
<1>1. PICK new \in SUBSET Idle :
          /\ Cardinality(new) = n
          /\ opens' = [k \in Opens |-> IF k \in new THEN "connecting" ELSE opens[k]]
  BY DEF LoadIpCam
<1>2. new # {}
  BY <1>1, FS_EmptySet
<1>3. \A k \in new : k \in Opens /\ opens[k] = "idle"
  BY DEF Idle
<1> QED
  BY <1>1, <1>2, <1>3 DEF TypeOK, Connecting

(* What the steps do to the opens. *)
LEMMA OpensSteps ==
    ASSUME TypeOK, [PageNext]_pageVars
    PROVE  /\ opens' \in [Opens -> {"idle", "connecting", "answered", "late", "leaked"}]
           /\ \A k \in Opens : opens[k] = "answered" => opens'[k] = "answered"
<1>1. CASE CreateView
  BY <1>1, LoadOK DEF CreateView
<1>2. CASE Hide \/ Show \/ Destroy \/ NetworkChanges
  BY <1>2 DEF Hide, Show, Destroy, NetworkChanges, TypeOK
<1>3. ASSUME NEW k \in Opens, Io(k)
      PROVE  /\ opens' \in [Opens -> {"idle", "connecting", "answered", "late", "leaked"}]
             /\ \A j \in Opens : opens[j] = "answered" => opens'[j] = "answered"
  BY <1>3 DEF Io, OpenReturns, Timeout, TimesOut, ConnectLate, TypeOK
<1>4. CASE MainThread
  <2>1. UNCHANGED opens \/ (\E n \in Nat \ {0} : LoadIpCam(n))
    BY <1>4, LimitsAssumption
       DEF MainThread, Opened, Failed, Toasted, SuccessOn, SuccessOff, OnReceive, Loads
  <2>2. CASE UNCHANGED opens
    BY <2>2 DEF TypeOK
  <2> QED
    BY <2>1, <2>2, LoadOK
<1>5. ASSUME NEW kind \in Handled, Posted(kind) PROVE UNCHANGED opens
  BY <1>5 DEF Posted
<1>6. CASE UNCHANGED pageVars
  BY <1>6 DEF pageVars, TypeOK
<1> QED
  BY <1>1, <1>2, <1>3, <1>4, <1>5, <1>6 DEF PageNext, System, TypeOK

-------------------------------------------------------------------------------
(* Type correctness. *)

(* A stream in the queue was opened in time, and stays so: an answer is    *)
(* given once, and what is answered is never timed out.                    *)
LEMMA InTimeStep ==
    ASSUME TypeOK, InTime, [PageNext]_pageVars
    PROVE  InTime'
<1>1. inbox \in Seq(InboxMessages)
  BY DEF TypeOK
<1>2. \A k \in Opens : opens[k] = "answered" => opens'[k] = "answered"
  BY OpensSteps
<1>3. \A m \in InboxMessages : m.kind = "opened" => m.open \in Opens
  BY DEF InboxMessages, Handled
<1>4. \A i \in 1..Len(inbox) :
          inbox[i].kind = "opened" => opens'[inbox[i].open] = "answered"
  BY <1>1, <1>2, <1>3 DEF InTime
<1>5. ASSUME NEW m \in InboxMessages, inbox' = Append(inbox, m),
             m.kind = "opened" => opens'[m.open] = "answered"
      PROVE  InTime'
  <2>1. ASSUME NEW i \in 1..Len(inbox'), inbox'[i].kind = "opened"
        PROVE  opens'[inbox'[i].open] = "answered"
    <3>1. i \in 1..Len(inbox) \/ i = Len(inbox) + 1
      BY <1>1, <1>5, <2>1, AppendAt
    <3> QED
      BY <1>1, <1>4, <1>5, <2>1, <3>1, AppendAt
  <2> QED
    BY <2>1 DEF InTime
<1>6. ASSUME inbox # <<>>, inbox' = Tail(inbox)
      PROVE  InTime'
  <2>1. ASSUME NEW i \in 1..Len(inbox'), inbox'[i].kind = "opened"
        PROVE  opens'[inbox'[i].open] = "answered"
    <3>1. i + 1 \in 1..Len(inbox) /\ inbox'[i] = inbox[i + 1]
      BY <1>1, <1>6, <2>1, TailAt
    <3> QED
      BY <1>4, <2>1, <3>1
  <2> QED
    BY <2>1 DEF InTime
<1>7. ASSUME UNCHANGED inbox
      PROVE  InTime'
  BY <1>4, <1>7 DEF InTime
<1>8. ASSUME NEW k \in Opens, Io(k) PROVE InTime'
  <2>1. CASE OpenReturns(k)
    <3>1. opens'[k] = "answered"
      BY <2>1 DEF OpenReturns, TypeOK
    <3>2. PICK m \in {Msg("opened", k), Msg("failed", k)} : inbox' = Append(inbox, m)
      BY <2>1 DEF OpenReturns, Enqueue
    <3>3. m \in InboxMessages
      BY <3>2, MessagesOf
    <3>4. m.open = k
      BY <3>2 DEF Msg
    <3> QED
      BY <1>5, <3>1, <3>2, <3>3, <3>4
  <2>2. CASE Timeout(k)
    <3>1. inbox' = Append(inbox, Msg("failed", k)) /\ Msg("failed", k).kind # "opened"
      BY <2>2 DEF Timeout, Enqueue, Msg
    <3> QED
      BY <1>5, <3>1, MessagesOf
  <2>3. CASE ConnectLate(k)
    BY <1>7, <2>3 DEF ConnectLate, LateStream
  <2> QED
    BY <1>8, <2>1, <2>2, <2>3 DEF Io
<1>9. CASE CreateView \/ NetworkChanges
  <2>1. inbox' = Append(inbox, Msg("network", 0)) \/ UNCHANGED inbox
    BY <1>9 DEF CreateView, NetworkChanges, Enqueue
  <2>2. Msg("network", 0) \in InboxMessages /\ Msg("network", 0).kind # "opened"
    BY MessagesOf DEF Msg
  <2> QED
    BY <1>5, <1>7, <2>1, <2>2
<1>10. CASE Hide \/ Show \/ Destroy
  BY <1>7, <1>10 DEF Hide, Show, Destroy
<1>11. CASE MainThread
  BY <1>6, <1>11 DEF MainThread, Opened, Failed, Toasted, SuccessOn, SuccessOff, OnReceive, Take
<1>12. ASSUME NEW kind \in Handled, Posted(kind) PROVE InTime'
  <2>1. inbox' = Append(inbox, Msg(kind, 0)) /\ Msg(kind, 0).kind # "opened"
    BY <1>12 DEF Posted, Enqueue, Msg, Handled
  <2> QED
    BY <1>5, <2>1, MessagesOf
<1>13. CASE UNCHANGED pageVars
  BY <1>7, <1>13 DEF pageVars
<1> QED
  BY <1>8, <1>9, <1>10, <1>11, <1>12, <1>13 DEF PageNext, System

LEMMA TypeStep ==
    ASSUME TypeOK, InTime, [PageNext]_pageVars
    PROVE  TypeOK'
<1>1. inbox' \in Seq(InboxMessages)
  BY QueueSteps, AppendAt, TailAt DEF TypeOK
<1>2. /\ opens' \in [Opens -> {"idle", "connecting", "answered", "late", "leaked"}]
      /\ \A k \in Opens : opens[k] = "answered" => opens'[k] = "answered"
  BY OpensSteps
<1>3. PageOK'
  <2> USE DEF TypeOK, PageOK
  <2>1. CASE CreateView \/ Hide \/ Show \/ Destroy \/ NetworkChanges
    BY <2>1 DEF CreateView, Hide, Show, Destroy, NetworkChanges, Up, look
  <2>2. ASSUME NEW k \in Opens, Io(k) PROVE UNCHANGED <<process, page, covered, network, look>>
    BY <2>2 DEF Io, OpenReturns, Timeout, ConnectLate, Up
  <2>3. ASSUME NEW k \in Opens, Opened(k) \/ Failed(k) PROVE PageOK'
    BY <2>3 DEF Opened, Failed, HideVideo, ErrorAfterFailure
  <2>4. CASE Toasted \/ SuccessOn \/ SuccessOff
    BY <2>4 DEF Toasted, SuccessOn, SuccessOff, HideVideo, ShowVideo, look
  <2>5. CASE OnReceive
    BY <2>5, LollipopAssumption DEF OnReceive, HideVideo, ShowVideo, look
  <2>6. ASSUME NEW kind \in Handled, Posted(kind)
        PROVE  UNCHANGED <<process, page, covered, network, look>>
    BY <2>6 DEF Posted, Up
  <2>7. CASE UNCHANGED pageVars
    BY <2>7 DEF pageVars, look
  <2> QED
    BY <2>1, <2>2, <2>3, <2>4, <2>5, <2>6, <2>7 DEF PageNext, System, MainThread, look
<1>4. PlayingOK'
  <2>1. playing' \in {playing, 0} \/ (\E k \in Opens : Opened(k))
    <3>1. CASE CreateView \/ Hide \/ Show \/ Destroy \/ NetworkChanges
      BY <3>1 DEF CreateView, Hide, Show, Destroy, NetworkChanges, look
    <3>2. ASSUME NEW k \in Opens, Io(k) PROVE playing' = playing
      BY <3>2 DEF Io, OpenReturns, Timeout, ConnectLate, look
    <3>3. ASSUME NEW k \in Opens, Failed(k) PROVE playing' \in {playing, 0}
      BY <3>3 DEF Failed, HideVideo
    <3>4. CASE Toasted \/ SuccessOn \/ SuccessOff \/ OnReceive
      BY <3>4 DEF Toasted, SuccessOn, SuccessOff, OnReceive, HideVideo, ShowVideo, look
    <3>5. ASSUME NEW kind \in Handled, Posted(kind) PROVE playing' = playing
      BY <3>5 DEF Posted, look
    <3>6. CASE UNCHANGED pageVars
      BY <3>6 DEF pageVars, look
    <3> QED
      BY <3>1, <3>2, <3>3, <3>4, <3>5, <3>6 DEF PageNext, System, MainThread
  <2>2. ASSUME NEW k \in Opens, Opened(k) PROVE PlayingOK'
    <3>1. playing' = k /\ opens' = opens
      BY <2>2 DEF Opened
    <3>2. inbox # <<>> /\ Head(inbox) = Msg("opened", k)
      BY <2>2 DEF Opened, Take
    <3>3. inbox[1] = Msg("opened", k) /\ 1 \in 1..Len(inbox)
      BY <3>2, TailAt DEF TypeOK
    <3>4. opens[k] = "answered"
      BY <3>3 DEF InTime, Msg
    <3> QED
      BY <3>1, <3>4 DEF PlayingOK
  <2> QED
    BY <1>2, <2>1, <2>2 DEF TypeOK, PlayingOK
<1> QED
  BY <1>1, <1>2, <1>3, <1>4 DEF TypeOK

(* Every variable keeps its type; in particular a stream that plays was    *)
(* opened in time (Mjpeg.open).                                            *)
THEOREM TypeCorrect == PageSpec => [](TypeOK /\ InTime)
<1>1. PageInit => TypeOK /\ InTime
  <2> SUFFICES ASSUME PageInit PROVE TypeOK /\ InTime
    OBVIOUS
  <2>1. inbox \in Seq(InboxMessages) /\ Len(inbox) = 0
    BY DEF PageInit
  <2>2. InTime
    BY <2>1 DEF InTime
  <2>3. PageOK /\ PlayingOK
    BY DEF PageInit, PageOK, PlayingOK
  <2> QED
    BY <2>1, <2>2, <2>3 DEF PageInit, TypeOK
<1> QED
  BY <1>1, TypeStep, InTimeStep, PTL DEF PageSpec

-------------------------------------------------------------------------------
(* The page that is left alone. *)

LEMMA AgreementStep ==
    ASSUME TypeOK, covered = "never", covered' = "never", Agreement, [PageNext]_pageVars
    PROVE  Agreement'
<1> USE DEF Agreement
<1>1. inbox \in Seq(InboxMessages)
  BY DEF TypeOK
<1>2. ASSUME NEW m \in InboxMessages, inbox' = Append(inbox, m), AnswerWaits
      PROVE  AnswerWaits'
  <2>1. PICK i \in 1..Len(inbox) : inbox[i].kind \in {"opened", "failed"}
    BY <1>2 DEF AnswerWaits
  <2>2. i \in 1..Len(inbox') /\ inbox'[i] = inbox[i]
    BY <1>1, <1>2, AppendAt
  <2> QED
    BY <2>1, <2>2 DEF AnswerWaits
<1>3. ASSUME NEW m \in InboxMessages, m.kind \in {"opened", "failed"}, inbox' = Append(inbox, m)
      PROVE  AnswerWaits'
  <2>1. Len(inbox) + 1 \in 1..Len(inbox') /\ inbox'[Len(inbox) + 1] = m
    BY <1>1, <1>3, AppendAt
  <2> QED
    BY <1>3, <2>1 DEF AnswerWaits
<1>4. ASSUME NEW kind \in Handled \cup {"network"}, Take(kind, 0), AnswerWaits
      PROVE  AnswerWaits'
  <2>1. inbox # <<>> /\ inbox' = Tail(inbox) /\ inbox[1] = Msg(kind, 0)
    BY <1>1, <1>4, TailAt DEF Take
  <2>2. PICK i \in 1..Len(inbox) : inbox[i].kind \in {"opened", "failed"}
    BY <1>4 DEF AnswerWaits
  <2>3. i # 1
    BY <2>1, <2>2 DEF Msg, Handled
  <2>4. i - 1 \in 1..Len(inbox') /\ inbox'[i - 1] = inbox[i]
    BY <1>1, <2>1, <2>3, TailAt
  <2> QED
    BY <2>2, <2>4 DEF AnswerWaits
<1>5. CASE CreateView
  BY <1>5, LoadOK DEF CreateView, look
<1>6. ASSUME NEW k \in Opens, Io(k) PROVE Agreement'
  <2>1. UNCHANGED <<page, covered, video, error, background, playing>>
    BY <1>6 DEF Io, OpenReturns, Timeout, ConnectLate, look
  <2>2. CASE OpenReturns(k) \/ Timeout(k)
    <3>1. \E m \in {Msg("opened", k), Msg("failed", k)} : inbox' = Append(inbox, m)
      BY <2>2 DEF OpenReturns, Timeout, Enqueue
    <3>2. \A m \in {Msg("opened", k), Msg("failed", k)} :
              m \in InboxMessages /\ m.kind \in {"opened", "failed"}
      <4>1. Msg("opened", k) \in InboxMessages /\ Msg("failed", k) \in InboxMessages
        BY MessagesOf
      <4>2. Msg("opened", k).kind = "opened" /\ Msg("failed", k).kind = "failed"
        BY DEF Msg
      <4> QED
        BY <4>1, <4>2
    <3> QED
      BY <1>3, <2>1, <3>1, <3>2
  <2>3. CASE ConnectLate(k)
    <3>1. Connecting' = Connecting
      BY <2>3 DEF ConnectLate, Connecting, TypeOK
    <3>2. UNCHANGED inbox
      BY <2>3 DEF ConnectLate, LateStream
    <3> QED
      BY <2>1, <3>1, <3>2 DEF AnswerWaits
  <2> QED
    BY <1>6, <2>2, <2>3 DEF Io
<1>7. CASE NetworkChanges \/ \E kind \in Handled : Posted(kind)
  <2>1. UNCHANGED <<page, covered, video, error, background, playing, opens>>
    BY <1>7 DEF NetworkChanges, Posted, look
  <2>2. (\E m \in InboxMessages : inbox' = Append(inbox, m)) \/ UNCHANGED inbox
    BY <1>7, MessagesOf DEF NetworkChanges, Posted, Enqueue
  <2>3. AnswerWaits => AnswerWaits'
    BY <1>2, <2>2 DEF AnswerWaits
  <2> QED
    BY <2>1, <2>3 DEF Connecting
<1>8. CASE Hide \/ Show \/ Destroy
  BY <1>8 DEF Hide, Show, Destroy
<1>9. ASSUME NEW k \in Opens, Opened(k) \/ Failed(k) PROVE Agreement'
  BY <1>9 DEF Opened, Failed, HideVideo, ErrorAfterFailure, Opens
<1>10. CASE Toasted
  <2>1. UNCHANGED <<page, covered, video, error, background, playing, opens>>
    BY <1>10 DEF Toasted, look
  <2>2. AnswerWaits => AnswerWaits'
    BY <1>4, <1>10 DEF Toasted, Handled
  <2> QED
    BY <2>1, <2>2 DEF Connecting
<1>11. CASE SuccessOff
  BY <1>11 DEF SuccessOff, HideVideo
<1>12. CASE SuccessOn
  <2>1. PICK n \in 1..Burst : LoadIpCam(n)
    BY <1>12 DEF SuccessOn
  <2>2. Connecting' # {}
    BY <2>1, LoadOK, LimitsAssumption
  <2> QED
    BY <1>12, <2>2 DEF SuccessOn, ShowVideo
<1>13. CASE OnReceive
  <2>1. covered' = covered /\ page' = page
    BY <1>13 DEF OnReceive
  <2>2. CASE page # "alive"
    BY <1>13, <2>1, <2>2 DEF OnReceive, look
  <2>3. CASE page = "alive" /\ ~network
    BY <1>13, <2>1, <2>3 DEF OnReceive, HideVideo
  <2>4. CASE page = "alive" /\ network
    <3>1. Connecting' # {}
      BY <1>13, <2>4, LoadOK DEF OnReceive, Loads
    <3>2. video' = TRUE /\ background' = "black"
      BY <1>13, <2>4 DEF OnReceive, ShowVideo
    <3> QED
      BY <2>1, <3>1, <3>2
  <2> QED
    BY <2>2, <2>3, <2>4
<1>14. CASE UNCHANGED pageVars
  BY <1>14 DEF pageVars, Connecting, AnswerWaits
<1> QED
  BY <1>5, <1>6, <1>7, <1>8, <1>9, <1>10, <1>11, <1>12, <1>13, <1>14 DEF PageNext, System, MainThread

(* No step uncovers the page for good. *)
LEMMA IndStep ==
    ASSUME TypeOK, IndInv, [PageNext]_pageVars
    PROVE  IndInv'
<1> SUFFICES ASSUME covered' = "never"
             PROVE  Agreement'
  BY DEF IndInv
<1>1. covered = "never"
  <2>1. CASE CreateView \/ Hide \/ Show \/ Destroy \/ NetworkChanges
    BY <2>1 DEF CreateView, Hide, Show, Destroy, NetworkChanges
  <2>2. ASSUME NEW k \in Opens, Io(k) PROVE covered = "never"
    BY <2>2 DEF Io, OpenReturns, Timeout, ConnectLate
  <2>3. CASE MainThread
    BY <2>3 DEF MainThread, Opened, Failed, Toasted, SuccessOn, SuccessOff, OnReceive
  <2>4. ASSUME NEW kind \in Handled, Posted(kind) PROVE covered = "never"
    BY <2>4 DEF Posted
  <2>5. CASE UNCHANGED pageVars
    BY <2>5 DEF pageVars
  <2> QED
    BY <2>1, <2>2, <2>3, <2>4, <2>5 DEF PageNext, System
<1> QED
  BY <1>1, AgreementStep DEF IndInv

(* When nothing is outstanding, the page shows the video or the error page *)
(* on its background, and a stream plays exactly when the video is shown;  *)
(* for any number of loads whose answers come in any order, as long as no  *)
(* other window covered the page.                                          *)
THEOREM QuietAgreement == PageSpec => []QuietPageAgrees
<1>1. PageInit => IndInv
  BY DEF PageInit, IndInv, Agreement
<1>2. TypeOK /\ IndInv => QuietPageAgrees
  <2> SUFFICES ASSUME TypeOK, IndInv, Quiet
               PROVE  /\ error = ~video
                      /\ background = IF video THEN "black" ELSE "mjpg"
                      /\ playing # 0 <=> video
    BY DEF QuietPageAgrees
  <2>1. ~AnswerWaits
    BY DEF Quiet, AnswerWaits
  <2>2. video \in BOOLEAN /\ error \in BOOLEAN
    BY DEF TypeOK, PageOK
  <2> QED
    BY <2>1, <2>2 DEF IndInv, Agreement, Quiet
<1>3. TypeOK /\ IndInv /\ [PageNext]_pageVars => IndInv'
  BY IndStep
<1> QED
  BY <1>1, <1>2, <1>3, TypeCorrect, PTL DEF PageSpec
===============================================================================
