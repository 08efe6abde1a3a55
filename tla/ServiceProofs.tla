---------------------------- MODULE ServiceProofs -----------------------------
(***************************************************************************)
(* Proofs about MqttService, for every number of starts, and about Account,*)
(* for every number of users, login pages, clicks and deaths of the        *)
(* process.                                                                *)
(***************************************************************************)
EXTENDS MqttService, Account, TLAPS

-------------------------------------------------------------------------------
(* MqttService. *)

(* Before the first start nothing happens. *)
Idle == client = 0 => inbox = <<>> /\ ~running /\ conn = "down" /\ requests = {}

(* Without a connection there is no subscription. *)
IndInv == SubscriptionPursued /\ (subscribed => conn = "up")

LEMMA Names == 0 \notin Clients /\ \A c \in Clients : c \in Nat
  BY DEF Clients

(* What an event in the inbox becomes when another one is added, and when  *)
(* the first one is taken.                                                 *)
LEMMA AppendKeeps ==
    ASSUME NEW s \in Seq(Events), NEW e \in Events, NEW x \in Events,
           \E i \in 1..Len(s) : s[i] = x
    PROVE  \E i \in 1..Len(Append(s, e)) : Append(s, e)[i] = x
<1>1. PICK i \in 1..Len(s) : s[i] = x
  OBVIOUS
<1>2. i \in 1..Len(Append(s, e)) /\ Append(s, e)[i] = x
  BY <1>1
<1> QED
  BY <1>2

LEMMA AppendAdds ==
    ASSUME NEW s \in Seq(Events), NEW e \in Events
    PROVE  \E i \in 1..Len(Append(s, e)) : Append(s, e)[i] = e
<1>1. Len(Append(s, e)) = Len(s) + 1 /\ Append(s, e)[Len(s) + 1] = e /\ Len(s) \in Nat
  OBVIOUS
<1> QED
  BY <1>1

LEMMA TailKeeps ==
    ASSUME NEW s \in Seq(Events), s # <<>>, NEW x \in Events, Head(s) # x,
           \E i \in 1..Len(s) : s[i] = x
    PROVE  \E i \in 1..Len(Tail(s)) : Tail(s)[i] = x
<1>1. PICK i \in 1..Len(s) : s[i] = x
  OBVIOUS
<1>2. i # 1 /\ i \in Nat /\ Len(s) \in Nat
  BY <1>1
<1>3. i - 1 \in 1..Len(Tail(s)) /\ Tail(s)[i - 1] = s[i]
  BY <1>1, <1>2
<1> QED
  BY <1>1, <1>3

(* A step adds an event to the inbox, takes the first one, or leaves it. *)
LEMMA InboxSteps ==
    ASSUME [Next]_vars
    PROVE  \/ \E e \in Events : inbox' = Append(inbox, e)
           \/ inbox # <<>> /\ inbox' = Tail(inbox)
           \/ UNCHANGED inbox
<1> USE DEF Announce, Events
<1>1. CASE Start \/ Destroy \/ Accept \/ Fail \/ Lose \/ NetworkChanges
  BY <1>1 DEF Start, Destroy, Accept, Fail, Lose, NetworkChanges
<1>2. ASSUME NEW c \in Clients, Connect(c)
      PROVE  (\E e \in Events : inbox' = Append(inbox, e)) \/ UNCHANGED inbox
  BY <1>2 DEF Connect
<1>3. CASE MainThread
  BY <1>3 DEF MainThread, OnSuccess, OnFailure, ConnectionLost, OnReceive, Take
<1>4. CASE UNCHANGED vars
  BY <1>4 DEF vars
<1> QED
  BY <1>1, <1>2, <1>3, <1>4 DEF Next

LEMMA TypeStep ==
    ASSUME TypeOK, Idle, [Next]_vars
    PROVE  TypeOK' /\ Idle'
<1> USE DEF TypeOK
<1>1. inbox' \in Seq(Events)
  BY InboxSteps
<1>2. CASE Start
  <2>1. client + 1 \in Clients /\ client' = client + 1
    BY <1>2, MaxStartsAssumption DEF Start, Clients
  <2>2. requests' \subseteq Clients
    BY <1>2, <2>1 DEF Start, DoClientConnection, ConnectedByInit
  <2>3. client' # 0
    BY <2>1 DEF Clients
  <2> QED
    BY <1>1, <1>2, <2>1, <2>2, <2>3 DEF Start, Up, Idle
<1>3. CASE Destroy
  BY <1>1, <1>3 DEF Destroy, Idle
<1>4. ASSUME NEW c \in Clients, Connect(c) PROVE TypeOK' /\ Idle'
  <2>1. requests # {}
    BY <1>4 DEF Connect
  <2>2. client # 0 /\ client' = client
    BY <1>4, <2>1 DEF Connect, Idle
  <2> QED
    BY <1>1, <1>4, <2>2 DEF Connect, Up, Idle
<1>5. CASE Accept \/ Fail \/ Lose
  BY <1>1, <1>5 DEF Accept, Fail, Lose, Up, Idle
<1>6. CASE NetworkChanges
  <2>1. UNCHANGED <<running, client, bound, requests, conn, subscribed, process, hurried>>
    BY <1>6 DEF NetworkChanges, Up
  <2>2. network' \in BOOLEAN /\ link' \in BOOLEAN /\ (~running => inbox' = inbox)
    BY <1>6 DEF NetworkChanges
  <2> QED
    BY <1>1, <2>1, <2>2 DEF Idle
<1>7. CASE MainThread
  <2>1. inbox # <<>> /\ UNCHANGED <<running, client, bound, network, conn, link, hurried>>
    BY <1>7 DEF MainThread, OnSuccess, OnFailure, ConnectionLost, OnReceive, Take
  <2>2. client \in Clients
    BY <2>1 DEF Idle
  <2>3. requests' \subseteq Clients
    BY <1>7, <2>2 DEF MainThread, OnSuccess, OnFailure, ConnectionLost, OnReceive,
                      RequestsAfterFailure, DoClientConnection
  <2>4. process' \in {"up", "crashed"} /\ subscribed' \in BOOLEAN
    BY <1>7 DEF MainThread, OnSuccess, OnFailure, ConnectionLost, OnReceive, Take,
                SubscribedAfter
  <2>5. client' # 0
    BY <2>1, <2>2, Names
  <2> QED
    BY <1>1, <2>1, <2>3, <2>4, <2>5 DEF Idle
<1>8. CASE UNCHANGED vars
  BY <1>8 DEF vars, Idle
<1> QED
  BY <1>2, <1>3, <1>4, <1>5, <1>6, <1>7, <1>8 DEF Next

(* Every variable keeps its type. *)
THEOREM TypeCorrect == Spec => [](TypeOK /\ Idle)
<1>1. Init => TypeOK /\ Idle
  <2> SUFFICES ASSUME Init PROVE TypeOK /\ Idle
    OBVIOUS
  <2>1. inbox \in Seq(Events)
    BY DEF Init
  <2>2. TypeOK
    BY <2>1 DEF Init, TypeOK
  <2>3. Idle
    BY DEF Init, Idle
  <2> QED
    BY <2>2, <2>3
<1> QED
  BY <1>1, TypeStep, PTL DEF Spec

LEMMA IndStep ==
    ASSUME TypeOK, IndInv, [Next]_vars
    PROVE  IndInv'
<1> USE DEF IndInv, SubscriptionPursued, TypeOK
<1>0. "success" \in Events /\ "failure" \in Events /\ "lost" \in Events /\ "network" \in Events
  BY DEF Events
<1>1. ASSUME NEW e \in Events, inbox' = Append(inbox, e), Waiting("success")
      PROVE  Waiting("success")'
  BY <1>0, <1>1, AppendKeeps DEF Waiting
<1>2. ASSUME inbox' = Append(inbox, "success") PROVE Waiting("success")'
  BY <1>0, <1>2, AppendAdds DEF Waiting
<1>3. ASSUME NEW e \in Events, e # "success", Take(e), Waiting("success")
      PROVE  Waiting("success")'
  BY <1>0, <1>3, TailKeeps DEF Waiting, Take
<1>4. ASSUME UNCHANGED inbox, Waiting("success") PROVE Waiting("success")'
  BY <1>4 DEF Waiting
<1>5. CASE Start
  BY <1>0, <1>1, <1>5 DEF Start, Up, Announce
<1>6. CASE Destroy
  <2>1. \/ process' # "up" /\ UNCHANGED <<conn, subscribed>>
        \/ conn' # "up" /\ ~subscribed'
    BY <1>6 DEF Destroy
  <2>2. UNCHANGED inbox
    BY <1>6 DEF Destroy
  <2> QED
    BY <1>4, <2>1, <2>2
<1>7. ASSUME NEW c \in Clients, Connect(c) PROVE IndInv'
  BY <1>2, <1>4, <1>7 DEF Connect, Up, Announce
<1>8. CASE Accept \/ Fail \/ Lose
  BY <1>2, <1>8 DEF Accept, Fail, Lose, Up, Announce
<1>9. CASE NetworkChanges
  <2>1. (\E e \in Events : inbox' = Append(inbox, e)) \/ UNCHANGED inbox
    BY <1>0, <1>9 DEF NetworkChanges, Announce
  <2> QED
    BY <1>1, <1>4, <1>9, <2>1 DEF NetworkChanges, Up
<1>10. CASE OnSuccess
  <2>1. conn' = conn
    BY <1>10 DEF OnSuccess
  <2>2. \/ process' = "crashed" /\ subscribed' = subscribed
        \/ subscribed' <=> conn = "up"
    BY <1>10 DEF OnSuccess, SubscribedAfter
  <2> QED
    BY <2>1, <2>2
<1>11. CASE OnFailure \/ ConnectionLost \/ OnReceive
  <2>1. PICK e \in Events : e # "success" /\ Take(e)
    BY <1>0, <1>11 DEF OnFailure, ConnectionLost, OnReceive
  <2>2. UNCHANGED <<process, conn, subscribed>>
    BY <1>11 DEF OnFailure, ConnectionLost, OnReceive
  <2> QED
    BY <1>3, <2>1, <2>2
<1>12. CASE UNCHANGED vars
  BY <1>4, <1>12 DEF vars
<1> QED
  BY <1>5, <1>6, <1>7, <1>8, <1>9, <1>10, <1>11, <1>12 DEF Next, MainThread

(* A connection that is up is subscribed or about to be, however often the *)
(* service was started and the connection lost.                            *)
THEOREM Subscription == Spec => []SubscriptionPursued
<1>1. Init => IndInv
  BY DEF Init, IndInv, SubscriptionPursued
<1>2. IndInv => SubscriptionPursued
  BY DEF IndInv
<1> QED
  BY <1>1, <1>2, IndStep, TypeCorrect, PTL DEF Spec

-------------------------------------------------------------------------------
(* While no start was hurried, only the newest client has asked for an     *)
(* attempt, and it is bound before there is one to succeed.                *)
PatientInv ==
    ~hurried =>
        /\ process = "up"
        /\ requests \subseteq {client}
        /\ conn = "connecting" \/ Waiting("success") => client \in bound

LEMMA AppendBrings ==
    ASSUME NEW s \in Seq(Events), NEW e \in Events, NEW x \in Events, e # x,
           \E i \in 1..Len(Append(s, e)) : Append(s, e)[i] = x
    PROVE  \E i \in 1..Len(s) : s[i] = x
<1>1. PICK i \in 1..Len(Append(s, e)) : Append(s, e)[i] = x
  OBVIOUS
<1>2. i \in 1..Len(s) /\ s[i] = x
  BY <1>1
<1> QED
  BY <1>2

LEMMA TailBrings ==
    ASSUME NEW s \in Seq(Events), s # <<>>, NEW x \in Events,
           \E i \in 1..Len(Tail(s)) : Tail(s)[i] = x
    PROVE  \E i \in 1..Len(s) : s[i] = x
<1>1. PICK i \in 1..Len(Tail(s)) : Tail(s)[i] = x
  OBVIOUS
<1>2. i + 1 \in 1..Len(s) /\ s[i + 1] = x
  BY <1>1
<1> QED
  BY <1>2

LEMMA PatientStep ==
    ASSUME TypeOK, PatientInv, [Next]_vars
    PROVE  PatientInv'
<1> USE DEF PatientInv, TypeOK
<1>0. "success" \in Events /\ "failure" \in Events /\ "lost" \in Events /\ "network" \in Events
  BY DEF Events
<1>1. ASSUME NEW e \in Events, e # "success", inbox' = Append(inbox, e), Waiting("success")'
      PROVE  Waiting("success")
  BY <1>0, <1>1, AppendBrings DEF Waiting
<1>2. ASSUME NEW e \in Events, Take(e), Waiting("success")'
      PROVE  Waiting("success")
  BY <1>0, <1>2, TailBrings DEF Waiting, Take
<1>3. ASSUME UNCHANGED inbox, Waiting("success")' PROVE Waiting("success")
  BY <1>3 DEF Waiting
<1>4. CASE Start
  <2> SUFFICES ASSUME ~hurried' PROVE PatientInv'
    OBVIOUS
  <2>1. ~hurried /\ requests = {} /\ conn # "connecting" /\ inbox = <<>>
    BY <1>4, Zenon DEF Start
  <2>2. client' = client + 1 /\ process' = "up" /\ conn' = conn /\ inbox' = Append(inbox, "network")
    BY <1>4 DEF Start, Up, Announce
  <2>3. requests' \subseteq {client'}
    BY <1>4, <2>1, <2>2 DEF Start, DoClientConnection, ConnectedByInit
  <2>4. ~Waiting("success")
    BY <2>1 DEF Waiting
  <2> QED
    BY <1>0, <1>1, <2>1, <2>2, <2>3, <2>4
<1>5. CASE Destroy
  BY <1>5 DEF Destroy
<1>6. ASSUME NEW c \in Clients, Connect(c) PROVE PatientInv'
  <2>1. ~hurried => c = client
    BY <1>6 DEF Connect
  <2>2. /\ bound' = bound \cup {c} /\ requests' = requests \ {c}
        /\ UNCHANGED <<process, client, hurried>>
    BY <1>6 DEF Connect, Up
  <2> QED
    BY <2>1, <2>2
<1>7. CASE Accept
  BY <1>7 DEF Accept, Up
<1>8. CASE Fail \/ Lose
  <2>1. \E e \in Events : e # "success" /\ inbox' = Append(inbox, e)
    BY <1>0, <1>8 DEF Fail, Lose, Announce
  <2>2. conn' = "down" /\ UNCHANGED <<process, client, bound, requests, hurried>>
    BY <1>8 DEF Fail, Lose, Up
  <2> QED
    BY <1>1, <2>1, <2>2
<1>9. CASE NetworkChanges
  <2>1. inbox' = Append(inbox, "network") \/ UNCHANGED inbox
    BY <1>9 DEF NetworkChanges, Announce
  <2>2. UNCHANGED <<process, client, bound, requests, conn, hurried>>
    BY <1>9 DEF NetworkChanges, Up
  <2> QED
    BY <1>0, <1>1, <1>3, <2>1, <2>2
<1>10. CASE MainThread
  <2>1. PICK e \in Events : Take(e)
    BY <1>0, <1>10 DEF MainThread, OnSuccess, OnFailure, ConnectionLost, OnReceive
  <2>2. UNCHANGED <<client, bound, conn, hurried>>
    BY <1>10 DEF MainThread, OnSuccess, OnFailure, ConnectionLost, OnReceive
  <2>3. requests' \subseteq requests \cup {client}
    BY <1>10 DEF MainThread, OnSuccess, OnFailure, ConnectionLost, OnReceive,
                 RequestsAfterFailure, DoClientConnection
  <2>4. ~hurried => process' = "up"
    <3>1. CASE OnSuccess
      <4>1. Waiting("success")
        BY <3>1 DEF OnSuccess, Take, Waiting
      <4> QED
        BY <3>1, <4>1 DEF OnSuccess
    <3> QED
      BY <1>10, <3>1 DEF MainThread, OnFailure, ConnectionLost, OnReceive
  <2> QED
    BY <1>2, <2>1, <2>2, <2>3, <2>4
<1>11. CASE UNCHANGED vars
  BY <1>3, <1>11 DEF vars
<1> QED
  BY <1>4, <1>5, <1>6, <1>7, <1>8, <1>9, <1>10, <1>11 DEF Next

(* No callback uses a client that is not bound, for every number of starts *)
(* that leave each other time and however connections come and go.         *)
THEOREM BoundWhenUsed == Spec => []NoUnboundClient
<1>1. Init => PatientInv
  BY DEF Init, PatientInv, Waiting
<1>2. PatientInv => NoUnboundClient
  BY DEF PatientInv, NoUnboundClient
<1> QED
  BY <1>1, <1>2, PatientStep, TypeCorrect, PTL DEF Spec

-------------------------------------------------------------------------------
(* Account. *)

Texts == Users \cup {None}

Pages == {Splash, Main} \cup {Login(l) : l \in Nat}

AccountTypeOK ==
    /\ prefs \in [username : Texts, password : Texts, first : BOOLEAN]
    /\ entered \in [Logins -> Texts \X Texts]
    /\ posts \subseteq [id : Nat, login : Logins, entry : Users \X Users]
    /\ clicks \in Nat /\ logins \in Nat /\ strays \in Nat
    /\ stack \in Seq(Pages)
    /\ torn \in BOOLEAN /\ unsent \in BOOLEAN

(* The fields of a page are still those of its login that waits.           *)
FieldsWereSent == \A p \in posts : p.login \notin reused => entered[p.login] = p.entry

AccountInv == AccountTypeOK /\ FieldsWereSent /\ SavedWereAccepted /\ PagesDoNotPileUp

-------------------------------------------------------------------------------
(* finish() takes one page out of the stack, or none.                      *)
LEMMA FinishedLength ==
    ASSUME NEW page, stack \in Seq(Pages)
    PROVE  /\ Finished(page) \in Seq(Pages)
           /\ Len(Finished(page)) = IF Places(page) = {} THEN Len(stack) ELSE Len(stack) - 1
<1>1. CASE Places(page) = {}
  BY <1>1 DEF Finished
<1>2. CASE Places(page) # {}
  <2>1. PICK place \in 1..Len(stack) :
          Finished(page) = SubSeq(stack, 1, place - 1) \o SubSeq(stack, place + 1, Len(stack))
    <3>1. (CHOOSE i \in Places(page) : TRUE) \in Places(page)
      BY <1>2
    <3> QED
      BY <1>2, <3>1 DEF Finished, Places
  <2>2. /\ SubSeq(stack, 1, place - 1) \in Seq(Pages) /\ Len(SubSeq(stack, 1, place - 1)) = place - 1
        /\ SubSeq(stack, place + 1, Len(stack)) \in Seq(Pages)
        /\ Len(SubSeq(stack, place + 1, Len(stack))) = Len(stack) - place
    OBVIOUS
  <2>3. PICK before \in Seq(Pages), behind \in Seq(Pages) :
          /\ Finished(page) = before \o behind
          /\ Len(before) = place - 1 /\ Len(behind) = Len(stack) - place
    BY <2>1, <2>2
  <2>4. before \o behind \in Seq(Pages) /\ Len(before \o behind) = Len(before) + Len(behind)
    OBVIOUS
  <2>5. Len(stack) \in Nat /\ (place - 1) + (Len(stack) - place) = Len(stack) - 1
    OBVIOUS
  <2> QED
    BY <1>2, <2>3, <2>4, <2>5
<1> QED
  BY <1>1, <1>2

(* A page in front is in the stack. *)
LEMMA FrontIsAPlace ==
    ASSUME NEW page, stack \in Seq(Pages), InFront(page)
    PROVE  Places(page) # {} /\ Len(stack) >= 1
<1>1. Len(stack) \in 1..Len(stack) /\ stack[Len(stack)] = page
  BY DEF InFront
<1> QED
  BY <1>1 DEF Places

LEMMA AllButLast ==
    ASSUME NEW s \in Seq(Pages), Len(s) >= 1
    PROVE  SubSeq(s, 1, Len(s) - 1) \in Seq(Pages) /\ Len(SubSeq(s, 1, Len(s) - 1)) = Len(s) - 1
<1>1. PICK n \in Nat : n = Len(s) - 1 /\ n <= Len(s)
  <2>1. Len(s) \in Nat
    OBVIOUS
  <2>2. Len(s) - 1 \in Nat /\ Len(s) - 1 <= Len(s)
    BY <2>1
  <2> QED
    BY <2>2
<1>2. SubSeq(s, 1, n) \in Seq(Pages) /\ Len(SubSeq(s, 1, n)) = n
  BY <1>1
<1> QED
  BY <1>1, <1>2

(* The page that takes the place of another, or comes without one. *)
LEMMA Replaced ==
    ASSUME NEW page, NEW next \in Pages, stack \in Seq(Pages)
    PROVE  /\ Append(Finished(page), next) \in Seq(Pages)
           /\ Len(Append(Finished(page), next)) = IF Places(page) = {} THEN Len(stack) + 1 ELSE Len(stack)
<1>1. PICK f \in Seq(Pages) :
        f = Finished(page) /\ Len(f) = IF Places(page) = {} THEN Len(stack) ELSE Len(stack) - 1
  BY FinishedLength
<1>2. Append(f, next) \in Seq(Pages) /\ Len(Append(f, next)) = Len(f) + 1 /\ Len(stack) \in Nat
  OBVIOUS
<1> QED
  BY <1>1, <1>2

-------------------------------------------------------------------------------
LEMMA AccountInitial == AccountInit => AccountInv
<1> SUFFICES ASSUME AccountInit PROVE AccountInv
  OBVIOUS
<1> USE DEF AccountInit, Empty
<1>1. AccountTypeOK
  <2>1. prefs \in [username : Texts, password : Texts, first : BOOLEAN]
    BY DEF Texts
  <2>2. entered \in [Logins -> Texts \X Texts]
    BY DEF Texts
  <2>3. stack \in Seq(Pages)
    OBVIOUS
  <2> QED
    BY <2>1, <2>2, <2>3 DEF AccountTypeOK
<1>2. FieldsWereSent /\ SavedWereAccepted /\ PagesDoNotPileUp
  BY DEF FieldsWereSent, SavedWereAccepted, PagesDoNotPileUp
<1> QED
  BY <1>1, <1>2 DEF AccountInv

(* A success makes both commits, of fields that were sent unless the page  *)
(* was reused, or empties the file; a process that dies may make the first *)
(* of them; nothing else writes a name or a password.                      *)
LEMMA SavedStep ==
    ASSUME AccountTypeOK, FieldsWereSent, SavedWereAccepted, [AccountNext]_accountVars
    PROVE  /\ prefs' \in [username : Texts, password : Texts, first : BOOLEAN]
           /\ torn' \in BOOLEAN /\ unsent' \in BOOLEAN
           /\ SavedWereAccepted'
<1> USE DEF AccountTypeOK, SavedWereAccepted
<1>1. CASE /\ UNCHANGED <<torn, unsent, accepted>>
           /\ prefs' = prefs \/ prefs' = [prefs EXCEPT !.first = FALSE]
  <2>1. /\ prefs' \in [username : Texts, password : Texts, first : BOOLEAN]
        /\ prefs'.username = prefs.username /\ prefs'.password = prefs.password
    BY <1>1
  <2> QED
    BY <1>1, <2>1
<1>2. ASSUME NEW p \in posts, onResponse(p)
      PROVE  /\ prefs' \in [username : Texts, password : Texts, first : BOOLEAN]
             /\ torn' \in BOOLEAN /\ unsent' \in BOOLEAN
             /\ SavedWereAccepted'
  <2>1. /\ p.login \in Logins /\ p.entry \in Users \X Users
        /\ entered[p.login] \in Texts \X Texts
    OBVIOUS
  <2>2. PICK answer \in Answers(p.entry) :
          /\ accepted' = IF answer = "1" THEN accepted \cup {p.entry[1]} ELSE accepted
          /\ \/ Succeeds(answer) /\ onSuccess(p.login)
             \/ UNCHANGED <<prefs, torn, unsent>>
    BY <1>2 DEF onResponse, onFail
  <2>3. accepted \subseteq accepted'
    BY <2>2
  <2>4. CASE UNCHANGED <<prefs, torn, unsent>>
    BY <2>3, <2>4
  <2>5. CASE Succeeds(answer) /\ onSuccess(p.login)
    <3>1. answer = "1" /\ p.entry[1] = p.entry[2] /\ accepted' = accepted \cup {p.entry[1]}
      BY <2>2, <2>5 DEF Succeeds, Answers, Accepted
    <3>2. torn' = FALSE
      BY <2>5 DEF onSuccess
    <3>3. CASE prefs' = Saved(p.login) /\ unsent' = (p.login \in reused)
      <4>1. prefs' = [username |-> entered[p.login][1], password |-> entered[p.login][2],
                      first |-> prefs.first]
        BY <2>1, <3>3 DEF Saved
      <4>2. ~ unsent' => entered[p.login] = p.entry
        BY <3>3 DEF FieldsWereSent
      <4>3. /\ prefs' \in [username : Texts, password : Texts, first : BOOLEAN]
            /\ prefs'.username = entered[p.login][1] /\ prefs'.password = entered[p.login][2]
        BY <2>1, <4>1
      <4>4. SavedWereAccepted'
        BY <3>1, <4>2, <4>3
      <4>5. torn' \in BOOLEAN
        BY <3>2
      <4>6. unsent' \in BOOLEAN
        <5>1. CASE p.login \in reused
          BY <3>3, <5>1
        <5>2. CASE p.login \notin reused
          BY <3>3, <5>2
        <5> QED
          BY <5>1, <5>2
      <4> QED
        BY <4>3, <4>4, <4>5, <4>6
    <3>4. CASE prefs' = Empty /\ unsent' = FALSE
      BY <3>2, <3>4 DEF Empty, Texts
    <3> QED
      BY <2>5, <3>3, <3>4 DEF onSuccess
  <2> QED
    BY <2>2, <2>4, <2>5
<1>3. CASE Dies
  <2>1. CASE UNCHANGED <<prefs, accepted, torn, unsent>>
    BY <1>1, <2>1
  <2>2. ASSUME NEW p \in posts, Accepted(p.entry), torn' = TRUE,
               prefs' = [prefs EXCEPT !.username = entered[p.login][1]],
               accepted' = accepted \cup {p.entry[1]},
               unsent' = (unsent \/ p.login \in reused)
        PROVE  /\ prefs' \in [username : Texts, password : Texts, first : BOOLEAN]
               /\ torn' \in BOOLEAN /\ unsent' \in BOOLEAN
               /\ SavedWereAccepted'
    <3>1. /\ p.login \in Logins /\ p.entry \in Users \X Users
          /\ entered[p.login] \in Texts \X Texts
      OBVIOUS
    <3>2. /\ prefs' \in [username : Texts, password : Texts, first : BOOLEAN]
          /\ prefs'.username = entered[p.login][1] /\ prefs'.password = prefs.password
      BY <2>2, <3>1
    <3>3. ~ unsent' => ~ unsent /\ p.login \notin reused
      BY <2>2, Zenon
    <3>4. ~ unsent' => entered[p.login] = p.entry
      BY <3>3 DEF FieldsWereSent
    <3>5. SavedWereAccepted'
      BY <2>2, <3>2, <3>3, <3>4
    <3>6. torn' \in BOOLEAN /\ unsent' \in BOOLEAN
      BY <2>2, Zenon
    <3> QED
      BY <3>2, <3>5, <3>6
  <2> QED
    BY <1>3, <2>1, <2>2 DEF Dies
<1>4. CASE UNCHANGED accountVars
  BY <1>1, <1>4 DEF accountVars, historyVars
<1>5. CASE Launch \/ HandleSplash \/ CreateMain \/ RecreateMain \/ Logout
  BY <1>1, <1>5 DEF Launch, HandleSplash, CreateMain, RecreateMain, Logout, historyVars
<1>6. ASSUME NEW l \in Logins,
             (\E entry \in Users \X (Users \cup {None}) : ClickLogin(l, entry))
               \/ CancelDialog(l) \/ LeaveLogin(l) \/ DismissDialog(l)
      PROVE  UNCHANGED <<torn, unsent, accepted, prefs>>
  BY <1>6 DEF ClickLogin, CancelDialog, LeaveLogin, DismissDialog, historyVars
<1> QED
  BY <1>1, <1>2, <1>3, <1>4, <1>5, <1>6 DEF AccountNext

(* What waits was sent from the fields of its page, which change with the  *)
(* page's next use only.                                                   *)
LEMMA SentStep ==
    ASSUME AccountTypeOK, FieldsWereSent, [AccountNext]_accountVars
    PROVE  /\ FieldsWereSent'
           /\ entered' \in [Logins -> Texts \X Texts]
           /\ posts' \subseteq [id : Nat, login : Logins, entry : Users \X Users]
           /\ clicks' \in Nat
<1> USE DEF AccountTypeOK, FieldsWereSent
<1>1. CASE UNCHANGED <<entered, reused, clicks>> /\ posts' \subseteq posts
  BY <1>1
<1>2. ASSUME NEW l \in Logins, NEW entry \in Users \X (Users \cup {None}), ClickLogin(l, entry)
      PROVE  /\ FieldsWereSent'
             /\ entered' \in [Logins -> Texts \X Texts]
             /\ posts' \subseteq [id : Nat, login : Logins, entry : Users \X Users]
             /\ clicks' \in Nat
  <2> DEFINE post == [id |-> clicks', login |-> l, entry |-> entry]
  <2>1. /\ clicks' = clicks + 1
        /\ entered' = [entered EXCEPT ![l] = entry]
        /\ reused' = IF \E p \in posts : p.login = l THEN reused \cup {l} ELSE reused
    BY <1>2 DEF ClickLogin
  <2>2. posts' = posts \/ (posts' = posts \cup {post} /\ entry \in Users \X Users)
    BY <1>2 DEF ClickLogin
  <2>3. clicks' \in Nat /\ entered' \in [Logins -> Texts \X Texts]
    BY <2>1 DEF Texts
  <2>4. posts' \subseteq [id : Nat, login : Logins, entry : Users \X Users]
    BY <2>2, <2>3
  <2>5. ASSUME NEW p \in posts', p.login \notin reused' PROVE entered'[p.login] = p.entry
    <3>1. CASE p \in posts
      <4>1. p.login # l /\ p.login \notin reused /\ p.login \in Logins
        BY <2>1, <2>5, <3>1
      <4> QED
        BY <2>1, <3>1, <4>1
    <3>2. CASE p = post
      BY <2>1, <3>2
    <3> QED
      BY <2>2, <2>5, <3>1, <3>2
  <2> QED
    BY <2>3, <2>4, <2>5
<1>3. CASE Dies
  <2>1. posts' = {} /\ entered' = [l \in Logins |-> <<None, None>>] /\ clicks' = 0
    BY <1>3 DEF Dies
  <2> QED
    BY <2>1 DEF Texts
<1>4. CASE UNCHANGED accountVars
  BY <1>1, <1>4 DEF accountVars, pageVars, historyVars
<1>5. CASE Launch \/ HandleSplash \/ CreateMain \/ RecreateMain \/ Logout
  BY <1>1, <1>5 DEF Launch, HandleSplash, CreateMain, RecreateMain, Logout, historyVars, pageVars
<1>6. ASSUME NEW l \in Logins, CancelDialog(l) \/ LeaveLogin(l) \/ DismissDialog(l)
      PROVE  UNCHANGED <<entered, reused, clicks, posts>>
  BY <1>6 DEF CancelDialog, LeaveLogin, DismissDialog, historyVars
<1>7. ASSUME NEW p \in posts, onResponse(p)
      PROVE  UNCHANGED <<entered, reused, clicks>> /\ posts' \subseteq posts
  BY <1>7 DEF onResponse
<1> QED
  BY <1>1, <1>2, <1>3, <1>4, <1>5, <1>6, <1>7 DEF AccountNext

(* A page comes in the place of another, unless the login that brings it   *)
(* is a stray.                                                             *)
LEMMA PagesStep ==
    ASSUME AccountTypeOK, PagesDoNotPileUp, [AccountNext]_accountVars
    PROVE  stack' \in Seq(Pages) /\ strays' \in Nat /\ logins' \in Nat /\ PagesDoNotPileUp'
<1> USE DEF AccountTypeOK, PagesDoNotPileUp
<1>0. Len(stack) \in Nat
  OBVIOUS
<1>a. Splash \in Pages /\ Main \in Pages /\ \A l \in Nat : Login(l) \in Pages
  BY DEF Pages
<1>1. CASE UNCHANGED <<stack, strays, logins>>
  BY <1>1
<1>2. CASE Launch
  BY <1>2, <1>a DEF Launch, historyVars
<1>3. CASE HandleSplash
  <2>1. InFront(Splash) /\ logins' = logins + 1 /\ stack' = Append(Finished(Splash), Login(logins'))
        /\ UNCHANGED strays
    BY <1>3 DEF HandleSplash, historyVars
  <2>2. Login(logins') \in Pages /\ logins' \in Nat
    BY <1>a, <2>1
  <2>3. Places(Splash) # {}
    BY <2>1, FrontIsAPlace
  <2> QED
    BY <2>1, <2>2, <2>3, Replaced
<1>4. ASSUME NEW l \in Logins, NEW entry \in Users \X (Users \cup {None}), ClickLogin(l, entry)
      PROVE  UNCHANGED <<stack, strays, logins>>
  BY <1>4 DEF ClickLogin
<1>5. ASSUME NEW l \in Logins, CancelDialog(l) \/ DismissDialog(l)
      PROVE  UNCHANGED <<stack, strays, logins>>
  BY <1>5 DEF CancelDialog, DismissDialog, historyVars
<1>6. ASSUME NEW l \in Logins, LeaveLogin(l)
      PROVE  stack' \in Seq(Pages) /\ strays' \in Nat /\ logins' \in Nat /\ PagesDoNotPileUp'
  <2>1. stack' = Finished(Login(l)) /\ UNCHANGED <<strays, logins>>
    BY <1>6 DEF LeaveLogin, historyVars
  <2> QED
    BY <1>0, <2>1, FinishedLength
<1>7. ASSUME NEW p \in posts, onResponse(p)
      PROVE  stack' \in Seq(Pages) /\ strays' \in Nat /\ logins' \in Nat /\ PagesDoNotPileUp'
  <2>1. UNCHANGED logins /\ (UNCHANGED <<stack, strays>> \/ onSuccess(p.login))
    BY <1>7 DEF onResponse, onFail
  <2>2. CASE onSuccess(p.login)
    <3>1. /\ stack' = Append(Finished(Login(p.login)), Main)
          /\ strays' = strays + (IF Places(Login(p.login)) = {} THEN 1 ELSE 0)
      BY <2>2 DEF onSuccess, StackAfterSuccess
    <3>2. /\ stack' \in Seq(Pages)
          /\ Len(stack') = IF Places(Login(p.login)) = {} THEN Len(stack) + 1 ELSE Len(stack)
      BY <1>a, <3>1, Replaced
    <3> QED
      BY <1>0, <2>1, <3>1, <3>2
  <2> QED
    BY <2>1, <2>2
<1>8. CASE CreateMain \/ RecreateMain
  BY <1>8 DEF CreateMain, RecreateMain, historyVars, pageVars
<1>9. CASE Logout
  <2>1. InFront(Main) /\ logins' = logins + 1 /\ UNCHANGED strays
        /\ stack' = Append(SubSeq(stack, 1, Len(stack) - 1), Login(logins'))
    BY <1>9 DEF Logout, historyVars
  <2>2. Login(logins') \in Pages /\ logins' \in Nat /\ Len(stack) >= 1
    BY <1>a, <2>1, FrontIsAPlace
  <2>3. PICK rest \in Seq(Pages) : rest = SubSeq(stack, 1, Len(stack) - 1) /\ Len(rest) = Len(stack) - 1
    BY <2>2, AllButLast
  <2>4. Append(rest, Login(logins')) \in Seq(Pages) /\ Len(Append(rest, Login(logins'))) = Len(rest) + 1
    BY <2>2
  <2> QED
    BY <1>0, <2>1, <2>2, <2>3, <2>4
<1>10. CASE Dies
  BY <1>10 DEF Dies
<1>11. CASE UNCHANGED accountVars
  BY <1>11 DEF accountVars, pageVars, historyVars
<1> QED
  BY <1>1, <1>2, <1>3, <1>4, <1>5, <1>6, <1>7, <1>8, <1>9, <1>10, <1>11 DEF AccountNext

LEMMA AccountInvariant == AccountSpec => []AccountInv
<1>1. AccountInv /\ [AccountNext]_accountVars => AccountInv'
  <2> SUFFICES ASSUME AccountInv, [AccountNext]_accountVars PROVE AccountInv'
    OBVIOUS
  <2>1. AccountTypeOK'
    BY SavedStep, SentStep, PagesStep DEF AccountInv, AccountTypeOK
  <2>2. FieldsWereSent' /\ SavedWereAccepted' /\ PagesDoNotPileUp'
    BY SavedStep, SentStep, PagesStep DEF AccountInv
  <2> QED
    BY <2>1, <2>2 DEF AccountInv
<1> QED
  BY <1>1, AccountInitial, PTL DEF AccountSpec

(* The name and the password that the file has are of users the server     *)
(* accepted, and of one login unless the process died between its commits  *)
(* and nobody logged in since, for every number of users, logins, clicks   *)
(* and deaths, as long as the file was not last written for a page that    *)
(* was used again while its login waited.                                  *)
THEOREM SavedAccepted == AccountSpec => []SavedWereAccepted
<1>1. AccountInv => SavedWereAccepted
  BY DEF AccountInv
<1> QED
  BY <1>1, AccountInvariant, PTL

(* There is one page in the stack and no more, but for one more with each  *)
(* success for a login page that was gone, however often users log in and  *)
(* out, use their pages again, and leave them while a login waits.         *)
THEOREM PagesCounted == AccountSpec => []PagesDoNotPileUp
<1>1. AccountInv => PagesDoNotPileUp
  BY DEF AccountInv
<1> QED
  BY <1>1, AccountInvariant, PTL
===============================================================================
