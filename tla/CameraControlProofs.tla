-------------------------- MODULE CameraControlProofs --------------------------
(***************************************************************************)
(* Proofs about CameraControl for every number of clicks: what holds as    *)
(* long as one command ends before the next is clicked (Login, Closed),    *)
(* and what holds of commands that overlap as well (EachItsAnswer).        *)
(***************************************************************************)
EXTENDS CameraControl, FiniteSetTheorems, TLAPS

Posts == [thread : Threads, kind : {"connected", "unconnected"} \cup Commands]

Types ==
    /\ command \in [Threads -> Commands \cup {"none"}]
    /\ pc \in [Threads -> 0..15]
    /\ \A t \in Threads : /\ command[t] = "none" => pc[t] = 0
                          /\ command[t] = "off" => pc[t] <= 12
    /\ visible \in [Fields -> [Threads -> SUBSET Sockets]]
    /\ state \in [Sockets -> States]
    /\ received \in [Sockets -> Seq(Messages)]
    /\ sent \in [Threads -> Sockets \cup {-1}]
    /\ posted \in Seq(Posts)
    /\ overlapped \in BOOLEAN

(* The thread is past a step of its script, at this place when it switches *)
(* the camera on, at that when off.                                        *)
Past(t, on, off) == pc[t] > IF command[t] = "on" THEN on ELSE off

(* Only one thread runs. *)
Alone == \A t, u \in Threads : Running(t) /\ Running(u) => t = u

(* A thread that runs finds the socket it made, writes to the stream of    *)
(* that socket, has logged in on it, and its command went there.           *)
OwnSocket ==
    \A t \in Threads :
        /\ pc[t] > 1 => \E s \in Sockets : visible["socket"][t] = {s}
        /\ Past(t, 5, 4) => visible["out"][t] = visible["socket"][t]
        /\ Past(t, 6, 5) => \A s \in visible["socket"][t] : received[s] # <<>>
        /\ Past(t, 10, 7) => visible["socket"][t] = {sent[t]}

(* Nothing is received before the login. *)
Logins ==
    /\ \A s \in Sockets : received[s] # <<>> => Head(received[s]) = "user"
    /\ \A t \in Threads : sent[t] # -1 => received[sent[t]] # <<>>

(* The connection that the command of a thread went to is closed. *)
SentClosed(t) == sent[t] \in Sockets /\ state[sent[t]] \in ClosedStates

(* A thread posts its success right before it closes the connection. *)
Closing ==
    /\ \A i \in 1..Len(posted) : command[posted[i].thread] # "none"
    /\ \A t \in Threads : /\ Succeeded(t) => Past(t, 13, 10) \/ (pc[t] = 0 /\ SentClosed(t))
                          /\ Past(t, 14, 11) => SentClosed(t)

InTurn == ~overlapped => Alone /\ OwnSocket /\ Logins
InTurnClosed == ~overlapped => Closing

-------------------------------------------------------------------------------
(* Where in its script a thread is at each step. *)
LEMMA Scripts ==
    /\ Len(TurnOn) = 15 /\ Len(TurnOff) = 12
    /\ \A i \in 1..15 :
        /\ TurnOn[i] = "create"  <=> i \in {1, 2}
        /\ TurnOn[i] = "output"  <=> i \in {5, 9}
        /\ TurnOn[i] = "user"    <=> i = 6
        /\ TurnOn[i] = "on"      <=> i = 10
        /\ TurnOn[i] # "off"
        /\ TurnOn[i] = "success" <=> i = 13
        /\ TurnOn[i] = "close"   <=> i = 14
        /\ TurnOn[i] = "shutdown" <=> i = 15
    /\ \A i \in 1..12 :
        /\ TurnOff[i] = "create"  <=> i = 1
        /\ TurnOff[i] = "output"  <=> i \in {4, 6}
        /\ TurnOff[i] = "user"    <=> i = 5
        /\ TurnOff[i] = "off"     <=> i = 7
        /\ TurnOff[i] # "on"
        /\ TurnOff[i] = "success" <=> i = 10
        /\ TurnOff[i] = "close"   <=> i = 11
        /\ TurnOff[i] = "shutdown" <=> i = 12
<1>1. Len(TurnOn) = 15 /\ Len(TurnOff) = 12
  BY DEF TurnOn, TurnOff
<1>2. ASSUME NEW i \in 1..15
      PROVE  /\ TurnOn[i] = "create"  <=> i \in {1, 2}
             /\ TurnOn[i] = "output"  <=> i \in {5, 9}
             /\ TurnOn[i] = "user"    <=> i = 6
             /\ TurnOn[i] = "on"      <=> i = 10
             /\ TurnOn[i] # "off"
             /\ TurnOn[i] = "success" <=> i = 13
             /\ TurnOn[i] = "close"   <=> i = 14
             /\ TurnOn[i] = "shutdown" <=> i = 15
  BY SMTT(60) DEF TurnOn
<1>3. ASSUME NEW i \in 1..12
      PROVE  /\ TurnOff[i] = "create"  <=> i = 1
             /\ TurnOff[i] = "output"  <=> i \in {4, 6}
             /\ TurnOff[i] = "user"    <=> i = 5
             /\ TurnOff[i] = "off"     <=> i = 7
             /\ TurnOff[i] # "on"
             /\ TurnOff[i] = "success" <=> i = 10
             /\ TurnOff[i] = "close"   <=> i = 11
             /\ TurnOff[i] = "shutdown" <=> i = 12
  BY SMTT(60) DEF TurnOff
<1> QED
  BY <1>1, <1>2, <1>3

(* A thread that runs has a command and is within its script. *)
LEMMA Placed ==
    ASSUME Types, NEW t \in Threads, Running(t)
    PROVE  \/ command[t] = "on" /\ pc[t] \in 1..15 /\ Script(command[t]) = TurnOn
           \/ command[t] = "off" /\ pc[t] \in 1..12 /\ Script(command[t]) = TurnOff
  BY DEF Types, Running, Commands, Script

(* A step that goes on moves its thread one place, or ends it at the last. *)
LEMMA Moves ==
    ASSUME Types, NEW t \in Threads, Running(t), Advance(t)
    PROVE  /\ pc' \in [Threads -> 0..15]
           /\ \A u \in Threads \ {t} : pc'[u] = pc[u]
           /\ \/ pc'[t] = pc[t] + 1 /\ ~Past(t, 14, 11)
              \/ pc'[t] = 0 /\ Past(t, 14, 11)
           /\ command[t] = "off" => pc'[t] <= 12
<1>1. pc \in [Threads -> 0..15]
  BY DEF Types
<1>2. \/ command[t] = "on" /\ pc[t] \in 1..15 /\ Len(Script(command[t])) = 15
      \/ command[t] = "off" /\ pc[t] \in 1..12 /\ Len(Script(command[t])) = 12
  BY Placed, Scripts
<1>3. pc' = [pc EXCEPT ![t] = IF pc[t] = Len(Script(command[t])) THEN 0 ELSE pc[t] + 1]
  BY DEF Advance
<1>4. pc'[t] = IF pc[t] = Len(Script(command[t])) THEN 0 ELSE pc[t] + 1
  BY <1>1, <1>3
<1>5. \/ /\ command[t] = "on" /\ pc[t] \in 1..15
         /\ pc'[t] = IF pc[t] = 15 THEN 0 ELSE pc[t] + 1
      \/ /\ command[t] = "off" /\ pc[t] \in 1..12
         /\ pc'[t] = IF pc[t] = 12 THEN 0 ELSE pc[t] + 1
  BY <1>2, <1>4, Zenon
<1>6. pc'[t] \in 0..15 /\ (command[t] = "off" => pc'[t] <= 12)
  BY <1>5
<1>7. pc' \in [Threads -> 0..15] /\ \A u \in Threads \ {t} : pc'[u] = pc[u]
  BY <1>1, <1>3, <1>4, <1>6
<1>8. \/ pc'[t] = pc[t] + 1 /\ ~Past(t, 14, 11)
      \/ pc'[t] = 0 /\ Past(t, 14, 11)
  BY <1>5 DEF Past
<1> QED
  BY <1>6, <1>7, <1>8

LEMMA Ends ==
    ASSUME Types, NEW t \in Threads, Throw(t)
    PROVE  /\ pc' \in [Threads -> 0..15] /\ pc'[t] = 0
           /\ \A u \in Threads \ {t} : pc'[u] = pc[u]
  BY DEF Types, Throw

(* The part of the types about the threads, for a step of a thread. *)
LEMMA PlaceTypes ==
    ASSUME Types, NEW t \in Threads, Running(t), Advance(t) \/ Throw(t), UNCHANGED command
    PROVE  /\ command' \in [Threads -> Commands \cup {"none"}]
           /\ pc' \in [Threads -> 0..15]
           /\ \A u \in Threads : /\ command'[u] = "none" => pc'[u] = 0
                                 /\ command'[u] = "off" => pc'[u] <= 12
<1>1. /\ pc' \in [Threads -> 0..15]
      /\ \A u \in Threads \ {t} : pc'[u] = pc[u]
      /\ command[t] = "off" => pc'[t] <= 12
  BY Moves, Ends
<1>2. command[t] # "none"
  BY Placed
<1> QED
  BY <1>1, <1>2 DEF Types

-------------------------------------------------------------------------------
LEMMA TypesStep == Types /\ [Next]_vars => Types'
<1> SUFFICES ASSUME Types, [Next]_vars
             PROVE  Types'
  OBVIOUS
<1> USE DEF history, server
<1>1. ASSUME NEW c \in Commands, Click(c)
      PROVE  Types'
  BY <1>1 DEF Types, Click, Commands, Running
<1>2. ASSUME NEW t \in Threads, Create(t)
      PROVE  Types'
  <2>1. Running(t) /\ Advance(t)
    BY <1>2 DEF Types, Create, At
  <2> QED
    BY <1>2, <2>1, PlaceTypes DEF Types, Create, Write, States, Fields
<1>3. ASSUME NEW t \in Threads, Connect(t)
      PROVE  Types'
  <2>1. Running(t)
    BY <1>3 DEF Types, Connect, At
  <2>2. state' \in [Sockets -> States]
    BY <1>3 DEF Types, Connect, States
  <2>3. Advance(t) \/ Throw(t)
    BY <1>3 DEF Types, Connect
  <2> QED
    BY <1>3, <2>1, <2>2, <2>3, PlaceTypes DEF Types, Connect
<1>4. ASSUME NEW t \in Threads, Check(t) \/ Success(t)
      PROVE  Types'
  <2>1. Running(t) /\ Advance(t)
    BY <1>4 DEF Types, Check, Success, At
  <2>2. command[t] \in Commands
    BY <2>1, Placed DEF Types, Commands
  <2>3. \E p \in Posts : posted' = Append(posted, p)
    BY <1>4, <2>2 DEF Types, Check, Success, Post, Posts, Outcome
  <2> QED
    BY <1>4, <2>1, <2>3, PlaceTypes DEF Types, Check, Success
<1>5. ASSUME NEW t \in Threads, GetOutput(t) \/ GetInput(t)
      PROVE  Types'
  <2>1. Running(t)
    BY <1>5 DEF Types, GetOutput, GetInput, At
  <2>2. visible' \in [Fields -> [Threads -> SUBSET Sockets]]
    <3>1. ASSUME NEW f \in Fields, NEW s \in Sockets, Write(t, f, s)
          PROVE  visible' \in [Fields -> [Threads -> SUBSET Sockets]]
      BY <3>1 DEF Types, Write
    <3>2. \A s \in visible["socket"][t] : s \in Sockets
      BY DEF Types, Fields
    <3>3. \/ \E f \in Fields, s \in Sockets : Write(t, f, s)
          \/ UNCHANGED visible
      BY <1>5, <3>2 DEF GetOutput, GetInput, Fields
    <3> QED
      BY <3>1, <3>3 DEF Types
  <2>3. Advance(t) \/ Throw(t)
    BY <1>5 DEF Types, GetOutput, GetInput
  <2> QED
    BY <1>5, <2>1, <2>2, <2>3, PlaceTypes DEF Types, GetOutput, GetInput
<1>6. ASSUME NEW t \in Threads, NEW m \in Messages, Send(t, m)
      PROVE  Types'
  <2>1. Running(t)
    BY <1>6 DEF Types, Send, At
  <2>2. received' \in [Sockets -> Seq(Messages)] /\ sent' \in [Threads -> Sockets \cup {-1}]
    <3>1. \A s \in visible["out"][t] : s \in Sockets
      BY DEF Types, Fields
    <3>2. ASSUME NEW s \in Sockets, received' = [received EXCEPT ![s] = Append(@, m)]
          PROVE  received' \in [Sockets -> Seq(Messages)]
      BY <3>2 DEF Types
    <3>3. received' \in [Sockets -> Seq(Messages)]
      BY <1>6, <3>1, <3>2 DEF Send, Types
    <3>4. sent' \in [Threads -> Sockets \cup {-1}]
      BY <1>6, <3>1 DEF Send, Types
    <3> QED
      BY <3>3, <3>4
  <2>3. Advance(t) \/ Throw(t)
    BY <1>6 DEF Types, Send
  <2> QED
    BY <1>6, <2>1, <2>2, <2>3, PlaceTypes DEF Types, Send
<1>7. ASSUME NEW t \in Threads, Read(t)
      PROVE  Types'
  <2>1. Running(t)
    BY <1>7 DEF Types, Read, At
  <2>2. Advance(t) \/ Throw(t)
    BY <1>7 DEF Types, Read
  <2> QED
    BY <1>7, <2>1, <2>2, PlaceTypes DEF Types, Read
<1>8. ASSUME NEW t \in Threads, Close(t) \/ Shutdown(t)
      PROVE  Types'
  <2>1. Running(t) /\ Advance(t)
    BY <1>8 DEF Types, Close, Shutdown, At
  <2>2. state' \in [Sockets -> States]
    BY <1>8 DEF Types, Close, Shutdown, States
  <2> QED
    BY <1>8, <2>1, <2>2, PlaceTypes DEF Types, Close, Shutdown
<1>9. ASSUME NEW s \in Sockets, Answer(s) \/ Reset(s)
      PROVE  Types'
  BY <1>9 DEF Types, Answer, Reset, States
<1>10. CASE UNCHANGED vars
  BY <1>10 DEF Types, vars
<1> QED
  BY <1>1, <1>2, <1>3, <1>4, <1>5, <1>6, <1>7, <1>8, <1>9, <1>10 DEF Next, Run

-------------------------------------------------------------------------------
(* The steps of a script, as a thread that takes them sees its place. *)
LEMMA Place ==
    ASSUME Types, NEW t \in Threads, Running(t)
    PROVE  /\ At(t, "create") => ~Past(t, 2, 1)
           /\ At(t, "output") => pc[t] > 1 /\ ~Past(t, 9, 6) /\ (Past(t, 5, 4) => Past(t, 6, 5))
           /\ At(t, "user") => Past(t, 5, 4) /\ ~Past(t, 6, 5)
           /\ \A c \in Commands : At(t, c) => Past(t, 9, 6) /\ ~Past(t, 10, 7)
           /\ At(t, "success") => Past(t, 12, 9)
           /\ At(t, "close") <=> Past(t, 13, 10) /\ ~Past(t, 14, 11)
           /\ At(t, "shutdown") <=> Past(t, 14, 11)
           /\ pc[t] = 1 => At(t, "create")
           /\ Past(t, 4, 3) /\ ~Past(t, 5, 4) => At(t, "output")
           /\ Past(t, 5, 4) /\ ~Past(t, 6, 5) => At(t, "user")
           /\ Past(t, 9, 6) /\ ~Past(t, 10, 7) => At(t, command[t])
           /\ Past(t, 12, 9) /\ ~Past(t, 13, 10) => At(t, "success")
<1>1. CASE command[t] = "on" /\ pc[t] \in 1..15 /\ Script(command[t]) = TurnOn
  BY <1>1, Scripts DEF At, Doing, Past, Commands
<1>2. CASE command[t] = "off" /\ pc[t] \in 1..12 /\ Script(command[t]) = TurnOff
  BY <1>2, Scripts DEF At, Doing, Past, Commands
<1> QED
  BY <1>1, <1>2, Placed

LEMMA Earlier ==
    ASSUME Types, NEW t \in Threads
    PROVE  /\ pc[t] \in 0..15
           /\ Past(t, 14, 11) => Past(t, 13, 10)
           /\ Past(t, 13, 10) => Past(t, 12, 9)
           /\ Past(t, 12, 9) => Past(t, 10, 7)
           /\ Past(t, 10, 7) => Past(t, 9, 6)
           /\ Past(t, 9, 6) => Past(t, 6, 5)
           /\ Past(t, 6, 5) => Past(t, 5, 4)
           /\ Past(t, 5, 4) => pc[t] > 1
<1>1. pc[t] \in 0..15
  BY DEF Types
<1> QED
  BY <1>1 DEF Past

(* While a thread runs alone the others have no place, before and after    *)
(* its step.                                                               *)
LEMMA Others ==
    ASSUME Types, Alone, NEW t \in Threads, Running(t), Advance(t) \/ Throw(t)
    PROVE  \A u \in Threads \ {t} : pc[u] = 0 /\ pc'[u] = 0
<1>1. \A u \in Threads \ {t} : pc'[u] = pc[u]
  BY Moves, Ends
<1>2. \A u \in Threads \ {t} : ~(pc[u] > 0) /\ pc[u] \in 0..15
  BY DEF Alone, Running, Types
<1> QED
  BY <1>1, <1>2

(* What is to be shown when one thread at most runs after a step. *)
LEMMA OneOwn ==
    ASSUME Types', NEW t \in Threads, \A u \in Threads \ {t} : pc'[u] = 0,
           (pc[t] > 1 => \E s \in Sockets : visible["socket"][t] = {s})',
           (Past(t, 5, 4) => visible["out"][t] = visible["socket"][t])',
           (Past(t, 6, 5) => \A s \in visible["socket"][t] : received[s] # <<>>)',
           (Past(t, 10, 7) => visible["socket"][t] = {sent[t]})'
    PROVE  Alone' /\ OwnSocket'
<1>1. Alone'
  BY DEF Alone, Running
<1>2. \A u \in Threads \ {t} : ~(pc'[u] > 1) /\ \A a, b \in Nat : ~Past(u, a, b)'
  BY DEF Past
<1> QED
  BY <1>1, <1>2 DEF OwnSocket

LEMMA NoneOwn ==
    ASSUME Types', NEW t \in Threads, \A u \in Threads \ {t} : pc'[u] = 0, pc'[t] \in {0, 1}
    PROVE  Alone' /\ OwnSocket'
<1>1. ~(pc'[t] > 1) /\ ~Past(t, 5, 4)' /\ ~Past(t, 6, 5)' /\ ~Past(t, 10, 7)'
  BY DEF Past
<1> QED
  BY <1>1, OneOwn

LEMMA Heads ==
    ASSUME NEW s \in Seq(Messages), NEW m \in Messages
    PROVE  /\ Append(s, m) # <<>>
           /\ s = <<>> => Head(Append(s, m)) = m
           /\ s # <<>> => Head(Append(s, m)) = Head(s)
<1>1. /\ Len(Append(s, m)) = Len(s) + 1 /\ Len(s) \in Nat
      /\ Head(Append(s, m)) = Append(s, m)[1]
  OBVIOUS
<1>2. Append(s, m) # <<>>
  BY <1>1
<1>3. CASE s = <<>>
  BY <1>1, <1>2, <1>3
<1>4. CASE s # <<>>
  <2>1. Len(s) > 0 /\ Head(s) = s[1]
    BY <1>4
  <2>2. Append(s, m)[1] = s[1]
    BY <2>1
  <2> QED
    BY <1>1, <1>2, <1>4, <2>1, <2>2
<1> QED
  BY <1>2, <1>3, <1>4

-------------------------------------------------------------------------------
(* A step of the thread that changes neither the fields the others use nor *)
(* what was received keeps what its place says.                            *)
LEMMA QuietStep ==
    ASSUME Types, Types', Alone, OwnSocket, NEW t \in Threads, Running(t),
           Advance(t) \/ Throw(t), UNCHANGED <<command, received, sent>>,
           UNCHANGED visible["socket"][t], UNCHANGED visible["out"][t],
           ~At(t, "create"), ~At(t, "output"), ~At(t, "user"), ~At(t, command[t])
    PROVE  Alone' /\ OwnSocket'
<1>1. \A u \in Threads \ {t} : pc'[u] = 0
  BY Others
<1>2. CASE pc'[t] = 0
  BY <1>1, <1>2, NoneOwn
<1>3. CASE pc'[t] # 0
  <2>1. pc'[t] = pc[t] + 1 /\ pc[t] \in 0..15
    BY <1>3, Moves, Ends DEF Types
  <2>2. /\ pc[t] > 1
        /\ Past(t, 5, 4)' => Past(t, 4, 3)
        /\ Past(t, 6, 5)' => Past(t, 5, 4)
        /\ Past(t, 10, 7)' => Past(t, 9, 6)
    BY <2>1, Place DEF Past, Running
  <2>3. /\ Past(t, 5, 4)' => Past(t, 5, 4)
        /\ Past(t, 6, 5)' => Past(t, 6, 5)
        /\ Past(t, 10, 7)' => Past(t, 10, 7)
    BY <2>2, Place
  <2> QED
    BY <1>1, <2>2, <2>3, OneOwn DEF OwnSocket
<1> QED
  BY <1>2, <1>3

LEMMA InTurnStep == Types /\ Types' /\ InTurn /\ [Next]_vars => InTurn'
<1> SUFFICES ASSUME Types, Types', InTurn, [Next]_vars, ~overlapped'
             PROVE  Alone' /\ OwnSocket' /\ Logins'
  BY DEF InTurn
<1>1. ~overlapped
  BY DEF Next, Click, Run, Create, Connect, Check, GetOutput, Send, GetInput, Read, Success, Close, Shutdown,
         Answer, Reset, vars, history
<1>2. Alone /\ OwnSocket /\ Logins
  BY <1>1 DEF InTurn
<1>3. ASSUME UNCHANGED <<received, sent>>
      PROVE  Logins'
  BY <1>2, <1>3 DEF Logins
<1>4. ASSUME NEW t \in Threads, Running(t), Throw(t)
      PROVE  Alone' /\ OwnSocket'
  <2>1. \A u \in Threads \ {t} : pc'[u] = 0
    BY <1>2, <1>4, Others
  <2> QED
    BY <1>4, <2>1, Ends, NoneOwn
<1>5. ASSUME NEW c \in Commands, Click(c)
      PROVE  Alone' /\ OwnSocket' /\ Logins'
  <2>1. PICK t \in Threads :
            /\ \A u \in Threads : u < t <=> command[u] # "none"
            /\ overlapped' = (overlapped \/ \E u \in {v \in Threads : command[v] # "none"} : Running(u))
            /\ pc' = [pc EXCEPT ![t] = 1]
    BY <1>5 DEF Click
  <2>2. \A u \in Threads : pc[u] = 0
    <3>1. ~(\E u \in {v \in Threads : command[v] # "none"} : Running(u))
      BY <2>1, Zenon
    <3>2. \A u \in Threads : pc[u] \in 0..15 /\ (command[u] = "none" => pc[u] = 0)
      BY DEF Types
    <3> QED
      BY <3>1, <3>2 DEF Running
  <2>3. pc'[t] = 1 /\ \A u \in Threads \ {t} : pc'[u] = 0
    BY <2>1, <2>2 DEF Types
  <2> QED
    BY <1>3, <1>5, <2>3, NoneOwn DEF Click, server
<1>6. ASSUME NEW t \in Threads, Create(t)
      PROVE  Alone' /\ OwnSocket' /\ Logins'
  <2>1. Running(t) /\ Advance(t) /\ At(t, "create")
    BY <1>6 DEF Create, At
  <2>2. \A u \in Threads \ {t} : pc'[u] = 0
    BY <1>2, <2>1, Others
  <2>3. \E s \in Sockets : visible'["socket"][t] = {s}
    BY <1>6 DEF Create, Write, Types, Fields
  <2>4. ~Past(t, 5, 4)' /\ ~Past(t, 6, 5)' /\ ~Past(t, 10, 7)'
    <3>1. pc'[t] <= pc[t] + 1 /\ pc[t] \in 0..15 /\ pc'[t] \in 0..15
      BY <2>1, Moves DEF Types
    <3>2. ~Past(t, 2, 1) /\ command' = command
      BY <1>6, <2>1, Place DEF Create
    <3> QED
      BY <3>1, <3>2 DEF Past
  <2> QED
    BY <1>3, <1>6, <2>2, <2>3, <2>4, OneOwn DEF Create, server
<1>7. ASSUME NEW t \in Threads, Connect(t) \/ Check(t) \/ GetInput(t) \/ Read(t) \/ Success(t) \/ Close(t)
                               \/ Shutdown(t)
      PROVE  Alone' /\ OwnSocket' /\ Logins'
  <2>1. \E step \in {"connect", "check", "input", "read", "success", "close", "shutdown"} : At(t, step)
    BY <1>7 DEF Connect, Check, GetInput, Read, Success, Close, Shutdown
  <2>2. Running(t) /\ (Advance(t) \/ Throw(t))
    BY <1>7 DEF Connect, Check, GetInput, Read, Success, Close, Shutdown, At
  <2>3. ~At(t, "create") /\ ~At(t, "output") /\ ~At(t, "user") /\ ~At(t, command[t])
    <3>1. command[t] \in Commands
      BY <2>2, Placed DEF Commands
    <3> QED
      BY <2>1, <3>1 DEF At, Commands
  <2>4. UNCHANGED <<command, received, sent>>
    BY <1>7 DEF Connect, Check, GetInput, Read, Success, Close, Shutdown, server
  <2>5. UNCHANGED visible["socket"][t] /\ UNCHANGED visible["out"][t]
    BY <1>7 DEF Connect, Check, GetInput, Read, Success, Close, Shutdown, Write, Types, Fields
  <2> QED
    BY <1>2, <1>3, <2>2, <2>3, <2>4, <2>5, QuietStep
<1>8. ASSUME NEW t \in Threads, GetOutput(t)
      PROVE  Alone' /\ OwnSocket' /\ Logins'
  <2>1. Running(t) /\ At(t, "output")
    BY <1>8 DEF GetOutput, At
  <2>2. CASE Throw(t)
    BY <1>3, <1>4, <1>8, <2>1, <2>2 DEF GetOutput, server
  <2>3. CASE ~Throw(t)
    <3>1. PICK s \in visible["socket"][t] : Advance(t) /\ Write(t, "out", s)
      BY <1>8, <2>3 DEF GetOutput
    <3>2. /\ pc[t] > 1 /\ ~Past(t, 9, 6) /\ (Past(t, 5, 4) => Past(t, 6, 5))
          /\ command' = command /\ received' = received /\ sent' = sent
      BY <1>8, <2>1, Place DEF GetOutput, server
    <3>3. \A u \in Threads \ {t} : pc'[u] = 0
      BY <1>2, <2>1, <3>1, Others
    <3>4. s \in Sockets /\ visible["socket"][t] = {s}
      BY <1>2, <3>1, <3>2 DEF OwnSocket
    <3>5. visible'["socket"][t] = {s} /\ visible'["out"][t] = {s}
      BY <3>1, <3>4 DEF Write, Types, Fields
    <3>6. pc'[t] <= pc[t] + 1 /\ pc[t] \in 0..15 /\ pc'[t] \in 0..15
      BY <2>1, <3>1, Moves DEF Types
    <3>7. ~Past(t, 10, 7)' /\ (Past(t, 6, 5)' => Past(t, 5, 4))
      BY <3>2, <3>6 DEF Past
    <3>8. Past(t, 6, 5)' => \A r \in visible'["socket"][t] : received'[r] # <<>>
      BY <1>2, <3>2, <3>4, <3>5, <3>7 DEF OwnSocket
    <3>9. Alone' /\ OwnSocket'
      BY <3>3, <3>4, <3>5, <3>7, <3>8, OneOwn
    <3> QED
      BY <1>3, <3>2, <3>9
  <2> QED
    BY <2>2, <2>3
<1>9. ASSUME NEW t \in Threads, NEW m \in Messages, Send(t, m)
      PROVE  Alone' /\ OwnSocket' /\ Logins'
  <2>1. Running(t) /\ At(t, m)
    BY <1>9 DEF Send, At
  <2>2. CASE Throw(t) /\ UNCHANGED <<received, sent>>
    BY <1>3, <1>4, <2>1, <2>2
  <2>3. ASSUME NEW s \in visible["out"][t], Advance(t),
               received' = [received EXCEPT ![s] = Append(@, m)],
               sent' = IF m \in Commands THEN [sent EXCEPT ![t] = s] ELSE sent
        PROVE  Alone' /\ OwnSocket' /\ Logins'
    <3>1. /\ m = "user" => Past(t, 5, 4) /\ ~Past(t, 6, 5)
          /\ m \in Commands => Past(t, 9, 6) /\ ~Past(t, 10, 7)
          /\ pc[t] > 1 /\ Past(t, 5, 4)
          /\ command' = command /\ visible' = visible
      <4>1. /\ m = "user" => Past(t, 5, 4) /\ ~Past(t, 6, 5)
            /\ m \in Commands => Past(t, 9, 6) /\ ~Past(t, 10, 7)
        BY <2>1, Place
      <4> QED
        BY <1>9, <4>1, Earlier DEF Send, Messages
    <3>2. s \in Sockets /\ visible["socket"][t] = {s} /\ visible["out"][t] = {s}
      BY <1>2, <2>3, <3>1 DEF OwnSocket
    <3>3. received'[s] = Append(received[s], m) /\ \A r \in Sockets \ {s} : received'[r] = received[r]
      BY <2>3, <3>2 DEF Types
    <3>4. received'[s] # <<>> /\ (m \in Commands => received[s] # <<>>)
      <4>1. m \in Commands => Past(t, 6, 5)
        BY <3>1, Earlier
      <4>2. m \in Commands => received[s] # <<>>
        BY <1>2, <3>2, <4>1 DEF OwnSocket
      <4> QED
        BY <3>2, <3>3, <4>2, Heads DEF Types
    <3>5. Logins'
      <4>1. ASSUME NEW r \in Sockets, received'[r] # <<>>
            PROVE  Head(received'[r]) = "user"
        <5>1. CASE r # s
          BY <1>2, <3>3, <4>1, <5>1 DEF Logins
        <5>2. CASE r = s
          <6>1. received[s] \in Seq(Messages)
            BY <3>2 DEF Types
          <6>2. received[s] = <<>> => m = "user"
            BY <3>4 DEF Messages
          <6> QED
            BY <1>2, <3>2, <3>3, <5>2, <6>1, <6>2, Heads DEF Logins
        <5> QED
          BY <5>1, <5>2
      <4>2. ASSUME NEW u \in Threads, sent'[u] # -1
            PROVE  received'[sent'[u]] # <<>>
        <5>1. sent'[u] = s \/ sent'[u] = sent[u]
          BY <2>3 DEF Types
        <5>2. sent'[u] \in Sockets
          BY <4>2 DEF Types
        <5>3. CASE sent'[u] = s
          BY <3>4, <5>3
        <5>4. CASE sent'[u] # s
          BY <1>2, <3>3, <4>2, <5>1, <5>2, <5>4 DEF Logins
        <5> QED
          BY <5>3, <5>4
      <4> QED
        BY <4>1, <4>2 DEF Logins
    <3>6. \A u \in Threads \ {t} : pc'[u] = 0
      BY <1>2, <2>1, <2>3, Others
    <3>7. Past(t, 10, 7)' => visible'["socket"][t] = {sent'[t]}
      <4>1. CASE m \in Commands
        BY <2>3, <3>1, <3>2, <4>1 DEF Types
      <4>2. CASE m = "user"
        <5>1. pc'[t] <= pc[t] + 1 /\ pc[t] \in 0..15 /\ pc'[t] \in 0..15
          BY <2>1, <2>3, Moves DEF Types
        <5> QED
          BY <3>1, <4>2, <5>1 DEF Past
      <4> QED
        BY <4>1, <4>2 DEF Messages
    <3>8. Alone' /\ OwnSocket'
      BY <3>1, <3>2, <3>4, <3>6, <3>7, OneOwn
    <3> QED
      BY <3>5, <3>8
  <2> QED
    BY <1>9, <2>2, <2>3 DEF Send
<1>10. ASSUME NEW s \in Sockets, Answer(s) \/ Reset(s)
       PROVE  Alone' /\ OwnSocket' /\ Logins'
  <2>1. UNCHANGED <<command, pc, visible, received, sent>>
    BY <1>10 DEF Answer, Reset, server
  <2> QED
    BY <1>2, <2>1 DEF Alone, OwnSocket, Logins, Running, Past
<1>11. CASE UNCHANGED vars
  BY <1>2, <1>11 DEF vars, Alone, OwnSocket, Logins, Running, Past
<1> QED
  BY <1>5, <1>6, <1>7, <1>8, <1>9, <1>10, <1>11 DEF Next, Run

LEMMA Initially == Init => Types /\ InTurn /\ InTurnClosed
<1> SUFFICES ASSUME Init
             PROVE  Types /\ InTurn /\ InTurnClosed
  OBVIOUS
<1>1. /\ command \in [Threads -> Commands \cup {"none"}]
      /\ sent \in [Threads -> Sockets \cup {-1}]
  BY DEF Init
<1>2. pc \in [Threads -> 0..15] /\ \A t \in Threads : pc[t] = 0 /\ sent[t] = -1
  BY DEF Init
<1>3. visible \in [Fields -> [Threads -> SUBSET Sockets]]
  <2>1. 0 \in Sockets
    BY BoundsAssumption DEF Sockets
  <2> QED
    BY <2>1 DEF Init
<1>4. state \in [Sockets -> States]
  BY DEF Init, States
<1>5. /\ received \in [Sockets -> Seq(Messages)]
      /\ \A s \in Sockets : received[s] = <<>>
  BY DEF Init
<1>6. posted \in Seq(Posts) /\ Len(posted) = 0 /\ overlapped \in BOOLEAN
  <2>1. posted = <<>>
    BY DEF Init
  <2>2. posted \in Seq(Posts) /\ Len(posted) = 0
    BY <2>1
  <2>3. overlapped \in BOOLEAN
    BY Zenon DEF Init
  <2> QED
    BY <2>2, <2>3
<1>7. Types
  BY <1>1, <1>2, <1>3, <1>4, <1>5, <1>6 DEF Types
<1>8. Alone /\ OwnSocket
  BY <1>2 DEF Alone, OwnSocket, Running, Past
<1>9. Logins
  BY <1>2, <1>5 DEF Logins
<1>10. Closing
  BY <1>2, <1>6 DEF Closing, Succeeded, Past
<1> QED
  BY <1>7, <1>8, <1>9, <1>10 DEF InTurn, InTurnClosed

(* The command of a thread goes to a connection on which the login went    *)
(* before it, for every number of clicks that leave each other time: both  *)
(* run() methods send the user first and share the field socket.           *)
THEOREM Login == Spec => []LoginFirst
<1>1. Types /\ InTurn => LoginFirst
  BY DEF Types, InTurn, Logins, LoginFirst
<1> QED
  BY <1>1, Initially, TypesStep, InTurnStep, PTL DEF Spec

-------------------------------------------------------------------------------
(* A closed connection stays closed. *)
LEMMA ClosedStays ==
    ASSUME Types, [Next]_vars, NEW s \in Sockets, state[s] \in ClosedStates
    PROVE  state'[s] \in ClosedStates
<1> USE DEF ClosedStates
<1>1. ASSUME NEW t \in Threads, Create(t)
      PROVE  state'[s] \in ClosedStates
  BY <1>1 DEF Create, Types
<1>2. ASSUME NEW t \in Threads, Connect(t)
      PROVE  state'[s] \in ClosedStates
  BY <1>2 DEF Connect, Types
<1>3. ASSUME NEW t \in Threads, Close(t) \/ Shutdown(t)
      PROVE  state'[s] \in ClosedStates
  BY <1>3 DEF Close, Shutdown, Types, ConnectedStates
<1>4. ASSUME NEW r \in Sockets, Reset(r)
      PROVE  state'[s] \in ClosedStates
  BY <1>4 DEF Reset, Types
<1>5. ASSUME NEW c \in Commands, Click(c)
      PROVE  state' = state
  BY <1>5 DEF Click
<1>6. ASSUME NEW t \in Threads, Check(t) \/ GetOutput(t) \/ (\E m \in Messages : Send(t, m))
                                  \/ GetInput(t) \/ Read(t) \/ Success(t)
      PROVE  state' = state
  BY <1>6 DEF Check, GetOutput, Send, GetInput, Read, Success
<1>7. ASSUME NEW r \in Sockets, Answer(r)
      PROVE  state' = state
  BY <1>7 DEF Answer
<1> QED
  BY <1>1, <1>2, <1>3, <1>4, <1>5, <1>6, <1>7 DEF Next, Run, vars

(* Whose successes are posted is the same after a step that posts none.    *)
LEMMA SameSuccesses ==
    ASSUME UNCHANGED <<posted, command>>, NEW t \in Threads
    PROVE  Succeeded(t)' <=> Succeeded(t)
  BY DEF Succeeded

(* A thread posts whether it is connected, or its success. *)
LEMMA OnePost ==
    ASSUME NEW t \in Threads, command[t] \in Commands, Check(t) \/ Success(t)
    PROVE  \E p \in Posts :
               /\ posted' = Append(posted, p) /\ p.thread = t
               /\ ~At(t, "success") => p.kind \in {"connected", "unconnected"}
<1>1. ASSUME NEW kind \in {"connected", "unconnected"} \cup Commands,
             kind \in Commands => At(t, "success"), Post(t, kind)
      PROVE  \E p \in Posts :
                 /\ posted' = Append(posted, p) /\ p.thread = t
                 /\ ~At(t, "success") => p.kind \in {"connected", "unconnected"}
  <2>1. [thread |-> t, kind |-> kind] \in Posts
    BY DEF Posts
  <2> QED
    BY <1>1, <2>1 DEF Post
<1>2. CASE Check(t)
  <2>1. PICK kind \in {"connected", "unconnected"} : Post(t, kind)
    BY <1>2 DEF Check
  <2> QED
    BY <1>1, <2>1 DEF Commands
<1>3. CASE Success(t)
  BY <1>1, <1>3 DEF Success, Outcome
<1> QED
  BY <1>2, <1>3

LEMMA OneMore ==
    ASSUME Types, NEW p \in Posts, posted' = Append(posted, p), UNCHANGED command
    PROVE  /\ \A t \in Threads : Succeeded(t)' => Succeeded(t) \/ p = [thread |-> t, kind |-> command[t]]
           /\ \A i \in 1..Len(posted') : posted'[i] = p \/ \E j \in 1..Len(posted) : posted'[i] = posted[j]
<1>1. posted \in Seq(Posts)
  BY DEF Types
<1>2. \A i \in 1..Len(posted') : posted'[i] = p \/ (i \in 1..Len(posted) /\ posted'[i] = posted[i])
  BY <1>1
<1> QED
  BY <1>2 DEF Succeeded

LEMMA ClosingStep == Types /\ InTurn /\ InTurnClosed /\ [Next]_vars => InTurnClosed'
<1> SUFFICES ASSUME Types, InTurn, InTurnClosed, [Next]_vars, ~overlapped'
             PROVE  Closing'
  BY DEF InTurnClosed
<1>1. ~overlapped
  BY DEF Next, Click, Run, Create, Connect, Check, GetOutput, Send, GetInput, Read, Success, Close, Shutdown,
         Answer, Reset, vars, history
<1>2. Alone /\ OwnSocket /\ Closing
  BY <1>1 DEF InTurn, InTurnClosed
<1>3. ASSUME NEW t \in Threads, SentClosed(t), sent'[t] = sent[t]
      PROVE  SentClosed(t)'
  BY <1>3, ClosedStays DEF SentClosed
(* A step of one thread leaves what the others closed. *)
<1>4. ASSUME NEW t \in Threads, Running(t), Advance(t) \/ Throw(t), NEW u \in Threads \ {t},
             sent'[u] = sent[u], Succeeded(u)' => Succeeded(u)
      PROVE  /\ Succeeded(u)' => pc'[u] = 0 /\ SentClosed(u)'
             /\ ~Past(u, 14, 11)'
  <2>1. pc[u] = 0 /\ pc'[u] = 0
    BY <1>2, <1>4, Others
  <2>2. ~Past(u, 13, 10) /\ ~Past(u, 14, 11)'
    BY <2>1 DEF Past
  <2> QED
    BY <1>2, <1>3, <1>4, <2>1, <2>2 DEF Closing
<1>5. ASSUME NEW t \in Threads, Running(t), ~At(t, "close"), ~At(t, "shutdown")
      PROVE  ~Succeeded(t) /\ ~Past(t, 13, 10)
  <2>1. pc[t] # 0 /\ ~Past(t, 13, 10)
    BY <1>5, Place DEF Running
  <2> QED
    BY <1>2, <2>1 DEF Closing
<1>6. ASSUME NEW c \in Commands, Click(c)
      PROVE  Closing'
  <2>1. PICK t \in Threads :
            /\ \A u \in Threads : u < t <=> command[u] # "none"
            /\ command' = [command EXCEPT ![t] = c]
            /\ pc' = [pc EXCEPT ![t] = 1]
    BY <1>6 DEF Click
  <2>2. posted' = posted /\ state' = state /\ sent' = sent
    BY <1>6 DEF Click
  <2>3. command[t] = "none"
    BY <2>1 DEF Threads
  <2>4. \A u \in Threads \ {t} : command'[u] = command[u] /\ pc'[u] = pc[u]
    BY <2>1 DEF Types
  <2>5. \A i \in 1..Len(posted) : posted[i].thread \in Threads \ {t}
    <3>1. \A i \in 1..Len(posted) : posted[i] \in Posts
      BY DEF Types
    <3> QED
      BY <1>2, <2>3, <3>1 DEF Closing, Posts
  <2>6. ~Succeeded(t)'
    BY <2>2, <2>5 DEF Succeeded
  <2>7. \A u \in Threads \ {t} : Succeeded(u)' => Succeeded(u)
    BY <2>2, <2>4 DEF Succeeded
  <2>8. ~Past(t, 14, 11)'
    BY <2>1 DEF Past, Types
  <2> QED
    BY <1>2, <2>2, <2>4, <2>5, <2>6, <2>7, <2>8 DEF Closing, Past, SentClosed
<1>7. ASSUME NEW t \in Threads, Check(t) \/ Success(t)
      PROVE  Closing'
  <2>1. /\ Running(t) /\ Advance(t) /\ ~At(t, "close") /\ ~At(t, "shutdown")
        /\ At(t, "check") \/ At(t, "success")
        /\ command' = command /\ sent' = sent
    BY <1>7 DEF Check, Success, At
  <2>2. command[t] \in Commands
    BY <2>1, Placed DEF Commands
  <2>3. PICK p \in Posts :
            /\ posted' = Append(posted, p) /\ p.thread = t
            /\ ~At(t, "success") => p.kind \in {"connected", "unconnected"}
    BY <1>7, <2>2, OnePost
  <2>4. \A u \in Threads : Succeeded(u)' => Succeeded(u) \/ p = [thread |-> u, kind |-> command[u]]
    BY <2>1, <2>3, OneMore
  <2>5. Succeeded(t)' => Past(t, 13, 10)'
    <3>1. Succeeded(t)' => At(t, "success")
      BY <1>5, <2>1, <2>2, <2>3, <2>4 DEF Commands
    <3>2. At(t, "success") => Past(t, 12, 9) /\ pc'[t] = pc[t] + 1
      BY <1>5, <2>1, Place, Moves, Earlier
    <3> QED
      BY <2>1, <3>1, <3>2, Earlier DEF Past
  <2>6. ~Past(t, 14, 11)'
    <3>1. ~Past(t, 13, 10) /\ (pc'[t] = pc[t] + 1 \/ pc'[t] = 0) /\ pc[t] \in Nat
      BY <1>5, <2>1, Moves, Earlier
    <3> QED
      BY <2>1, <3>1 DEF Past
  <2>7. \A i \in 1..Len(posted') : command'[posted'[i].thread] # "none"
    BY <1>2, <2>1, <2>2, <2>3, OneMore DEF Closing, Commands
  <2>8. \A u \in Threads \ {t} : Succeeded(u)' => Succeeded(u)
    BY <2>3, <2>4
  <2>9. \A u \in Threads \ {t} : (Succeeded(u)' => pc'[u] = 0 /\ SentClosed(u)') /\ ~Past(u, 14, 11)'
    BY <1>4, <2>1, <2>8
  <2> QED
    BY <2>5, <2>6, <2>7, <2>9 DEF Closing
<1>8. ASSUME NEW t \in Threads, Close(t)
       PROVE  Closing'
  <2>1. Running(t) /\ Advance(t) /\ At(t, "close") /\ UNCHANGED <<posted, command, sent>>
    BY <1>8 DEF Close, At
  <2>2. Past(t, 13, 10) /\ pc'[t] = pc[t] + 1 /\ pc[t] \in Nat
    BY <2>1, Place, Moves, Earlier
  <2>3. visible["socket"][t] = {sent[t]}
    BY <1>2, <2>2, Earlier DEF OwnSocket
  <2>4. sent[t] \in Sockets
    BY <2>3 DEF Types, Fields
  <2>5. SentClosed(t)'
    BY <1>8, <2>1, <2>3, <2>4 DEF Close, Types, SentClosed, ClosedStates
  <2>6. Past(t, 13, 10)'
    BY <2>1, <2>2 DEF Past
  <2>7. \A u \in Threads : Succeeded(u)' <=> Succeeded(u)
    BY <2>1, SameSuccesses
  <2>8. \A u \in Threads \ {t} : (Succeeded(u)' => pc'[u] = 0 /\ SentClosed(u)') /\ ~Past(u, 14, 11)'
    BY <1>4, <2>1, <2>7
  <2> QED
    BY <1>2, <2>1, <2>5, <2>6, <2>8 DEF Closing
<1>9. ASSUME NEW t \in Threads, Shutdown(t)
       PROVE  Closing'
  <2>1. Running(t) /\ Advance(t) /\ At(t, "shutdown") /\ UNCHANGED <<posted, command, sent>>
    BY <1>9 DEF Shutdown, At
  <2>2. SentClosed(t) /\ pc'[t] = 0
    BY <1>2, <2>1, Place, Moves DEF Closing
  <2>3. SentClosed(t)'
    BY <1>3, <2>1, <2>2
  <2>4. ~Past(t, 14, 11)'
    BY <2>2 DEF Past
  <2>5. \A u \in Threads : Succeeded(u)' <=> Succeeded(u)
    BY <2>1, SameSuccesses
  <2>6. \A u \in Threads \ {t} : (Succeeded(u)' => pc'[u] = 0 /\ SentClosed(u)') /\ ~Past(u, 14, 11)'
    BY <1>4, <2>1, <2>5
  <2> QED
    BY <1>2, <2>1, <2>2, <2>3, <2>4, <2>6 DEF Closing
<1>10. ASSUME NEW t \in Threads, Running(t), Advance(t) \/ Throw(t), ~At(t, "close"),
              ~At(t, "shutdown"), UNCHANGED <<posted, command>>,
              \A u \in Threads \ {t} : sent'[u] = sent[u]
       PROVE  Closing'
  <2>1. \A u \in Threads : Succeeded(u)' <=> Succeeded(u)
    BY <1>10, SameSuccesses
  <2>2. ~Succeeded(t) /\ ~Past(t, 14, 11)'
    <3>1. ~Succeeded(t) /\ ~Past(t, 13, 10)
      BY <1>5, <1>10
    <3>2. (pc'[t] = pc[t] + 1 \/ pc'[t] = 0) /\ pc[t] \in Nat
      BY <1>10, Moves, Ends, Earlier
    <3> QED
      BY <1>10, <3>1, <3>2 DEF Past
  <2>3. \A u \in Threads \ {t} : (Succeeded(u)' => pc'[u] = 0 /\ SentClosed(u)') /\ ~Past(u, 14, 11)'
    BY <1>4, <1>10, <2>1
  <2> QED
    BY <1>2, <1>10, <2>1, <2>2, <2>3 DEF Closing
<1>11. ASSUME NEW t \in Threads,
              \/ Create(t) \/ Connect(t) \/ GetOutput(t) \/ GetInput(t) \/ Read(t)
              \/ \E m \in Messages : Send(t, m)
       PROVE  Closing'
  <2>1. Running(t) /\ (Advance(t) \/ Throw(t)) /\ UNCHANGED <<posted, command>>
    BY <1>11 DEF Create, Connect, GetOutput, GetInput, Read, Send, At
  <2>2. ~At(t, "close") /\ ~At(t, "shutdown")
    BY <1>11 DEF Create, Connect, GetOutput, GetInput, Read, Send, At, Messages, Commands
  <2>3. \A u \in Threads \ {t} : sent'[u] = sent[u]
    BY <1>11 DEF Create, Connect, GetOutput, GetInput, Read, Send, Types
  <2> QED
    BY <1>10, <2>1, <2>2, <2>3
<1>12. ASSUME NEW s \in Sockets, Answer(s) \/ Reset(s)
       PROVE  Closing'
  <2>1. UNCHANGED <<posted, command, pc, sent>>
    BY <1>12 DEF Answer, Reset, server
  <2>2. \A u \in Threads : Succeeded(u)' <=> Succeeded(u)
    BY <2>1, SameSuccesses
  <2>3. \A u \in Threads : SentClosed(u) => SentClosed(u)'
    BY <1>3, <2>1
  <2> QED
    BY <1>2, <2>1, <2>2, <2>3 DEF Closing, Past
<1>13. CASE UNCHANGED vars
  BY <1>2, <1>13 DEF vars, Closing, Past, Succeeded, SentClosed
<1> QED
  BY <1>6, <1>7, <1>8, <1>9, <1>11, <1>12, <1>13 DEF Next, Run

(* A command that ended with its success leaves its connection closed, for *)
(* every number of clicks that leave each other time: the close() of a     *)
(* run() method closes the socket its command went to.                     *)
THEOREM Closed == Spec => []NothingLeftOpen
<1>1. Types /\ InTurnClosed => NothingLeftOpen
  <2> SUFFICES ASSUME Types, InTurnClosed, ~overlapped, NEW t \in Threads, Succeeded(t), Ended(t)
               PROVE  state[sent[t]] \in ClosedStates
    BY DEF NothingLeftOpen
  <2>1. pc[t] = 0 /\ ~Past(t, 13, 10)
    BY DEF Ended, Past
  <2> QED
    BY <2>1 DEF InTurnClosed, Closing, SentClosed
<1> QED
  BY <1>1, Initially, TypesStep, InTurnStep, ClosingStep, PTL DEF Spec

-------------------------------------------------------------------------------
(* The threads that an answer let past their first wait, and past the second *)
(* of those that switch the camera on.                                       *)
HeardOnce  == {t \in Threads : Past(t, 8, 9) \/ Succeeded(t)}
HeardTwice == {t \in Threads : command[t] = "on" /\ (Past(t, 12, 9) \/ Succeeded(t))}

(* Each wait that ended took a part of an answer of its own, or saw the    *)
(* end of the stream.                                                      *)
Counted ==
    /\ taken \in [Sockets -> Nat] /\ answered \in [Sockets -> Nat] /\ silent \in Nat
    /\ \A i \in 1..Len(posted) : command[posted[i].thread] # "none"
    /\ Cardinality(HeardOnce) + Cardinality(HeardTwice) <= Cardinality(AnswersTaken) + silent

(* No stream ends before the server closes a connection or one command     *)
(* gets at the connection of another.                                      *)
Undisturbed ==
    ~cut /\ ~overlapped => silent = 0 /\ \A s \in Sockets : state[s] \notin {"reset", "shut"}

(* These sets are finite, so that they may be counted. *)
LEMMA FewAnswers ==
    ASSUME NEW f, \A s \in Sockets : f[s] \in Nat
    PROVE  LET answers == UNION {{<<s, n>> : n \in 1..f[s]} : s \in Sockets}
           IN  IsFiniteSet(answers) /\ Cardinality(answers) \in Nat
<1> DEFINE answers == [s \in Sockets |-> {<<s, n>> : n \in 1..f[s]}]
           all     == {{<<s, n>> : n \in 1..f[s]} : s \in Sockets}
<1>1. IsFiniteSet(Sockets)
  BY BoundsAssumption, FS_Interval DEF Sockets
<1>2. ASSUME NEW s \in Sockets
      PROVE  IsFiniteSet({<<s, n>> : n \in 1..f[s]})
  <2>1. IsFiniteSet({s} \X (1..f[s]))
    <3>1. IsFiniteSet({s})
      BY FS_Singleton
    <3>2. IsFiniteSet(1..f[s])
      BY FS_Interval
    <3> QED
      BY <3>1, <3>2, FS_Product
  <2>2. {<<s, n>> : n \in 1..f[s]} \in SUBSET ({s} \X (1..f[s]))
    OBVIOUS
  <2> QED
    BY <2>1, <2>2, FS_Subset
<1>3. IsFiniteSet(all)
  <2>1. answers \in Surjection(Sockets, all)
    BY DEF Surjection
  <2> QED
    BY <1>1, <2>1, FS_Surjection
<1>4. \A T \in all : IsFiniteSet(T)
  BY <1>2
<1>5. IsFiniteSet(UNION all)
  <2> HIDE DEF all
  <2> QED
    BY <1>3, <1>4, FS_UNION
<1> QED
  BY <1>5, FS_CardinalityType

(* So is every set of threads. *)
LEMMA FewThreads ==
    ASSUME NEW T \in SUBSET Threads
    PROVE  IsFiniteSet(T) /\ Cardinality(T) \in Nat
<1>1. IsFiniteSet(Threads)
  BY BoundsAssumption, FS_Interval DEF Threads
<1> QED
  BY <1>1, FS_Subset, FS_CardinalityType

(* No thread comes to be past a wait by a step that ends none. *)
LEMMA NoneMore ==
    ASSUME Types, Types', Counted, \A s \in Sockets : taken'[s] = taken[s], silent' = silent,
           HeardOnce' \subseteq HeardOnce, HeardTwice' \subseteq HeardTwice
    PROVE  Cardinality(HeardOnce') + Cardinality(HeardTwice') <= Cardinality(AnswersTaken') + silent'
<1>1. AnswersTaken' = AnswersTaken
  BY DEF AnswersTaken
<1>2. HeardOnce \in SUBSET Threads /\ HeardTwice \in SUBSET Threads
  BY DEF HeardOnce, HeardTwice
<1>3. /\ IsFiniteSet(HeardOnce) /\ Cardinality(HeardOnce) \in Nat
      /\ IsFiniteSet(HeardTwice) /\ Cardinality(HeardTwice) \in Nat
  BY <1>2, FewThreads
<1>4. Cardinality(HeardOnce') \in Nat /\ Cardinality(HeardTwice') \in Nat
  BY <1>2, FewThreads
<1>5. Cardinality(HeardOnce') <= Cardinality(HeardOnce) /\ Cardinality(HeardTwice') <= Cardinality(HeardTwice)
  <2>1. HeardOnce' \in SUBSET HeardOnce /\ HeardTwice' \in SUBSET HeardTwice
    OBVIOUS
  <2>2. Cardinality(HeardOnce') <= Cardinality(HeardOnce)
    BY <1>3, <2>1, FS_Subset
  <2>3. Cardinality(HeardTwice') <= Cardinality(HeardTwice)
    BY <1>3, <2>1, FS_Subset
  <2> QED
    BY <2>2, <2>3
<1>6. Cardinality(AnswersTaken) \in Nat
  <2>1. \A s \in Sockets : taken[s] \in Nat
    BY DEF Counted
  <2> QED
    BY <2>1, FewAnswers DEF AnswersTaken
<1> QED
  BY <1>1, <1>3, <1>4, <1>5, <1>6 DEF Counted

(* A read that takes something makes what was read more. *)
LEMMA MoreTaken ==
    ASSUME Counted, NEW s \in Sockets, NEW n \in Nat, n > taken[s],
           taken'[s] = n, \A r \in Sockets \ {s} : taken'[r] = taken[r]
    PROVE  /\ Cardinality(AnswersTaken) \in Nat /\ Cardinality(AnswersTaken') \in Nat
           /\ Cardinality(AnswersTaken) + 1 <= Cardinality(AnswersTaken')
<1> DEFINE a == <<s, taken[s] + 1>>
<1>1. taken[s] \in Nat /\ \A r \in Sockets : taken[r] \in Nat /\ taken'[r] \in Nat /\ taken[r] <= taken'[r]
  BY DEF Counted
<1>2. IsFiniteSet(AnswersTaken) /\ Cardinality(AnswersTaken) \in Nat
  BY <1>1, FewAnswers DEF AnswersTaken
<1>3. IsFiniteSet(AnswersTaken') /\ Cardinality(AnswersTaken') \in Nat
  BY <1>1, FewAnswers DEF AnswersTaken
<1>4. a \notin AnswersTaken
  BY <1>1 DEF AnswersTaken
<1>5. AnswersTaken \cup {a} \subseteq AnswersTaken'
  <2>1. \A r \in Sockets : 1..taken[r] \subseteq 1..taken'[r]
    BY <1>1
  <2>2. taken[s] + 1 \in 1..taken'[s]
    BY <1>1
  <2> QED
    BY <2>1, <2>2 DEF AnswersTaken
<1>6. Cardinality(AnswersTaken \cup {a}) = Cardinality(AnswersTaken) + 1
  BY <1>2, <1>4, FS_AddElement
<1>7. Cardinality(AnswersTaken \cup {a}) <= Cardinality(AnswersTaken')
  BY <1>3, <1>5, FS_Subset
<1> QED
  BY <1>2, <1>3, <1>6, <1>7

(* A wait that ends counts for one thread. *)
LEMMA OneHeard ==
    ASSUME NEW t \in Threads,
           \/ HeardOnce' \subseteq HeardOnce \cup {t} /\ HeardTwice' \subseteq HeardTwice
           \/ HeardOnce' \subseteq HeardOnce /\ HeardTwice' \subseteq HeardTwice \cup {t}
    PROVE  /\ Cardinality(HeardOnce) \in Nat /\ Cardinality(HeardTwice) \in Nat
           /\ Cardinality(HeardOnce') \in Nat /\ Cardinality(HeardTwice') \in Nat
           /\ Cardinality(HeardOnce') + Cardinality(HeardTwice')
                  <= Cardinality(HeardOnce) + Cardinality(HeardTwice) + 1
<1>1. ASSUME NEW S \in SUBSET Threads, NEW R \in SUBSET Threads, R \subseteq S \cup {t}
      PROVE  Cardinality(R) <= Cardinality(S) + 1
  <2>1. IsFiniteSet(S) /\ Cardinality(S) \in Nat /\ Cardinality(R) \in Nat
    BY FewThreads
  <2>2. IsFiniteSet(S \cup {t}) /\ Cardinality(S \cup {t}) <= Cardinality(S) + 1
    <3>1. IsFiniteSet(S \cup {t})
      BY <2>1, FS_AddElement
    <3>2. Cardinality(S \cup {t}) = IF t \in S THEN Cardinality(S) ELSE Cardinality(S) + 1
      BY <2>1, FS_AddElement
    <3> QED
      BY <2>1, <3>1, <3>2
  <2>3. S \cup {t} \in SUBSET Threads
    OBVIOUS
  <2>4. Cardinality(S \cup {t}) \in Nat
    BY <2>3, FewThreads
  <2>5. Cardinality(R) <= Cardinality(S \cup {t})
    BY <1>1, <2>2, FS_Subset
  <2> QED
    BY <2>1, <2>2, <2>4, <2>5
<1>2. ASSUME NEW S \in SUBSET Threads, NEW R \in SUBSET S
      PROVE  Cardinality(R) <= Cardinality(S)
  BY FewThreads, FS_Subset
<1>3. /\ HeardOnce \in SUBSET Threads /\ HeardTwice \in SUBSET Threads
      /\ HeardOnce' \in SUBSET Threads /\ HeardTwice' \in SUBSET Threads
  BY DEF HeardOnce, HeardTwice
<1>4. /\ Cardinality(HeardOnce) \in Nat /\ Cardinality(HeardTwice) \in Nat
      /\ Cardinality(HeardOnce') \in Nat /\ Cardinality(HeardTwice') \in Nat
  BY <1>3, FewThreads
<1>5. CASE HeardOnce' \subseteq HeardOnce \cup {t} /\ HeardTwice' \subseteq HeardTwice
  <2>1. Cardinality(HeardOnce') <= Cardinality(HeardOnce) + 1
    BY <1>1, <1>3, <1>5
  <2>2. Cardinality(HeardTwice') <= Cardinality(HeardTwice)
    BY <1>2, <1>3, <1>5
  <2> QED
    BY <1>4, <2>1, <2>2
<1>6. CASE HeardOnce' \subseteq HeardOnce /\ HeardTwice' \subseteq HeardTwice \cup {t}
  <2>1. Cardinality(HeardTwice') <= Cardinality(HeardTwice) + 1
    BY <1>1, <1>3, <1>6
  <2>2. Cardinality(HeardOnce') <= Cardinality(HeardOnce)
    BY <1>2, <1>3, <1>6
  <2> QED
    BY <1>4, <2>1, <2>2
<1> QED
  BY <1>5, <1>6

(* Where in its script a thread waits. *)
LEMMA Waits ==
    ASSUME Types, NEW t \in Threads, Running(t)
    PROVE  At(t, "read") <=> \/ command[t] = "on" /\ pc[t] \in {8, 12}
                             \/ command[t] = "off" /\ pc[t] = 9
<1>1. \A i \in 1..15 : TurnOn[i] = "read" <=> i \in {8, 12}
  BY SMTT(60) DEF TurnOn
<1>2. \A i \in 1..12 : TurnOff[i] = "read" <=> i = 9
  BY SMTT(60) DEF TurnOff
<1> QED
  BY <1>1, <1>2, Placed DEF At, Doing

(* A step of a thread lets no other thread past its wait, and itself only  *)
(* when it reads.                                                          *)
LEMMA PastOnlyByReading ==
    ASSUME Types, Types', NEW t \in Threads, Running(t), Advance(t) \/ Throw(t), UNCHANGED command,
           \A u \in Threads : Succeeded(u)' => Succeeded(u) \/ (u = t /\ Past(t, 12, 9))
    PROVE  /\ ~At(t, "read") => HeardOnce' \subseteq HeardOnce /\ HeardTwice' \subseteq HeardTwice
           /\ \/ HeardOnce' \subseteq HeardOnce \cup {t} /\ HeardTwice' \subseteq HeardTwice
              \/ HeardOnce' \subseteq HeardOnce /\ HeardTwice' \subseteq HeardTwice \cup {t}
<1>1. \A u \in Threads \ {t} : /\ u \in HeardOnce' => u \in HeardOnce
                               /\ u \in HeardTwice' => u \in HeardTwice
  <2>1. \A u \in Threads \ {t} : pc'[u] = pc[u]
    BY Moves, Ends
  <2> QED
    BY <2>1 DEF HeardOnce, HeardTwice, Past
<1>2. Past(t, 12, 9) => Past(t, 8, 9)
  <2>1. pc[t] \in 0..15
    BY DEF Types
  <2> QED
    BY <2>1 DEF Past
<1>3. Past(t, 8, 9)' => Past(t, 8, 9) \/ At(t, "read")
  <2>1. Past(t, 8, 9)' => pc'[t] = pc[t] + 1 /\ pc[t] \in 0..15
    BY Moves, Ends DEF Past, Types
  <2> QED
    BY <2>1, Waits, Placed DEF Past
<1>4. command[t] = "on" /\ Past(t, 12, 9)' => Past(t, 8, 9) /\ (Past(t, 12, 9) \/ At(t, "read"))
  <2>1. Past(t, 12, 9)' => pc'[t] = pc[t] + 1 /\ pc[t] \in 0..15
    BY Moves, Ends DEF Past, Types
  <2> QED
    BY <2>1, Waits DEF Past
<1>5. t \in HeardOnce' => t \in HeardOnce \/ At(t, "read")
  BY <1>2, <1>3 DEF HeardOnce
<1>6. t \in HeardTwice' => t \in HeardOnce /\ (t \in HeardTwice \/ At(t, "read"))
  BY <1>2, <1>4 DEF HeardOnce, HeardTwice
<1>7. HeardOnce' \subseteq Threads /\ HeardTwice' \subseteq Threads
  BY DEF HeardOnce, HeardTwice
<1>8. t \in HeardTwice' => t \in HeardTwice \/ t \in HeardOnce
  BY <1>6
<1> QED
  BY <1>1, <1>5, <1>6, <1>7

(* The count survives every step. *)
LEMMA CountedStep == Types /\ Types' /\ Counted /\ [Next]_vars => Counted'
<1> SUFFICES ASSUME Types, Types', Counted, [Next]_vars
             PROVE  Counted'
  OBVIOUS
<1> DEFINE Enough == Cardinality(HeardOnce') + Cardinality(HeardTwice') <= Cardinality(AnswersTaken') + silent'
           KnownPosters == \A i \in 1..Len(posted') : command'[posted'[i].thread] # "none"
<1> USE DEF history, server
<1>1. ASSUME NEW c \in Commands, Click(c)
      PROVE  Counted'
  <2>1. PICK t \in Threads :
            /\ \A u \in Threads : u < t <=> command[u] # "none"
            /\ command' = [command EXCEPT ![t] = c]
            /\ pc' = [pc EXCEPT ![t] = 1]
    BY <1>1 DEF Click
  <2>2. UNCHANGED <<posted, taken, answered, silent>>
    BY <1>1 DEF Click
  <2>3. command[t] = "none"
    BY <2>1 DEF Threads
  <2>4. \A u \in Threads \ {t} : command'[u] = command[u] /\ pc'[u] = pc[u]
    BY <2>1 DEF Types
  <2>5. command'[t] = c /\ pc'[t] = 1
    BY <2>1 DEF Types
  <2>6. \A i \in 1..Len(posted) : posted[i].thread \in Threads \ {t}
    <3>1. \A i \in 1..Len(posted) : posted[i] \in Posts
      BY DEF Types
    <3> QED
      BY <2>3, <3>1 DEF Counted, Posts
  <2>7. ~Succeeded(t)'
    BY <2>2, <2>6 DEF Succeeded
  <2>8. \A u \in Threads \ {t} : Succeeded(u)' => Succeeded(u)
    BY <2>2, <2>4 DEF Succeeded
  <2>9. HeardOnce' \subseteq HeardOnce /\ HeardTwice' \subseteq HeardTwice
    BY <2>4, <2>5, <2>7, <2>8 DEF HeardOnce, HeardTwice, Past
  <2>10. Enough
    BY <2>2, <2>9, NoneMore
  <2>11. KnownPosters
    BY <2>2, <2>4, <2>6 DEF Counted
  <2> QED
    BY <2>2, <2>10, <2>11 DEF Counted
<1>2. ASSUME NEW t \in Threads, Running(t), Advance(t) \/ Throw(t), ~At(t, "read"),
             UNCHANGED <<command, posted, taken, answered, silent>>
      PROVE  Counted'
  <2>1. \A u \in Threads : Succeeded(u)' <=> Succeeded(u)
    BY <1>2, SameSuccesses
  <2>2. HeardOnce' \subseteq HeardOnce /\ HeardTwice' \subseteq HeardTwice
    BY <1>2, <2>1, PastOnlyByReading
  <2>3. Enough
    BY <1>2, <2>2, NoneMore
  <2> QED
    BY <1>2, <2>3 DEF Counted
<1>3. ASSUME NEW t \in Threads, \/ Create(t) \/ Connect(t) \/ GetOutput(t) \/ GetInput(t)
                                \/ Close(t) \/ Shutdown(t) \/ \E m \in Messages : Send(t, m)
      PROVE  Counted'
  <2>1. Running(t) /\ (Advance(t) \/ Throw(t)) /\ UNCHANGED <<command, posted, taken, answered, silent>>
    BY <1>3 DEF Create, Connect, GetOutput, GetInput, Close, Shutdown, Send, At
  <2>2. ~At(t, "read")
    BY <1>3 DEF Create, Connect, GetOutput, GetInput, Close, Shutdown, Send, At, Messages, Commands
  <2> QED
    BY <1>2, <2>1, <2>2
<1>4. ASSUME NEW t \in Threads, Check(t) \/ Success(t)
      PROVE  Counted'
  <2>1. /\ Running(t) /\ Advance(t) /\ ~At(t, "read") /\ (At(t, "check") \/ At(t, "success"))
        /\ UNCHANGED <<command, taken, answered, silent>>
    BY <1>4 DEF Check, Success, At
  <2>2. command[t] \in Commands
    BY <2>1, Placed DEF Commands
  <2>3. PICK p \in Posts :
            /\ posted' = Append(posted, p) /\ p.thread = t
            /\ ~At(t, "success") => p.kind \in {"connected", "unconnected"}
    BY <1>4, <2>2, OnePost
  <2>4. \A u \in Threads : Succeeded(u)' => Succeeded(u) \/ (u = t /\ Past(t, 12, 9))
    <3>1. \A u \in Threads : Succeeded(u)' => Succeeded(u) \/ p = [thread |-> u, kind |-> command[u]]
      BY <2>1, <2>3, OneMore
    <3>2. At(t, "success") => Past(t, 12, 9)
      BY <2>1, Place
    <3>3. \A u \in Threads : p = [thread |-> u, kind |-> command[u]] => u = t /\ p.kind = command[t]
      BY <2>3
    <3> QED
      BY <2>2, <2>3, <3>1, <3>2, <3>3 DEF Commands
  <2>5. HeardOnce' \subseteq HeardOnce /\ HeardTwice' \subseteq HeardTwice
    BY <2>1, <2>4, PastOnlyByReading
  <2>6. Enough
    BY <2>1, <2>5, NoneMore
  <2>7. KnownPosters
    BY <2>1, <2>2, <2>3, OneMore DEF Counted, Commands
  <2> QED
    BY <2>1, <2>6, <2>7 DEF Counted
<1>5. ASSUME NEW t \in Threads, Read(t)
      PROVE  Counted'
  <2>1. /\ Running(t) /\ At(t, "read") /\ (Advance(t) \/ Throw(t))
        /\ UNCHANGED <<command, posted, answered>>
    BY <1>5 DEF Read, At
  <2>2. \A u \in Threads : Succeeded(u)' <=> Succeeded(u)
    BY <2>1, SameSuccesses
  <2>3. KnownPosters
    BY <2>1 DEF Counted
  <2>4. \/ HeardOnce' \subseteq HeardOnce \cup {t} /\ HeardTwice' \subseteq HeardTwice
        \/ HeardOnce' \subseteq HeardOnce /\ HeardTwice' \subseteq HeardTwice \cup {t}
    BY <2>1, <2>2, PastOnlyByReading
  <2>5. /\ Cardinality(HeardOnce) \in Nat /\ Cardinality(HeardTwice) \in Nat
        /\ Cardinality(HeardOnce') \in Nat /\ Cardinality(HeardTwice') \in Nat
        /\ Cardinality(HeardOnce') + Cardinality(HeardTwice')
               <= Cardinality(HeardOnce) + Cardinality(HeardTwice) + 1
    BY <2>4, OneHeard
  <2>6. CASE UNCHANGED <<taken, silent>> /\ Throw(t)
    <3>1. HeardOnce' \subseteq HeardOnce /\ HeardTwice' \subseteq HeardTwice
      <4>1. pc'[t] = 0 /\ \A u \in Threads \ {t} : pc'[u] = pc[u]
        BY <2>6, Ends
      <4> QED
        BY <2>1, <2>2, <4>1 DEF HeardOnce, HeardTwice, Past
    <3>2. Enough
      BY <2>6, <3>1, NoneMore
    <3> QED
      BY <2>1, <2>3, <2>6, <3>2 DEF Counted
  <2>7. CASE UNCHANGED taken /\ silent' = silent + 1
    <3>1. AnswersTaken' = AnswersTaken /\ Cardinality(AnswersTaken) \in Nat
      <4>1. \A s \in Sockets : taken[s] \in Nat
        BY DEF Counted
      <4>2. Cardinality(AnswersTaken) \in Nat
        BY <4>1, FewAnswers DEF AnswersTaken
      <4> QED
        BY <2>7, <4>2 DEF AnswersTaken
    <3>2. Enough
      BY <2>5, <2>7, <3>1 DEF Counted
    <3> QED
      BY <2>1, <2>3, <2>7, <3>2 DEF Counted
  <2>8. ASSUME NEW s \in Sockets, taken[s] < answered[s], UNCHANGED silent,
               NEW n \in (taken[s] + 1)..answered[s], taken' = [taken EXCEPT ![s] = n]
        PROVE  Counted'
    <3>1. n \in Nat /\ n > taken[s]
      BY <2>8 DEF Counted
    <3>2. /\ taken'[s] = n /\ \A r \in Sockets \ {s} : taken'[r] = taken[r]
          /\ taken' \in [Sockets -> Nat]
      BY <2>8, <3>1 DEF Counted
    <3>3. /\ Cardinality(AnswersTaken) \in Nat /\ Cardinality(AnswersTaken') \in Nat
          /\ Cardinality(AnswersTaken) + 1 <= Cardinality(AnswersTaken')
      BY <3>1, <3>2, MoreTaken
    <3>4. Enough
      BY <2>5, <2>8, <3>3 DEF Counted
    <3> QED
      BY <2>1, <2>3, <2>8, <3>2, <3>4 DEF Counted
  <2>9. visible["in"][t] \subseteq Sockets
    BY DEF Types, Fields
  <2> QED
    BY <1>5, <2>6, <2>7, <2>8, <2>9 DEF Read
<1>6. ASSUME NEW s \in Sockets, Answer(s) \/ Reset(s)
      PROVE  Counted'
  <2>1. UNCHANGED <<command, pc, posted, taken, silent>>
    BY <1>6 DEF Answer, Reset
  <2>2. \A u \in Threads : Succeeded(u)' <=> Succeeded(u)
    BY <2>1, SameSuccesses
  <2>3. HeardOnce' \subseteq HeardOnce /\ HeardTwice' \subseteq HeardTwice
    BY <2>1, <2>2 DEF HeardOnce, HeardTwice, Past
  <2>4. answered' \in [Sockets -> Nat]
    BY <1>6 DEF Answer, Reset, Counted
  <2>5. Enough
    BY <2>1, <2>3, NoneMore
  <2> QED
    BY <2>1, <2>4, <2>5 DEF Counted
<1>7. CASE UNCHANGED vars
  <2>1. HeardOnce' = HeardOnce /\ HeardTwice' = HeardTwice /\ AnswersTaken' = AnswersTaken
    BY <1>7 DEF vars, HeardOnce, HeardTwice, AnswersTaken, Past, Succeeded
  <2> QED
    BY <1>7, <2>1 DEF vars, Counted
<1> QED
  BY <1>1, <1>3, <1>4, <1>5, <1>6, <1>7 DEF Next, Run

(* A stream ends early only by what the history variables tell: without    *)
(* overlap the shutdownInput of a thread meets its own closed socket.      *)
LEMMA UndisturbedStep ==
    Types /\ Types' /\ InTurn /\ InTurnClosed /\ Undisturbed /\ [Next]_vars => Undisturbed'
<1> SUFFICES ASSUME Types, Types', InTurn, InTurnClosed, Undisturbed, [Next]_vars, ~cut', ~overlapped'
             PROVE  silent' = 0 /\ \A s \in Sockets : state'[s] \notin {"reset", "shut"}
  BY DEF Undisturbed
<1> USE DEF history, server
<1>1. ~cut /\ ~overlapped
  <2>1. ASSUME NEW c \in Commands, Click(c) PROVE ~cut /\ ~overlapped
    <3>1. (overlapped => overlapped') /\ cut' = cut
      BY <2>1, Zenon DEF Click
    <3> QED
      BY <3>1
  <2>2. ASSUME NEW t \in Threads, Run(t) PROVE UNCHANGED <<cut, overlapped>>
    BY <2>2 DEF Run, Create, Connect, Check, GetOutput, Send, GetInput, Read, Success, Close, Shutdown
  <2>3. ASSUME NEW s \in Sockets, Answer(s) \/ Reset(s) PROVE ~cut /\ ~overlapped
    BY <2>3 DEF Answer, Reset
  <2> QED
    BY <2>1, <2>2, <2>3 DEF Next, vars
<1>2. OwnSocket /\ Closing /\ silent = 0 /\ \A s \in Sockets : state[s] \notin {"reset", "shut"}
  BY <1>1 DEF Undisturbed, InTurn, InTurnClosed
<1>3. ASSUME NEW t \in Threads, Shutdown(t)
      PROVE  UNCHANGED <<state, silent>>
  <2>1. Past(t, 14, 11)
    BY <1>3, Place DEF Shutdown, At
  <2>2. visible["socket"][t] = {sent[t]} /\ state[sent[t]] \in ClosedStates
    BY <1>2, <2>1, Earlier DEF OwnSocket, Closing, SentClosed
  <2> QED
    BY <1>3, <2>2 DEF Shutdown, ConnectedStates, ClosedStates
<1>4. ASSUME NEW t \in Threads, Read(t)
      PROVE  UNCHANGED <<state, silent>>
  <2>1. visible["in"][t] \subseteq Sockets
    BY DEF Types, Fields
  <2> QED
    BY <1>2, <1>4, <2>1 DEF Read
<1>5. ASSUME NEW t \in Threads,
             \/ Create(t) \/ Connect(t) \/ Check(t) \/ GetOutput(t) \/ GetInput(t) \/ Success(t)
             \/ Close(t) \/ \E m \in Messages : Send(t, m)
      PROVE  silent' = silent /\ \A s \in Sockets : state'[s] \in {state[s], "new", "open", "closed", "dropped"}
  BY <1>5 DEF Create, Connect, Check, GetOutput, GetInput, Success, Close, Send, Types
<1>6. ASSUME NEW s \in Sockets, Answer(s) \/ Reset(s)
      PROVE  UNCHANGED <<state, silent>>
  BY <1>6 DEF Answer, Reset
<1>7. CASE (\E c \in Commands : Click(c)) \/ UNCHANGED vars
  BY <1>2, <1>7 DEF Click, vars
<1> QED
  BY <1>2, <1>3, <1>4, <1>5, <1>6, <1>7 DEF Next, Run

(* Each success is backed by reads of its own, and none counts for two,    *)
(* for every number of clicks, however their commands overlap: in.read     *)
(* takes what it returns away from the other threads.  What such a read    *)
(* saw is a part of an answer, unless the server closed a connection or    *)
(* commands overlapped: the second read of the field socket, after         *)
(* close(), then finds a closed one.                                       *)
THEOREM EachItsAnswer == Spec => []AnswersBackSuccesses
<1>1. Init => Counted
  <2> SUFFICES ASSUME Init
               PROVE  Counted
    OBVIOUS
  <2>1. HeardOnce = {} /\ HeardTwice = {}
    BY DEF Init, HeardOnce, HeardTwice, Past, Succeeded
  <2>2. /\ \A s \in Sockets : taken[s] = 0
        /\ silent = 0
        /\ taken \in [Sockets -> Nat] /\ answered \in [Sockets -> Nat]
    BY DEF Init
  <2>3. Cardinality(AnswersTaken) \in Nat
    <3>1. \A s \in Sockets : taken[s] \in Nat
      BY <2>2
    <3> QED
      BY <3>1, FewAnswers DEF AnswersTaken
  <2> QED
    BY <2>1, <2>2, <2>3, FS_EmptySet DEF Init, Counted
<1>2. Init => Undisturbed
  BY DEF Init, Undisturbed
<1>3. Types /\ Counted /\ Undisturbed => AnswersBackSuccesses
  <2> SUFFICES ASSUME Types, Counted, Undisturbed
               PROVE  AnswersBackSuccesses
    OBVIOUS
  <2> DEFINE On  == {t \in Threads : command[t] = "on" /\ Succeeded(t)}
             Off == {t \in Threads : command[t] = "off" /\ Succeeded(t)}
  <2>1. /\ IsFiniteSet(On) /\ Cardinality(On) \in Nat
        /\ IsFiniteSet(Off) /\ Cardinality(Off) \in Nat
    BY FewThreads
  <2>2. /\ IsFiniteSet(HeardOnce) /\ Cardinality(HeardOnce) \in Nat
        /\ IsFiniteSet(HeardTwice) /\ Cardinality(HeardTwice) \in Nat
    BY FewThreads DEF HeardOnce, HeardTwice
  <2>3. Cardinality(On) <= Cardinality(HeardTwice)
    <3>1. On \in SUBSET HeardTwice
      BY DEF HeardTwice
    <3> QED
      BY <2>2, <3>1, FS_Subset
  <2>4. Cardinality(On) + Cardinality(Off) <= Cardinality(HeardOnce)
    <3>1. On \cup Off \in SUBSET HeardOnce /\ On \cap Off = {}
      BY DEF HeardOnce
    <3>2. Cardinality(On \cup Off) = Cardinality(On) + Cardinality(Off)
      <4> HIDE DEF On, Off
      <4>1. Cardinality(On \cup Off) = Cardinality(On) + Cardinality(Off) - Cardinality(On \cap Off)
        BY <2>1, FS_Union
      <4> QED
        BY <2>1, <3>1, <4>1, FS_EmptySet
    <3>3. Cardinality(On \cup Off) <= Cardinality(HeardOnce)
      BY <2>2, <3>1, FS_Subset
    <3> QED
      BY <3>2, <3>3
  <2>5. Cardinality(AnswersTaken) \in Nat
    <3>1. \A s \in Sockets : taken[s] \in Nat
      BY DEF Counted
    <3> QED
      BY <3>1, FewAnswers DEF AnswersTaken
  <2>6. 2 * Cardinality(On) + Cardinality(Off) <= Cardinality(AnswersTaken) + silent
    <3> HIDE DEF On, Off
    <3> QED
      BY <2>1, <2>2, <2>3, <2>4, <2>5 DEF Counted
  <2>7. silent > 0 => cut \/ overlapped
    BY DEF Undisturbed
  <2> QED
    BY <2>6, <2>7 DEF AnswersBackSuccesses
<1> QED
  BY <1>1, <1>2, <1>3, Initially, TypesStep, InTurnStep, ClosingStep, CountedStep, UndisturbedStep, PTL
  DEF Spec
===============================================================================
