----------------------------- MODULE CameraControl -----------------------------
(***************************************************************************)
(* Switching the camera on and off (VideoFragment.java).  Each click starts *)
(* a thread that connects to the control server, logs in, sends a command  *)
(* and posts the result to the page.  All threads share the fields socket, *)
(* out and in, without a lock and not volatile.                            *)
(*                                                                         *)
(* A thread that reads such a field may get the value it wrote last or any *)
(* value another thread wrote since: visible[f][t] holds them.  The server *)
(* is external: it answers what it receives on a connection in order.      *)
(***************************************************************************)
EXTENDS Integers, Sequences, FiniteSets

CONSTANTS
    MaxClicks,    \* bound: how often a button is clicked
    MaxOverlap,   \* bound: clicks among which commands overlap
    Parts         \* bound: parts in which an answer of the server arrives

ASSUME BoundsAssumption == MaxClicks \in Nat /\ MaxOverlap \in Nat /\ Parts \in Nat

Threads  == 1..MaxClicks         \* control threads, in the order of the clicks
Sockets  == 0..(2 * MaxClicks)   \* Socket objects in the order they are made
Fields   == {"socket", "out", "in"}
Commands == {"on", "off"}

(* Mutant: the command is sent before the login. *)
TurnOffFirst == <<"create", "connect", "check", "output", "off", "output", "user", "input", "read",
                  "success", "close", "shutdown">>

(* Mutants: the answer to the command is not waited for; the first answer  *)
(* is waited for before anything is sent.                                  *)
TurnOnUnanswered == <<"create", "create", "connect", "check", "output", "user", "input", "read",
                      "output", "on", "success", "close", "shutdown">>
TurnOnWaiting    == <<"create", "create", "connect", "check", "input", "read", "output", "user",
                      "output", "on", "input", "read", "success", "close", "shutdown">>

(* Mutant: the socket is not closed. *)
TurnOnUnclosed   == <<"create", "create", "connect", "check", "output", "user", "input", "read",
                      "output", "on", "input", "read", "success">>

(* The two run() methods, one access to a shared field at a time; output   *)
(* and the message after it are SendMsg, input and read are ReceiveMsg.    *)
TurnOn == <<"create", "create", "connect", "check", "output", "user", "input", "read",
            "output", "on", "input", "read", "success", "close", "shutdown">>

TurnOff == <<"create", "connect", "check", "output", "user", "output", "off", "input", "read",
             "success", "close", "shutdown">>

VARIABLES
    command,   \* of each thread: "on" or "off", "none" before its click
    pc,        \* of each thread: the step of its script it is at, 0 when it ended
    visible,   \* the sockets a thread may find in a field (for out and in: whose stream)
    state,     \* of each socket: see States
    received,  \* what the server received on each connection
    answered,  \* how many parts of answers to these have arrived
    taken,     \* how many of them were read by a thread
    sent,      \* of each thread: the socket its command went to, -1 before
    refused,   \* SendMsg was called with a socket that is not connected
    posted,    \* the messages sent to the page: of which thread, and what
    overlapped, \* history: a command was started before another one ended
    cut,       \* history: the server closed a connection
    silent     \* history: how many reads returned -1, the end of the stream

vars == <<command, pc, visible, state, received, answered, taken, sent, refused, posted,
          overlapped, cut, silent>>
history == <<overlapped, cut, silent>>
server == <<received, answered, taken>>

(* "unborn", "new" once it is made, "open" once it is connected, "reset"   *)
(* when the server closed it, "shut" when a thread shut its input down,    *)
(* "closed", or "dropped" when it was closed before it was connected.      *)
States          == {"unborn", "new", "open", "reset", "shut", "closed", "dropped"}
ConnectedStates == {"open", "reset", "shut"}
ClosedStates    == {"closed", "dropped"}

Script(c) == IF c = "on" THEN TurnOn ELSE TurnOff
Messages  == {"user"} \cup Commands

(* initView makes the first socket. *)
Init ==
    /\ command = [t \in Threads |-> "none"]
    /\ pc = [t \in Threads |-> 0]
    /\ visible = [f \in Fields |-> [t \in Threads |-> IF f = "socket" THEN {0} ELSE {}]]
    /\ state = [s \in Sockets |-> IF s = 0 THEN "new" ELSE "unborn"]
    /\ received = [s \in Sockets |-> <<>>]
    /\ answered = [s \in Sockets |-> 0] /\ taken = [s \in Sockets |-> 0]
    /\ sent = [t \in Threads |-> -1]
    /\ refused = FALSE /\ overlapped = FALSE /\ cut = FALSE /\ silent = 0
    /\ posted = <<>>

Running(t) == pc[t] > 0
Ended(t)   == command[t] # "none" /\ pc[t] = 0
Doing(t)   == Script(command[t])[pc[t]]

-------------------------------------------------------------------------------
(* onClick starts the next thread.  Bound: no behaviour has both commands  *)
(* that overlap and connections that the server closes.                    *)
Click(c) ==
    /\ LET others == {u \in Threads : command[u] # "none"}
       IN  \E t \in Threads :
            /\ \A u \in Threads : u < t <=> u \in others
            /\ overlapped' = (overlapped \/ \E u \in others : Running(u))
            /\ (overlapped' => t <= MaxOverlap /\ ~cut)
            /\ command' = [command EXCEPT ![t] = c]
            /\ pc' = [pc EXCEPT ![t] = 1]
    /\ UNCHANGED <<visible, state, server, sent, refused, posted, cut, silent>>

At(t, step) == Running(t) /\ Doing(t) = step
Throw(t)    == pc' = [pc EXCEPT ![t] = 0]    \* the catch clause ends run()

Advance(t) == pc' = [pc EXCEPT ![t] = IF @ = Len(Script(command[t])) THEN 0 ELSE @ + 1]

Write(t, f, s) ==
    visible' = [visible EXCEPT ![f] = [u \in Threads |-> IF u = t THEN {s} ELSE @[u] \cup {s}]]

(* socket = new Socket() *)
Create(t) ==
    /\ At(t, "create") /\ Advance(t)
    /\ \E s \in Sockets :
        /\ state[s] = "unborn"
        /\ \A r \in Sockets : r < s => state[r] # "unborn"
        /\ state' = [state EXCEPT ![s] = "new"]
        /\ Write(t, "socket", s)
    /\ UNCHANGED <<command, server, sent, refused, posted, history>>

(* socket.connect(isa): the server accepts, or the connection is refused;  *)
(* a socket that was connected or closed throws.                           *)
Connect(t) ==
    /\ At(t, "connect")
    /\ \E s \in visible["socket"][t] :
        \/ state[s] = "new" /\ Advance(t) /\ state' = [state EXCEPT ![s] = "open"]
        \/ Throw(t) /\ UNCHANGED state
    /\ UNCHANGED <<command, visible, server, sent, refused, posted, history>>

Post(t, kind) == posted' = Append(posted, [thread |-> t, kind |-> kind])

(* CONNECT_SUCCESS or CONNECT_FAIL.  A connect that failed has thrown, but *)
(* the field is read again; a socket that was closed counts as connected.  *)
Check(t) ==
    /\ At(t, "check") /\ Advance(t)
    /\ \E s \in visible["socket"][t] :
        Post(t, IF state[s] \in {"new", "dropped"} THEN "unconnected" ELSE "connected")
    /\ UNCHANGED <<command, visible, state, server, sent, refused, history>>

(* SendMsg(socket, ...): out = new DataOutputStream(socket.getOutputStream()). *)
GetOutput(t) ==
    /\ At(t, "output")
    /\ \E s \in visible["socket"][t] :
        \/ state[s] \in ConnectedStates /\ Advance(t) /\ Write(t, "out", s) /\ UNCHANGED refused
        \/ /\ state[s] \in {"new"} \cup ClosedStates
           /\ Throw(t)
           /\ refused' = (refused \/ state[s] = "new")
           /\ UNCHANGED visible
    /\ UNCHANGED <<command, state, server, sent, posted, history>>

(* out.write(msg) *)
Send(t, m) ==
    /\ At(t, m)
    /\ \E s \in visible["out"][t] :
        \/ /\ state[s] \in {"open", "shut"}
           /\ Advance(t)
           /\ received' = [received EXCEPT ![s] = Append(@, m)]
           /\ sent' = IF m \in Commands THEN [sent EXCEPT ![t] = s] ELSE sent
        \/ state[s] \notin {"open", "shut"} /\ Throw(t) /\ UNCHANGED <<received, sent>>
    /\ UNCHANGED <<command, visible, state, answered, taken, refused, posted, history>>

(* ReceiveMsg(socket): in = new DataInputStream(socket.getInputStream()). *)
GetInput(t) ==
    /\ At(t, "input")
    /\ \E s \in visible["socket"][t] :
        \/ state[s] \in {"open", "reset"} /\ Advance(t) /\ Write(t, "in", s)
        \/ state[s] \notin {"open", "reset"} /\ Throw(t) /\ UNCHANGED visible
    /\ UNCHANGED <<command, state, server, sent, refused, posted, history>>

(* in.read(bytes) takes what has arrived of one answer or of several, and  *)
(* its result is dropped: the -1 of a connection that the server closed or *)
(* whose input was shut down is not told from an answer.                   *)
Read(t) ==
    /\ At(t, "read")
    /\ \E s \in visible["in"][t] :
        \/ /\ state[s] \in {"open", "reset"} /\ taken[s] < answered[s]
           /\ \E n \in taken[s] + 1..answered[s] : taken' = [taken EXCEPT ![s] = n]
           /\ Advance(t) /\ UNCHANGED silent
        \/ /\ state[s] = "shut" \/ (state[s] = "reset" /\ taken[s] = answered[s])
           /\ Advance(t) /\ silent' = silent + 1 /\ UNCHANGED taken
        \/ state[s] \in ClosedStates /\ Throw(t) /\ UNCHANGED <<taken, silent>>
    /\ UNCHANGED <<command, visible, state, received, answered, sent, refused, posted,
                   overlapped, cut>>

(* Mutant: SUCCESS_ON in both run() methods. *)
OutcomeAlwaysOn(t) == "on"

Outcome(t) == command[t]

(* SUCCESS_ON or SUCCESS_OFF *)
Success(t) ==
    /\ At(t, "success") /\ Advance(t)
    /\ Post(t, Outcome(t))
    /\ UNCHANGED <<command, visible, state, server, sent, refused, history>>

(* socket.close() *)
Close(t) ==
    /\ At(t, "close") /\ Advance(t)
    /\ \E s \in visible["socket"][t] :
        state' = [state EXCEPT ![s] = IF @ \in {"new", "dropped"} THEN "dropped" ELSE "closed"]
    /\ UNCHANGED <<command, visible, server, sent, refused, posted, history>>

(* socket.shutdownInput() reads the field again: it throws on the socket   *)
(* that was just closed, and hits one that another command has connected   *)
(* in between.  Either way run() ends.                                     *)
Shutdown(t) ==
    /\ At(t, "shutdown") /\ Advance(t)
    /\ \E s \in visible["socket"][t] :
        state' = IF state[s] \in ConnectedStates THEN [state EXCEPT ![s] = "shut"] ELSE state
    /\ UNCHANGED <<command, visible, server, sent, refused, posted, history>>

Run(t) ==
    \/ Create(t) \/ Connect(t) \/ Check(t)
    \/ GetOutput(t) \/ (\E m \in Messages : Send(t, m))
    \/ GetInput(t) \/ Read(t)
    \/ Success(t) \/ Close(t) \/ Shutdown(t)

(* The next part of the answer to a message arrives ...  Bound: no         *)
(* behaviour has both commands that overlap and answers in parts.          *)
Answer(s) ==
    /\ state[s] = "open"
    /\ answered[s] < (IF overlapped THEN 1 ELSE Parts) * Len(received[s])
    /\ answered' = [answered EXCEPT ![s] = @ + 1]
    /\ UNCHANGED <<command, pc, visible, state, received, taken, sent, refused, posted,
                   history>>

(* ... or the server closes the connection. *)
Reset(s) ==
    /\ ~overlapped     \* bound
    /\ state[s] = "open"
    /\ state' = [state EXCEPT ![s] = "reset"]
    /\ cut' = TRUE
    /\ UNCHANGED <<command, pc, visible, server, sent, refused, posted, overlapped, silent>>

Next ==
    \/ \E c \in Commands : Click(c)
    \/ \E t \in Threads : Run(t)
    \/ \E s \in Sockets : Answer(s) \/ Reset(s)

Spec == Init /\ [][Next]_vars

(* As long as a thread can run, one does; the server answers what it       *)
(* received, in some order of the connections.                             *)
Fairness ==
    /\ WF_vars(\E t \in Threads : Run(t))
    /\ WF_vars(\E s \in Sockets : Answer(s))

FairSpec == Spec /\ Fairness

-------------------------------------------------------------------------------
(* Properties. *)

Succeeded(t) == \E i \in 1..Len(posted) : posted[i] = [thread |-> t, kind |-> command[t]]

(* The command of a thread goes to a connection on which the login went    *)
(* before it (SendMsg(socket, user) in both run() methods), when one       *)
(* command ends before the next is clicked.                                *)
LoginFirst ==
    ~overlapped => \A t \in Threads : sent[t] # -1 => Head(received[sent[t]]) = "user"

(* What was read of the answers: of which connection, and its number.      *)
AnswersTaken == UNION {{<<s, n>> : n \in 1..taken[s]} : s \in Sockets}

(* Two threads that read from one connection do not take one answer both:  *)
(* every SUCCESS_OFF is backed by a read that returned and every           *)
(* SUCCESS_ON by two, each with a part of an answer or with the end of the *)
(* stream, even when commands overlap.  The end of the stream passes for   *)
(* an answer only when the server closed a connection, or when commands    *)
(* overlap and one shuts the input of the other down.                      *)
AnswersBackSuccesses ==
    LET Successes(c) == {t \in Threads : command[t] = c /\ Succeeded(t)}
    IN  /\ 2 * Cardinality(Successes("on")) + Cardinality(Successes("off"))
               <= Cardinality(AnswersTaken) + silent
        /\ silent > 0 => cut \/ overlapped

(* A command that ended with its success leaves its connection closed,     *)
(* also when the server closed it or commands before it failed.            *)
NothingLeftOpen ==
    ~overlapped => \A t \in Threads :
        Succeeded(t) /\ Ended(t) => state[sent[t]] \in ClosedStates

(* Commands end, with their success or with an exception; of commands that *)
(* overlap, one may wait for good for an answer the other took.            *)
CommandsEnd == (\E t \in Threads : Running(t)) ~> ((\A t \in Threads : ~Running(t)) \/ overlapped)

(* "Before a message is sent to the server, it must be connected": SendMsg *)
(* is not called with a socket that is not connected.                      *)
SendsWhenConnected == ~refused
===============================================================================
