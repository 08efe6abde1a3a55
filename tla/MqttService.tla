----------------------------- MODULE MqttService ------------------------------
(***************************************************************************)
(* The connection of MQTTService.java to its broker.  The service is       *)
(* started by every MainActivity.onCreate, and each start makes a new      *)
(* MqttAndroidClient without closing the one it replaces.                  *)
(*                                                                         *)
(* The Paho library is external.  All clients of the service have the same *)
(* server and client id, so Paho gives them one connection, and every      *)
(* client that ever connected gets each result of that connection, in the  *)
(* main thread.  connect() only asks for an attempt, made later on another *)
(* thread; an attempt under way is not repeated, and one for a connection  *)
(* that is up succeeds at once.  Requests of one client that wait for that *)
(* thread are one request.                                                 *)
(***************************************************************************)
EXTENDS Naturals, Sequences

CONSTANTS
    MaxStarts,   \* bound: how often the service is started
    MaxInbox     \* bound: messages that wait for the main thread

ASSUME MaxStartsAssumption == MaxStarts \in Nat
ASSUME MaxInboxAssumption  == MaxInbox \in Nat \ {0}

Clients == 1..MaxStarts    \* MqttAndroidClient objects, in the order they are made

VARIABLES
    process,      \* "up", or "crashed" by an exception in the main thread
    running,      \* the service is started, its network receiver registered
    client,       \* the static field: 0 for null, else the newest client
    bound,        \* clients whose mqttService is set: they get all results
    requests,     \* clients that called connect() and wait for Paho's thread
    network,      \* there is an active network
    conn,         \* Paho's connection: "down", "connecting" or "up"
    link,         \* the connection that is up still reaches the broker
    subscribed,   \* the topics are subscribed on this connection
    inbox,        \* what the main thread will handle, in order
    hurried       \* history: the service was started again before the results
                  \* of the last start were handled, or it was stopped

vars == <<process, running, client, bound, requests, network, conn, link, subscribed, inbox,
          hurried>>

Events == {"success", "failure", "lost", "network"}

TypeOK ==
    /\ process \in {"up", "crashed"}
    /\ running \in BOOLEAN /\ hurried \in BOOLEAN
    /\ client \in Clients \cup {0}
    /\ bound \subseteq Clients /\ requests \subseteq Clients
    /\ network \in BOOLEAN /\ link \in BOOLEAN /\ subscribed \in BOOLEAN
    /\ conn \in {"down", "connecting", "up"}
    /\ inbox \in Seq(Events)

Init ==
    /\ process = "up"
    /\ running = FALSE /\ client = 0
    /\ bound = {} /\ requests = {}
    /\ network \in BOOLEAN
    /\ conn = "down" /\ link = FALSE /\ subscribed = FALSE
    /\ inbox = <<>> /\ hurried = FALSE

Up          == process = "up" /\ UNCHANGED process
Room        == Len(inbox) < MaxInbox
Announce(e) == Room /\ inbox' = Append(inbox, e)
IsConnected(c) == c \in bound /\ conn = "up"

ShouldConnect(c) == ~IsConnected(c) /\ network

DoClientConnection(c) ==
    requests' = IF ShouldConnect(c) THEN requests \cup {c} ELSE requests

-------------------------------------------------------------------------------
(* Mutant: connect() before the field is replaced. *)
ConnectedByInitBefore == client

ConnectedByInit == client + 1

(* onStartCommand: init() makes the next client and connects it, and the   *)
(* registration of the receiver is answered with the sticky connectivity   *)
(* broadcast.                                                              *)
Start ==
    /\ Up
    /\ client < MaxStarts
    /\ client' = client + 1
    /\ DoClientConnection(ConnectedByInit)
    /\ running' = TRUE
    /\ hurried' = (hurried \/ requests # {} \/ conn = "connecting" \/ inbox # <<>>)
    /\ Announce("network")
    /\ UNCHANGED <<bound, network, conn, link, subscribed>>

(* onDestroy: disconnect() on a client that is not bound is a              *)
(* NullPointerException, which the catch clause does not name; an attempt  *)
(* under way is not stopped.                                               *)
Destroy ==
    /\ process = "up"
    /\ running
    /\ \/ client \notin bound /\ process' = "crashed" /\ UNCHANGED <<running, conn, subscribed>>
       \/ /\ client \in bound /\ UNCHANGED process
          /\ running' = FALSE
          /\ conn' = IF conn = "up" THEN "down" ELSE conn
          /\ subscribed' = FALSE
    /\ hurried' = TRUE
    /\ UNCHANGED <<client, bound, requests, network, link, inbox>>

(* Paho, on its own thread: the request of client c. *)
Connect(c) ==
    /\ Up
    /\ c \in requests
    /\ requests' = requests \ {c}
    /\ bound' = bound \cup {c}
    /\ \/ conn = "down" /\ conn' = "connecting" /\ UNCHANGED inbox
       \/ conn = "connecting" /\ UNCHANGED <<conn, inbox>>
       \/ conn = "up" /\ Announce("success") /\ UNCHANGED conn
    /\ UNCHANGED <<running, client, network, link, subscribed, hurried>>

(* The attempt under way is accepted, or fails. *)
Accept ==
    /\ Up
    /\ conn = "connecting" /\ network
    /\ conn' = "up" /\ link' = TRUE
    /\ Announce("success")
    /\ UNCHANGED <<running, client, bound, requests, network, subscribed, hurried>>

Fail ==
    /\ Up
    /\ conn = "connecting"
    /\ conn' = "down"
    /\ Announce("failure")
    /\ UNCHANGED <<running, client, bound, requests, network, link, subscribed, hurried>>

(* The broker or the keep-alive ends the connection; the session is clean, *)
(* so its subscriptions go with it.                                        *)
Lose ==
    /\ Up
    /\ conn = "up"
    /\ conn' = "down" /\ link' = FALSE /\ subscribed' = FALSE
    /\ Announce("lost")
    /\ UNCHANGED <<running, client, bound, requests, network, hurried>>

(* The network goes or comes back, and the system broadcasts it.  Paho     *)
(* does not know of the dead link before its keep-alive is not answered.   *)
NetworkChanges ==
    /\ Up
    /\ network' = ~network
    /\ link' = FALSE
    /\ IF running THEN Announce("network") ELSE UNCHANGED inbox
    /\ UNCHANGED <<running, client, bound, requests, conn, subscribed, hurried>>

-------------------------------------------------------------------------------
(* The main thread takes the next message. *)
Take(e) ==
    /\ process = "up"
    /\ inbox # <<>> /\ Head(inbox) = e
    /\ inbox' = Tail(inbox)

(* Mutant: onSuccess does not subscribe. *)
SubscribedAfterNothing == subscribed

(* client.subscribe reaches the broker when the connection is up. *)
SubscribedAfter == conn = "up"

(* onSuccess, for every bound client: it subscribes on the client of the   *)
(* static field, and that one may not be bound yet.                        *)
OnSuccess ==
    /\ Take("success")
    /\ \/ client \notin bound /\ process' = "crashed" /\ UNCHANGED subscribed
       \/ client \in bound /\ subscribed' = SubscribedAfter /\ UNCHANGED process
    /\ UNCHANGED <<running, client, bound, requests, network, conn, link, hurried>>

(* Mutant: onFailure only logs. *)
RequestsAfterFailureLogged == requests

RequestsAfterFailure ==
    IF ShouldConnect(client) THEN requests \cup {client} ELSE requests

(* onFailure, for every bound client. *)
OnFailure ==
    /\ Take("failure") /\ UNCHANGED process
    /\ requests' = RequestsAfterFailure
    /\ UNCHANGED <<running, client, bound, network, conn, link, subscribed, hurried>>

(* connectionLost has no body. *)
ConnectionLost ==
    /\ Take("lost") /\ UNCHANGED process
    /\ UNCHANGED <<running, client, bound, requests, network, conn, link, subscribed, hurried>>

(* NetWorkStateReceiver.onReceive; a receiver that was unregistered in the *)
(* meantime gets nothing.                                                  *)
OnReceive ==
    /\ Take("network") /\ UNCHANGED process
    /\ IF running /\ network THEN DoClientConnection(client) ELSE UNCHANGED requests
    /\ UNCHANGED <<running, client, bound, network, conn, link, subscribed, hurried>>

MainThread == OnSuccess \/ OnFailure \/ ConnectionLost \/ OnReceive

Next ==
    \/ Start \/ Destroy
    \/ \E c \in Clients : Connect(c)
    \/ Accept \/ Fail \/ Lose \/ NetworkChanges
    \/ MainThread

Spec == Init /\ [][Next]_vars

(* The main thread and Paho's thread run; an attempt is answered, and the  *)
(* broker accepts in the end if it is asked again and again; a dead link   *)
(* is noticed.                                                             *)
Fairness ==
    /\ WF_vars(MainThread)
    /\ \A c \in Clients : WF_vars(Connect(c))
    /\ WF_vars(Fail) /\ SF_vars(Accept)
    /\ WF_vars(Lose /\ ~link)

FairSpec == Spec /\ Fairness

-------------------------------------------------------------------------------
(* Properties. *)

Waiting(e) == \E i \in 1..Len(inbox) : inbox[i] = e

(* A connection that is up is subscribed, or the main thread still has a   *)
(* success to handle and will subscribe then; however often the service    *)
(* was started, lost its connection and connected again in between.        *)
SubscriptionPursued ==
    process = "up" /\ conn = "up" => subscribed \/ Waiting("success")

(* A client is used only once it is bound to Paho (its use before that is  *)
(* an uncaught exception), unless the service was started again while an   *)
(* attempt was under way or was stopped.                                   *)
NoUnboundClient == process = "up" \/ hurried

(* "connection failed, reconnect" (onFailure), and the network receiver:   *)
(* once an attempt is asked for or the network is announced, attempts go   *)
(* on until the connection is up or there is no network.                   *)
AttemptsGoOn ==
    (requests # {} \/ conn = "connecting" \/ (running /\ Waiting("network")))
        ~> (conn = "up" \/ ~network \/ ~running \/ process = "crashed")

(* "connection lost, reconnect" (connectionLost): while the network stays, *)
(* the connection comes back.                                              *)
ReconnectsAfterLoss == <>[](running /\ network /\ process = "up") => []<>(conn = "up")
===============================================================================
