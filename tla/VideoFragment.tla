----------------------------- MODULE VideoFragment -----------------------------
(***************************************************************************)
(* The camera page together with its control threads: the buttons of the   *)
(* page start them (onClick), and their messages go to its handler.        *)
(***************************************************************************)
EXTENDS CameraControl, VideoPage

fragmentVars == <<vars, pageVars>>

FragmentInit == Init /\ PageInit

(* fab_off is always there, btn_reload is part of the error page. *)
Reachable(c) == page = "alive" /\ (c = "on" => error)

Settled == Quiet /\ \A t \in Threads : ~Running(t)

(* The user waits until nothing moves before the next click. *)
ClickButton(c) ==
    /\ Reachable(c)
    /\ Settled
    /\ Click(c)
    /\ UNCHANGED pageVars

(* A step of a control thread, with the message it may send. *)
RunThread(t) ==
    /\ Run(t)
    /\ \/ posted' = posted /\ UNCHANGED pageVars
       \/ posted' # posted /\ Posted(posted'[Len(posted')].kind)

Serve ==
    /\ \E s \in Sockets : Answer(s) \/ Reset(s)
    /\ UNCHANGED pageVars

(* The page; the network stays as it is. *)
Work ==
    /\ System
    /\ UNCHANGED network
    /\ UNCHANGED vars

FragmentNext ==
    \/ \E c \in Commands : ClickButton(c)
    \/ \E t \in Threads : RunThread(t)
    \/ Serve
    \/ Work

FragmentSpec == FragmentInit /\ [][FragmentNext]_fragmentVars

-------------------------------------------------------------------------------
(* Properties. *)

(* The last command that succeeded is an off. *)
SwitchedOff ==
    \E i \in 1..Len(posted) :
        /\ posted[i].kind \in Commands /\ command[posted[i].thread] = "off"
        /\ \A j \in i + 1..Len(posted) : posted[j].kind \notin Commands

(* A camera that was switched off is not shown: once the last command that *)
(* succeeded is an off and nothing is outstanding, the page is the error   *)
(* page, nothing plays, and its button can switch the camera on again;     *)
(* whatever the opens before it answered, and in which order.              *)
OffStays ==
    Settled /\ SwitchedOff => ~video /\ playing = 0 /\ Reachable("on")
===============================================================================
