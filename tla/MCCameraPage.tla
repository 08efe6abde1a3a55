------------------------------ MODULE MCCameraPage ------------------------------
(***************************************************************************)
(* The control threads share no variable with the page: all the page sees  *)
(* of them are messages, which may come at any time, and all they see of   *)
(* it are clicks.  So behaviours are explored of the ones and of the other *)
(* with any messages and clicks, and under smaller bounds of the two       *)
(* together, where the clicks and the messages are the actual ones.        *)
(***************************************************************************)
EXTENDS VideoFragment

VARIABLE part   \* what the behaviour is of

(* Bounds of the two together: one message waiting, answers in one part,   *)
(* no window over the page (the user who waits would not click again).     *)
Few ==
    /\ Len(inbox') <= 1 /\ covered' = "never"
    /\ \A s \in Sockets : answered'[s] <= Len(received'[s])

MCInit == FragmentInit /\ part \in {"control", "page", "together"}

MCNext ==
    /\ UNCHANGED part
    /\ \/ part = "control" /\ Next /\ UNCHANGED pageVars
       \/ part = "page" /\ PageNext /\ UNCHANGED vars
       \/ part = "together" /\ FragmentNext /\ Few

MCSpec == MCInit /\ [][MCNext]_<<fragmentVars, part>>

MCFairSpec == MCSpec /\ Fairness /\ PageFairness
===============================================================================
