---------------------------- MODULE MCMqttService -----------------------------
(***************************************************************************)
(* The service and the pages that start it share no variable: all the      *)
(* service sees of the pages is that it is started, at any time, and all   *)
(* that a dying process leaves is the file and a service that starts anew. *)
(* So behaviours are explored of the one and of the other, chosen at the   *)
(* start, and not of their interleavings.                                  *)
(***************************************************************************)
EXTENDS MqttService, Account

MCInit == Init /\ AccountInit

(* The part of the system that takes the step; the other has not moved.    *)
MCNext ==
    \/ Next /\ AccountInit /\ UNCHANGED accountVars
    \/ AccountNext /\ Init /\ network /\ UNCHANGED vars

MCSpec == MCInit /\ [][MCNext]_<<vars, accountVars>>

(* Nobody has to use a page. *)
MCFairSpec == MCSpec /\ Fairness
===============================================================================
