--------------------------- MODULE MCMjpegViewDefault ---------------------------
(***************************************************************************)
(* MjpegViewDefault with a bound on the sources of a surface whose size    *)
(* is set, which makes its promises of what ends checkable together with   *)
(* the others.                                                             *)
(***************************************************************************)
EXTENDS MjpegViewDefault

CONSTANT SizedSources   \* bound: sources given in a behaviour in which the size is set

Sized == size # 0 \/ dispWidth # 0

MCNext == Next /\ (Sized' => \A i \in 1..Len(writes') : writes'[i] <= SizedSources)

MCSpec == Init /\ [][MCNext]_vars

MCFairSpec == MCSpec /\ Scheduling /\ ClosedReadsEnd
===============================================================================
