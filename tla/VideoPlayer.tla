----------------------------- MODULE VideoPlayer ------------------------------
(***************************************************************************)
(* What a video surface promises to whoever gives it streams: a frame on   *)
(* the screen comes from a stream that was given to it, and once a frame   *)
(* of one stream has been shown no frame of an earlier one comes back.     *)
(***************************************************************************)
EXTENDS Naturals, Sequences

CONSTANTS Streams, Null

VARIABLES
    given,   \* the streams given so far, and a Null for each time they were withdrawn
    shown    \* which element of given the frame on the screen comes from, 0 before the first

Init == given = <<Null>> /\ shown = 0

Give(s) == given' = Append(given, s) /\ UNCHANGED shown

Withdraw == given' = Append(given, Null) /\ UNCHANGED shown

Show == \E v \in 1..Len(given) :
    /\ given[v] # Null
    /\ v >= shown
    /\ shown' = v
    /\ UNCHANGED given

Next == (\E s \in Streams : Give(s)) \/ Withdraw \/ Show

Spec == Init /\ [][Next]_<<given, shown>>
===============================================================================
