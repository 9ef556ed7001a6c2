------------------------------ MODULE FrameLine ------------------------------
(***************************************************************************)
(* What the USB receive path promises its parser: the frames the host has  *)
(* sent arrive whole, in the order they were sent, each of them once.      *)
(***************************************************************************)
EXTENDS Sequences

CONSTANT Frames   \* every frame a host may send

VARIABLES
    line,    \* sent and not yet delivered
    frame    \* the last one delivered

Nothing == [req |-> 0, index |-> 0]

Init == line = <<>> /\ frame = Nothing

Send == \E f \in Frames : line' = Append(line, f) /\ UNCHANGED frame

Deliver == line # <<>> /\ frame' = Head(line) /\ line' = Tail(line)

Next == Send \/ Deliver

Spec == Init /\ [][Next]_<<line, frame>>
=============================================================================
