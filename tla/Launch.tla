-------------------------------- MODULE Launch ------------------------------
(***************************************************************************)
(* What XrushLaunch promises the application: the calls do not overlap,    *)
(* and a call returns once it has been settled, that is once the predictor *)
(* has dealt with the very grid the call was made for.                     *)
(***************************************************************************)

CONSTANTS
    Grids,          \* what a kernel launch may ask for
    NoGrid          \* no launch

VARIABLES
    asked,          \* the launch that is going on
    settled         \* the launch that has been dealt with and may return

vars == <<asked, settled>>

Init == asked = NoGrid /\ settled = NoGrid

Call(g) ==
    /\ asked = NoGrid
    /\ asked' = g
    /\ UNCHANGED settled

Settle ==
    /\ asked # NoGrid
    /\ settled = NoGrid
    /\ settled' = asked
    /\ UNCHANGED asked

Return ==
    /\ asked # NoGrid
    /\ settled = asked
    /\ asked' = NoGrid
    /\ settled' = NoGrid

Next == Settle \/ Return \/ \E g \in Grids : Call(g)

Spec == Init /\ [][Next]_vars

=============================================================================
