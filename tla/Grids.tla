-------------------------------- MODULE Grids -------------------------------
(***************************************************************************)
(* The grids an application launches, as far as the predictor tells them   *)
(* apart, and what becomes of one that is copied without a lock.           *)
(***************************************************************************)
EXTENDS Naturals

CONSTANTS
    Grids,          \* the grids the application launches
    NoGrid          \* no launch is going on

Grid == [x : Nat, y : Nat]

ASSUME GridsAssumption == Grids \subseteq Grid /\ NoGrid \notin Grid

\* Trigger's constructor leaves Grid's default in m_grid.
DefaultGrid == [x |-> 1, y |-> 1]

\* The marks Predictor takes for start and end of a library's kernels.
StartOfLibrary == [x |-> 0, y |-> 0]
EndOfLibrary == [x |-> 1, y |-> 0]

\* What a copy, component by component, of a grid that is being changed yields.
Mixes(S) == {[x |-> a.x, y |-> b.y] : a \in S, b \in S}

=============================================================================
