------------------------------ MODULE MCFrontend ----------------------------
(* The two marks and two kernels, one of which has the start mark's y and  *)
(* neither mark's x; readings that yield nothing, one kernel or two.       *)
EXTENDS Frontend

MCGrids == {StartOfLibrary, EndOfLibrary, [x |-> 2, y |-> 0], [x |-> 1, y |-> 1]}

MCBatches == {<<>>, <<1>>, <<1, 2>>}

=============================================================================
