------------------------------ MODULE MCRestarts ----------------------------
(* Two tenants; tenant 0's application may be followed by another one.      *)
EXTENDS Restarts, TLC

\* Key 0, the race on tenant 0's map and the leak can all happen, and none has
\* to.
MCFewPackets ==
    (0 :> [key : {0, 1}, recs : {<<1>>}]) @@
    (1 :> [key : {1}, recs : {<<0>>, <<1>>}])

\* Predictor has tenant 0's URLs built in.
MCMaxRestarts == (0 :> 1) @@ (1 :> 0)

=============================================================================
