------------------------------ MODULE MCBackend -----------------------------
(* Two tenants, as the program is built.  Requests ask about key 0, the    *)
(* value the arbiter cannot tell from "no request", and about key 1.       *)
EXTENDS Backend, TLC

\* Tenant 0 reports up to two kernels in one packet; tenant 1 reports a key
\* its map has from the start, 0, and one it has not, 1.
MCPackets ==
    (0 :> [key : {0, 1}, recs : {<<>>, <<1>>, <<1, 2>>}]) @@
    (1 :> [key : {0, 1}, recs : {<<>>, <<0>>, <<0, 1>>}])

\* Real grids only (grid.x is 1 at least), and only tenant 1 has measurements
\* to report: neither the key 0 nor the race on tenant 0's map can happen.
MCReportOfTenant1 ==
    (0 :> [key : {1}, recs : {<<>>}]) @@
    (1 :> [key : {1}, recs : {<<>>, <<1>>}])

\* Real grids only, and nothing measured yet.
MCNoReports == [t \in Tenants |-> [key : {1}, recs : {<<>>}]]

=============================================================================
