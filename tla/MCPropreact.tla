------------------------------ MODULE MCPropreact ---------------------------
(* One application with its library, the backend, and a second tenant.     *)
EXTENDS Propreact, TLC

\* The marks and a kernel.
MCGrids == {StartOfLibrary, EndOfLibrary, [x |-> 2, y |-> 1]}

MCBatches == {<<>>, <<2, 1>>}

\* What the library can send with these, and a second tenant that reports a key
\* its map has or one it has not.
MCPackets ==
    (0 :> [key : {0, 1, 2}, recs : MCBatches]) @@
    (1 :> [key : {1}, recs : {<<0>>, <<1>>}])

\* Nothing has been measured and the second tenant keeps silent.
MCNoBatches == {<<>>}

MCSilentTenant1 ==
    (0 :> [key : {0, 1, 2}, recs : MCNoBatches]) @@ (1 :> {})

=============================================================================
