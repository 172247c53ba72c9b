----------------------------- MODULE MCLaunchers ----------------------------
(* The two marks and a kernel, of key 1.  The start mark and the kernel mix *)
(* to the end mark and to (0, 1), a kernel of key 0 nobody launched.        *)
EXTENDS Launchers, TLC

MCGrids == {StartOfLibrary, EndOfLibrary, [x |-> 1, y |-> 1]}

=============================================================================
