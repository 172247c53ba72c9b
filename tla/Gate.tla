-------------------------------- MODULE Gate --------------------------------
(***************************************************************************)
(* What Trigger::Wait/Notify and RequestPool::wait/release promise their   *)
(* callers: a one-permit gate.  Notify leaves a permit; a permit is not    *)
(* counted, so two Notify calls with no Wait between them leave one.  A    *)
(* thread in Wait returns by taking the permit, and no permit is taken     *)
(* twice.  How mutex, condition variable and wake-ups deliver that is the  *)
(* business of CondVarGate, which implements this module; the modules of   *)
(* the whole program use the gate's two operations as single steps.        *)
(***************************************************************************)

CONSTANT Waiters    \* the threads that call Wait

VARIABLES
    ready,          \* a permit is in the gate
    waiting         \* the threads that have called Wait and not returned

vars == <<ready, waiting>>

\* Neither constructor writes its flag, so the first value is whatever the
\* memory held.
Init ==
    /\ ready \in BOOLEAN
    /\ waiting = {}

Enter(w) ==
    /\ w \notin waiting
    /\ waiting' = waiting \union {w}
    /\ UNCHANGED ready

Open ==
    /\ ready' = TRUE
    /\ UNCHANGED waiting

Pass(w) ==
    /\ w \in waiting
    /\ ready
    /\ ready' = FALSE
    /\ waiting' = waiting \ {w}

PassAny == \E w \in Waiters : Pass(w)

Next ==
    \/ Open
    \/ \E w \in Waiters : Enter(w) \/ Pass(w)

Safety == Init /\ [][Next]_vars

\* A permit with somebody waiting for it is taken.
Spec == Safety /\ WF_vars(PassAny)

=============================================================================
