----------------------------- MODULE Arbitration ----------------------------
(***************************************************************************)
(* What the backend promises each tenant: one request at a time, and an    *)
(* answer only after the arbiter has granted that request.                 *)
(***************************************************************************)

CONSTANT Tenants

VARIABLE phase      \* where each tenant's outstanding request stands

Phases == {"idle", "asked", "granted", "answered"}

Init == phase = [t \in Tenants |-> "idle"]

Advance(t, from, to) ==
    /\ phase[t] = from
    /\ phase' = [phase EXCEPT ![t] = to]

Ask(t)    == Advance(t, "idle", "asked")
Grant(t)  == Advance(t, "asked", "granted")
Answer(t) == Advance(t, "granted", "answered")
Return(t) == Advance(t, "answered", "idle")

Next == \E t \in Tenants : Ask(t) \/ Grant(t) \/ Answer(t) \/ Return(t)

Spec == Init /\ [][Next]_phase

=============================================================================
