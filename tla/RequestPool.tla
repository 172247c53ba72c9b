----------------------------- MODULE RequestPool ----------------------------
(***************************************************************************)
(* The backend's RequestPool: the map of pending requests, guarded by      *)
(* m_mutex, and one gate per tenant.  update and retrieve keep m_mutex for *)
(* the whole of their body and call nothing that blocks, so each is one    *)
(* step.  wait and release are the gate of CondVarGate, used here through  *)
(* what Gate promises of it.                                               *)
(*                                                                         *)
(* The operators are the component's operations: each says what the        *)
(* operation does to the component's own variables and to nothing else.    *)
(* A definition named Faulty... is the one after it with a mistake in it;  *)
(* no other definition uses it.  It shows that the properties would notice *)
(* the mistake.                                                            *)
(***************************************************************************)
EXTENDS Tenancy

CONSTANT NoRequest      \* the tenant has no entry in m_tenant_requests

ASSUME NoRequestAssumption == NoRequest \notin Nat

VARIABLES
    requests,       \* m_tenant_requests: the key each tenant asks about
    ready           \* m_tenant_ready: the permit in each tenant's gate

poolVars == <<requests, ready>>

PoolTypeOK ==
    /\ requests \in [Tenants -> Nat \union {NoRequest}]
    /\ ready \in [Tenants -> BOOLEAN]

\* The constructor writes m_num_tenants alone.
PoolInit ==
    /\ requests = [t \in Tenants |-> NoRequest]
    /\ ready \in [Tenants -> BOOLEAN]

Pending(t) == requests[t] # NoRequest

\* The guard is the assertion of update: Backend says what happens when it fails.
PoolUpdate(t, key) ==
    /\ ~Pending(t)
    /\ requests' = [requests EXCEPT ![t] = key]
    /\ UNCHANGED ready

\* What retrieve returns: 0 stands for "no request".
Retrieved(t) == IF Pending(t) THEN requests[t] ELSE 0

\* The entry stays in the map.
FaultyPoolRetrieve(t) == UNCHANGED poolVars

PoolRetrieve(t) ==
    /\ requests' = [requests EXCEPT ![t] = NoRequest]
    /\ UNCHANGED ready

PoolRelease(t) ==
    /\ ready' = [ready EXCEPT ![t] = TRUE]
    /\ UNCHANGED requests

\* The permit stays in the gate.
FaultyPoolWait(t) ==
    /\ ready[t]
    /\ UNCHANGED poolVars

PoolWait(t) ==
    /\ ready[t]
    /\ ready' = [ready EXCEPT ![t] = FALSE]
    /\ UNCHANGED requests

=============================================================================
