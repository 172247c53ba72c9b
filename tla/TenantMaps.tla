----------------------------- MODULE TenantMaps -----------------------------
(***************************************************************************)
(* The half of GlobalWindow the backend uses: per tenant, a map from a     *)
(* kernel's grid.x to the queue of its (active, idle) measurements, and    *)
(* m_mutex.  Tenant 0's thread fills an idle map, every other tenant's     *)
(* thread an active map; the arbiter looks both kinds up.  Nothing reads a *)
(* measurement back (retrieve_idle and retrieve_active return 0 whatever   *)
(* they find), so a map is the set of its keys.                            *)
(*                                                                         *)
(* Faulty... definitions: see RequestPool.                                 *)
(***************************************************************************)
EXTENDS Tenancy

CONSTANTS
    Arbiter,        \* the arbiter's thread; a backend thread is its tenant
    Nobody          \* the owner of an unlocked mutex

ASSUME ThreadsAssumption ==
    /\ Arbiter \notin Nat
    /\ Nobody \notin Nat
    /\ Arbiter # Nobody

VARIABLES
    mutex,          \* the owner of GlobalWindow::m_mutex
    keys            \* the keys of m_tenants_idle_map_vector[0] and
                    \* m_tenants_active_map_vector[t], t > 0

mapVars == <<mutex, keys>>

MapsTypeOK ==
    /\ mutex \in Tenants \union {Arbiter, Nobody}
    /\ keys \in [Tenants -> SUBSET Nat]

\* Every map starts with a dummy measurement of key 0.
MapsInit ==
    /\ mutex = Nobody
    /\ keys = [t \in Tenants |-> {0}]

\* A key that is there already is erased and not put back with its longer queue.
FaultyAddKey(t, key) ==
    keys' = [keys EXCEPT ![t] = IF key \in @ THEN @ \ {key} ELSE @ \union {key}]

AddKey(t, key) == keys' = [keys EXCEPT ![t] = @ \union {key}]

\* update_idle takes no lock.
UpdateIdle(t, key) ==
    /\ AddKey(t, key)
    /\ UNCHANGED mutex

\* update_active returns from its not-found branch without unlocking.
UpdateActive(t, key) ==
    /\ mutex = Nobody
    /\ AddKey(t, key)
    /\ mutex' = IF key \in keys[t] THEN Nobody ELSE t

\* No lock is taken.
FaultyBeginRetrieve ==
    /\ mutex' = Arbiter
    /\ UNCHANGED keys

\* retrieve_idle and retrieve_active: lock, copy the tenant's map, unlock.
BeginRetrieve ==
    /\ mutex = Nobody
    /\ mutex' = Arbiter
    /\ UNCHANGED keys

EndRetrieve ==
    /\ mutex = Arbiter
    /\ mutex' = Nobody
    /\ UNCHANGED keys

\* m_mutex belongs for good to a backend thread that has left update_active.
Leaked == mutex \in Tenants

=============================================================================
