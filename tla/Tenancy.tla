------------------------------- MODULE Tenancy ------------------------------
(***************************************************************************)
(* The tenants of the backend.  RequestPool, GlobalWindow and Arbiter each *)
(* keep their own count of them, the same number in all three.             *)
(***************************************************************************)
EXTENDS Naturals

CONSTANT NumTenants     \* m_num_tenants, m_tenants: 2 in this build

ASSUME NumTenantsAssumption == NumTenants \in Nat \ {0}

Tenants == 0 .. NumTenants - 1

=============================================================================
