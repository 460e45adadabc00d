----------------------------- MODULE MCTenancy ------------------------------
(***************************************************************************)
(* A small instance of Tenancy: two tenants that use the same names.       *)
(***************************************************************************)
EXTENDS Tenancy, TLC

Symmetry ==
  Permutations(Conn) \cup Permutations(Key) \cup Permutations(Tenant)
    \cup Permutations(ConsumerId) \cup Permutations(EndpointId)

=============================================================================
