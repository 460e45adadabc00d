---------------------------- MODULE MCLeaseTiming ----------------------------
(***************************************************************************)
(* Small instances of LeaseTiming: one endpoint.                           *)
(***************************************************************************)
EXTENDS LeaseTiming, TLC

CONSTANTS d1, d2, e1

OneEndpoint == [d \in Delivery |-> e1]

=============================================================================
