---------------------------- MODULE MCDispatcher ----------------------------
(***************************************************************************)
(* Small instances of Dispatcher for TLC.                                  *)
(***************************************************************************)
EXTENDS Dispatcher

CONSTANTS d1, d2, e1

OneEndpoint == [d \in {d1, d2} |-> e1]
OneDelivery == [d \in {d1} |-> e1]

=============================================================================
