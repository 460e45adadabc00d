----------------------------- MODULE MCPipeline -----------------------------
(***************************************************************************)
(* A small instance of Pipeline: a message to a tenant's own endpoints     *)
(* while its endpoint is registered and patched.                           *)
(***************************************************************************)
EXTENDS Pipeline, TLC

CONSTANTS r1, acme, own

Scopes == {own, acme}
ScopeOwner == [s \in Scopes |-> IF s = acme THEN acme ELSE NoOwner]
Types == {"paid", "sent"}
Patterns == {"paid", "sent"}
Matches == [p \in Patterns |-> {p}]
Lists == {{"sent"}}

OneMessage ==
  r1 :> [provider |-> "producer", owner |-> NoOwner, scope |-> own, type |-> "paid",
         id |-> Null, body |-> 0]

=============================================================================
