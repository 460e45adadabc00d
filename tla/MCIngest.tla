------------------------------ MODULE MCIngest ------------------------------
(***************************************************************************)
(* A small instance of Ingest: webhooks of one source.                     *)
(***************************************************************************)
EXTENDS Ingest, TLC

CONSTANTS r1, r2, r3, shop, own

Hook(provider, id, body) ==
  [provider |-> provider, owner |-> shop, scope |-> own, type |-> "sent",
   id |-> id, body |-> body]

\* A webhook that its provider sends twice under the same id, and one of GitHub,
\* whose key is its body.
Hooks ==
  r1 :> Hook("stripe", 1, 1) @@ r2 :> Hook("stripe", 1, 2) @@ r3 :> Hook("github", 1, 1)

TenantScope == own :> NoOwner
EveryType == "all" :> {"sent"}

=============================================================================
