------------------------------- MODULE Authz -------------------------------
(***************************************************************************)
(* The access check of stage 3 (authz/): a role's permissions, the         *)
(* attributes a card declares, and the decision kept under a digest of     *)
(* everything the decision reads.                                          *)
(***************************************************************************)
EXTENDS Integers

CONSTANT Grants   \* role-permission registry: role -> permissions

Admin == "admin"
BroadRead == "read:all_tickets"
WriteClass == {"admin", "write:ticket", "approve:request"}

PermissionsFor(role) == IF role \in DOMAIN Grants THEN Grants[role] ELSE {}

(* from_agent_record: the caller's own tenant owns the card. *)
Descriptor(a, card, tenant) ==
  [id |-> a, tenant |-> tenant, tier |-> card.tier, cls |-> card.cls, audience |-> card.audience]

Reasons(principal, resource) ==
  LET granted == PermissionsFor(principal.role)
  IN IF principal.tenant # resource.tenant THEN {"tenant"}
     ELSE {r \in {"audience", "tier", "class"} :
             CASE r = "audience" -> resource.audience # {} /\ principal.role \notin resource.audience
               [] r = "tier" -> resource.tier = "action" /\ granted \cap WriteClass = {}
               [] r = "class" -> resource.cls \in {"confidential", "pii"} /\ granted \cap {Admin, BroadRead} = {}}

(* Mutant: the digest leaves the audience of the card out. *)
DecisionKeyById(principal, resource) ==
  <<principal.tenant, principal.role, resource.id, resource.tier, resource.cls>>
DecisionKey(principal, resource) ==
  <<principal.tenant, principal.role, resource.id, resource.tier, resource.cls, resource.audience>>

(* decisions is the cache: a function from keys to "allow" or "deny". *)
Check(decisions, principal, resource) ==
  LET key == DecisionKey(principal, resource)
  IN IF key \in DOMAIN decisions THEN decisions[key]
     ELSE IF Reasons(principal, resource) = {} THEN "allow" ELSE "deny"

(* The decision on a resource that is checked is left in the cache. *)
Remember(decisions, principal, resource) ==
  LET key == DecisionKey(principal, resource)
  IN [k \in DOMAIN decisions \cup {key} |-> IF k = key THEN Check(decisions, principal, resource) ELSE decisions[k]]
=============================================================================
