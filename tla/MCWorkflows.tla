------------------------------ MODULE MCWorkflows ------------------------------
(* Workflows with two callers and a few inputs of each tool, for TLC. *)
EXTENDS Workflows, TLC

Everything ==
  [tool |-> "upsert", asks |-> PartSlots, byId |-> {}, able |-> PartSlots,
   patch |-> TRUE, sku |-> TRUE, kind |-> "none"]
Order ==
  [tool |-> "order", asks |-> OrderSlots, byId |-> {"supplier"}, able |-> {"order", "line", "extra"},
   patch |-> TRUE, sku |-> TRUE, kind |-> "none"]
FixtureOf(kind, needs) ==
  [tool |-> "fixture", asks |-> needs \cup {kind}, byId |-> {}, able |-> {}, patch |-> FALSE,
   sku |-> TRUE, kind |-> kind]

MCInputs ==
  {[Everything EXCEPT !.asks = {"part", "manufacturer", "manufacturer_part"}],
   [Everything EXCEPT !.able = @ \ {"supplier", "manufacturer_part"}, !.patch = FALSE],
   [Everything EXCEPT !.asks = {"part", "supplier", "supplier_part"}, !.byId = {"part"}],
   [Everything EXCEPT !.asks = {"part", "supplier", "supplier_part"}, !.sku = FALSE],
   Order,
   [Order EXCEPT !.byId = @ \cup {"order"}, !.patch = FALSE],
   FixtureOf("user", {}),
   FixtureOf("order", {"supplier"}),
   FixtureOf("supplier_part", {"part", "supplier", "category", "location"})}

Symmetry == Permutations(Callers)
=============================================================================
