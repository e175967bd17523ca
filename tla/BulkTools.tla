------------------------------- MODULE BulkTools -------------------------------
(* The bulk tools and the note tools of internal/tools, as one item of a call   *)
(* sees them: catalog_bulk_tools.go, purchasing_bulk_tools.go,                 *)
(* stock_bulk_tools.go, stock_transfer_bulk_tools.go, attachment_bulk_tools.go, *)
(* object_parameter_bulk_tools.go, parameter_bulk_tools.go, note_tools.go.      *)
(* BatchExecute is about the items of a call among each other.                *)
(*                                                                          *)
(* An item's outcome is told as: applied "ok", skipped "unchanged", failed     *)
(* "refused", ambiguous and unverified "partial".                             *)
EXTENDS CatalogTools, PurchasingTools, RecordTools

\* A plan's item that cannot be read has failed, as one that is unfit.
FailReason == [Plainly EXCEPT !.failed = "refused"]
Failing(plan) == {[i \in DOMAIN p |-> [p[i] EXCEPT !.on = FailReason]] : p \in plan}
Bulk(plan, adapter) == Failing(plan) ++ Token ++ adapter

\* Preflight: the item is skipped when it is as asked for already, and fails unless
\* it is as it was planned.  Mutate: an open question is settled by a read, any
\* other error leaves the item ambiguous.  Verify: the item is as asked.
Preflight == Step("still", "own", FailReason)
Ambiguous == [Confirming EXCEPT !.timeout = "verify", !.failure = "verify"]
AmbiguousOrPaced == [Ambiguous EXCEPT !.pacing = "verify"]
bulkAdapter(write) == Preflight ++ write ++ Matches("own", Confirming)

\* Parts, companies, categories, supplier and manufacturer parts.
buildPartBulkPlanItem == Get("own")
partBulkAdapter == bulkAdapter(Patch("own", Ambiguous))
bulkUpdateParts == Bulk(buildPartBulkPlanItem, partBulkAdapter)
buildCompanyBulkPlanItem == Get("own")
companyBulkAdapter == bulkAdapter(Patch("own", Ambiguous))
bulkUpdateCompanies == Bulk(buildCompanyBulkPlanItem, companyBulkAdapter)
buildCategoryBulkPlanItem == Get("own") ++ Look
categoryBulkAdapter(write) == bulkAdapter(write) ++ verifyCategoryPostWrite
bulkUpdatePartCategories ==
  Bulk(buildCategoryBulkPlanItem, categoryBulkAdapter(Patch("own", AmbiguousOrPaced))) \cup
  Bulk(buildCategoryBulkPlanItem ++ categoryDuplicates, categoryBulkAdapter(Move(AmbiguousOrPaced)))
buildSupplierPartBulkPlanItem == Get("own") ++ validatePartAndCompany ++ supplierDuplicates
supplierPartBulkAdapter ==
  bulkAdapter(Move(Ambiguous)) ++ supplierPartIntegrity ++ StillFree("own")
bulkUpdateSupplierParts == Bulk(buildSupplierPartBulkPlanItem, supplierPartBulkAdapter)
buildManufacturerPartBulkPlanItem == Get("own") ++ validatePartAndCompany
manufacturerPartBulkAdapter(write) == bulkAdapter(write) ++ manufacturerPartIntegrity
bulkUpdateManufacturerParts ==
  Bulk(buildManufacturerPartBulkPlanItem, manufacturerPartBulkAdapter(Patch("own", Ambiguous))) \cup
  Bulk(buildManufacturerPartBulkPlanItem ++ manufacturerDuplicates,
       manufacturerPartBulkAdapter(Move(Ambiguous)) ++ StillFree("own"))

\* Purchase orders, their lines and their extra lines, one for each reference.
buildPurchaseOrderBulkPlanItem == Get("own") ++ Look
purchaseOrderBulkAdapter == bulkAdapter(Patch("own", Ambiguous))
bulkUpdatePurchaseOrders == Bulk(buildPurchaseOrderBulkPlanItem, purchaseOrderBulkAdapter)
buildPurchaseOrderLineBulkPlanItem ==
  Get("own") ++ loadOrderAndSupplierPart ++ Look
purchaseOrderLineBulkAdapter == bulkAdapter(Patch("own", Ambiguous))
bulkUpdatePurchaseOrderLines ==
  Bulk(buildPurchaseOrderLineBulkPlanItem, purchaseOrderLineBulkAdapter)
buildPurchaseOrderExtraLineBulkPlanItem == Get("own") ++ Free("own")
purchaseOrderExtraLineBulkAdapter == bulkAdapter(Move(AmbiguousOrPaced))
bulkUpdatePurchaseOrderExtraLines ==
  Bulk(buildPurchaseOrderExtraLineBulkPlanItem, purchaseOrderExtraLineBulkAdapter)

\* Stock items: metadata, status, whole moves to one location.  Attachments.
buildStockMetadataBulkPlanItem == Get("own")
stockMetadataBulkAdapter == bulkAdapter(Patch("own", Ambiguous))
bulkUpdateStockItemMetadata == Bulk(buildStockMetadataBulkPlanItem, stockMetadataBulkAdapter)
buildStockStatusBulkPlanItem == Get("own")
stockStatusBulkAdapter == bulkAdapter(Patch("own", Ambiguous))
bulkSetStockStatus == Bulk(buildStockStatusBulkPlanItem, stockStatusBulkAdapter)
buildStockTransferBulkPlanItem == Get("own")
stockTransferBulkAdapter == bulkAdapter(Patch("own", Ambiguous))
bulkTransferStockItems == Look ++ Bulk(buildStockTransferBulkPlanItem, stockTransferBulkAdapter)
buildAttachmentBulkPlanItem == Get("own")
attachmentBulkAdapter == bulkAdapter(Patch("own", Ambiguous))
bulkUpdateAttachments == Bulk(buildAttachmentBulkPlanItem, attachmentBulkAdapter)

\* A parameter of an object, found by its template: updated or created.
buildObjectParameterBulkPlanItem ==
  Look ++ Find("own") ++ objectParameterUniquenessConflict
objectParameterBulkAdapter ==
  Step("again", "own", FailReason) ++ Put("own", Ambiguous) ++
  Step("alone", "own", Confirming) ++ Refresh
bulkUpdateObjectParameters == Bulk(buildObjectParameterBulkPlanItem, objectParameterBulkAdapter)

\* One value for a parameter of some parts: each part's is planned to be created or
\* updated, then one after the other is written, up to the first that fails.  The
\* second part's parameter is "related".
resolveBulkParameterParts == Look
propagations == {"create", "update"}
planBulkParameterPart(action, kind) ==
  Look ++ (IF action = "create" THEN Free(kind) ELSE Step("differing", kind, Plainly))
buildBulkParameterPlan(actions) ==
  Look ++ resolveBulkParameterParts ++ planBulkParameterPart(actions[1], "own") ++
  (IF Len(actions) = 1 THEN {<<>>} ELSE planBulkParameterPart(actions[2], "related"))
executeBulkParameterAction(action, kind) ==
  (IF action = "create" THEN StillFree(kind) ++ Create(kind, Confirming)
   ELSE Step("intact", kind, Confirming) ++ Patch(kind, Confirming)) ++
  Matches(kind, Confirming)
executeBulkParameterPlan(actions) ==
  executeBulkParameterAction(actions[1], "own") ++
  (IF Len(actions) = 1 THEN {<<>>} ELSE executeBulkParameterAction(actions[2], "related"))
bulkPropagatePartParameters ==
  UNION {buildBulkParameterPlan(actions) ++ Token ++ executeBulkParameterPlan(actions) :
           actions \in (propagations \X propagations) \cup {<<action>> : action \in propagations}}

\* Notes.  Nothing but the answer to the write itself says that it was made; the
\* notes of the same object are read with each, and must be as they were planned.
noteSiblings == Look
intactNote == Step("intact", "own", FailReason)
noteAdapterCreate(siblings, write) ==
  Failing(siblings) ++ write ++ Matches("own", Confirming) ++ Refresh
noteAdapterUpdate == intactNote ++ Preflight ++ Patch("own", Confirming) ++ Matches("own", Confirming) ++ Refresh
noteAdapterDelete == intactNote ++ intactNote ++ Remove("own", Confirming) ++ Absent("own", Confirming)
buildNotePlan == Get("own") ++ noteSiblings
executeNotes ==
  Bulk(Free("own"), noteAdapterCreate(Free("own"), Create("own", Confirming))) \cup
  Bulk(noteSiblings, noteAdapterCreate(noteSiblings, Add("own", Confirming))) \cup
  Bulk(buildNotePlan, noteAdapterUpdate) \cup Bulk(buildNotePlan, noteAdapterDelete)

BulkTools == UNION {bulkUpdateParts, bulkUpdateCompanies, bulkUpdatePartCategories,
  bulkUpdateSupplierParts, bulkUpdateManufacturerParts, bulkUpdatePurchaseOrders,
  bulkUpdatePurchaseOrderLines, bulkUpdatePurchaseOrderExtraLines,
  bulkUpdateStockItemMetadata, bulkSetStockStatus, bulkTransferStockItems,
  bulkUpdateAttachments, bulkUpdateObjectParameters, bulkPropagatePartParameters, executeNotes}
=============================================================================
