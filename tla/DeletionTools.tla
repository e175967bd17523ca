----------------------------- MODULE DeletionTools -----------------------------
(* The tools of internal/tools that delete a record on which nothing hangs:  *)
(* part_delete_tools.go, category_delete_tools.go,                           *)
(* stock_location_delete_tools.go, purchase_order_line_delete_tools.go; and   *)
(* the links of part_relation_tools.go and part_family_tools.go.              *)
EXTENDS ToolSteps

\* A part: previewed with its context, deleted on a flag.
loadPartDeletePreview == Look
loadNoBlockingReferences == Look
loadPartDeleteBlockingReferences == Free("related")
partDeleteAssumed == Refresh
partDeleteVerify == Absent("own", UnlessLate(Confirming))
deletePart ==
  Get("own") ++ loadPartDeletePreview ++ loadPartDeleteBlockingReferences ++ Flag ++
  Delete("own", UnlessLate(Verifying)) ++ partDeleteVerify

\* A category and a stock location: deleted on a token for the record and what
\* hangs on it, which is nothing.
loadCategoryDeleteBlockingReferences == Free("related")
verifyCategoryDeletion == Absent("own", UnlessLate(Confirming))
deletePartCategory ==
  Get("own") ++ loadCategoryDeleteBlockingReferences ++ Token ++
  Delete("own", Untold(UnlessLate(Verifying))) ++ verifyCategoryDeletion

stockLocationDeleteReferences == Free("related")
verifyStockLocationDeletion == Absent("own", UnlessLate(Confirming))
deleteStockLocation ==
  Get("own") ++ stockLocationDeleteReferences ++ Token ++
  Delete("own", Untold(UnlessLate(Verifying))) ++ verifyStockLocationDeletion

\* A line of a purchase order, without receipts or stock; a lost answer is an error.
purchaseOrderLineHasLinkedStock == Free("related")
deletePurchaseOrderLine ==
  Get("own") ++ Look ++ purchaseOrderLineHasLinkedStock ++ Flag ++ Delete("own", OrError) ++
  Absent("own", Confirming) ++ Refresh

\* A link between two parts, one for each unordered pair.
findPartRelationPair == Free("own")
recoverPartRelationCreate == Matches("own", UnlessLate(Confirming))
createPartRelation ==
  findPartRelationPair ++ Create("own", UnlessLate(Verifying)) ++ recoverPartRelationCreate
verifyPartRelationUpdate == Matches("own", UnlessLate(Confirming))
updatePartRelation ==
  Get("own") ++ Token ++ Patch("own", UnlessLate(Verifying)) ++ verifyPartRelationUpdate
deletePartRelation ==
  Get("own") ++ Token ++ Remove("own", Untold(UnlessLate(Verifying))) ++
  Absent("own", UnlessLate(Confirming))

\* The variant and revision a part is of; the chains above it are read.
validateChain == Look
buildPartFamilyPlan == Get("own") ++ validateChain
updatePartFamilyRelationships ==
  buildPartFamilyPlan ++ Token ++ Patch("own", UnlessLate(Verifying)) ++
  Matches("own", UnlessLate(Confirming))

DeletionTools == UNION {deletePart, deletePartCategory, deleteStockLocation,
  deletePurchaseOrderLine, createPartRelation, updatePartRelation, deletePartRelation,
  updatePartFamilyRelationships}
=============================================================================
