---------------------------- MODULE PurchasingTools ----------------------------
(* The tools of internal/tools that write one purchase order, line or extra   *)
(* line: purchasing_tools.go, purchase_order_extra_line_tools.go,              *)
(* purchase_order_completion_tools.go.                                        *)
EXTENDS ToolSteps

\* An order, with a reference nobody uses or with none.  Nothing is read back: of
\* the answer to an update only the ID is compared.
createPurchaseOrder == Look ++ ((Free("own") ++ Create("own", Plainly)) \cup Add("own", Plainly))
updatePurchaseOrder == Named ++ Look ++ Patch("own", Plainly) ++ Refresh

loadOrderAndSupplierPart == Look
addPurchaseOrderLine == loadOrderAndSupplierPart ++ Look ++ Add("own", Plainly)
updatePurchaseOrderLine ==
  Get("own") ++ Maybe(loadOrderAndSupplierPart) ++ Look ++ Patch("own", Plainly)

\* A fully received order is completed; what InvenTree says afterwards decides.
completePurchaseOrder ==
  Unsettled("own", OrError) ++ Look ++ Hash ++ Patch("own", Untold(Verifying)) ++
  Matches("own", Confirming)

\* A pending order is placed as a dry run showed it, with its lines and extra lines;
\* the order is read again for the answer, its status is not looked at.
issuePlanHash == Hash
issuePurchaseOrder ==
  Unsettled("own", AsError) ++ Look ++ Look ++ issuePlanHash ++ Patch("own", AsError) ++
  Step("look", "own", AsError)

\* An extra line, one for each reference; a dry run is a preview only.
findExtraLinesByReference == Same("own")
verifyExtraLineCreate == Matches("own", Confirming) ++ Refresh
createPurchaseOrderExtraLine ==
  Look ++ findExtraLinesByReference ++ Flag ++ Create("own", Verifying) ++ verifyExtraLineCreate
verifyExtraLinePatch == Matches("own", Confirming) ++ Refresh ++ Maybe(Refresh)
updatePurchaseOrderExtraLine ==
  Get("own") ++ Look ++ Free("own") ++ Flag ++ Move(Verifying) ++ verifyExtraLinePatch
deletePurchaseOrderExtraLine ==
  Get("own") ++ Look ++ Flag ++ Remove("own", AsError) ++ Absent("own", Confirming) ++ Refresh

PurchasingTools == UNION {createPurchaseOrder, updatePurchaseOrder, addPurchaseOrderLine,
  updatePurchaseOrderLine, completePurchaseOrder, issuePurchaseOrder,
  createPurchaseOrderExtraLine, updatePurchaseOrderExtraLine, deletePurchaseOrderExtraLine}
=============================================================================
