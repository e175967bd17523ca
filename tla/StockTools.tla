------------------------------- MODULE StockTools -------------------------------
(* The tools of internal/tools that write one stock item, stock location or    *)
(* location type: stock_depletion_tools.go, stock_transfer_tools.go,           *)
(* stock_install_tools.go, stock_serial_admin_tools.go,                        *)
(* stock_delete_on_deplete_tools.go, stock_admin_tools.go and                  *)
(* stock_location_type_admin_tools.go.                                        *)
EXTENDS ToolSteps

\* The requests of the high-risk workflows: a refusal is an error, a timeout the
\* error of the context, and any other open question is settled by a read.
Executing == Untold(UnlessLate(Verifying))
Proving == UnlessLate(Confirming)

\* A stock item is depleted, and deleted with that, when nothing hangs on it: the
\* item counts what does.
unsafeStockDepletion == Get("own") ++ Free("related")
executeStockDepletion == Token ++ Delete("own", Executing)
verifyStockDepletion == Absent("own", Proving)
depleteStockItem == unsafeStockDepletion ++ executeStockDepletion ++ verifyStockDepletion

\* A stock item is moved to another location, or split: a part of it stays and the
\* rest becomes an item there, unlike those found before.
unsafeStockTransfer == Unsettled("own", Plainly)
preexistingDestinationStockItemIDs ==
  Step("known", "related", [Plainly EXCEPT !.failed = "refused"])
verifyStockTransfer == Matches("own", Proving)
verifyPartialStockTransfer == Matches("own", Proving) ++ Step("fresh", "related", Confirming)
transferStockItem ==
  unsafeStockTransfer ++ Look ++
  ((Token ++ Patch("own", Executing) ++ verifyStockTransfer) \cup
   (preexistingDestinationStockItemIDs ++ Token ++ Write("split", "own", {}, Executing) ++
    verifyPartialStockTransfer))

\* A stock item is installed in another, or taken out of it.
unsafeStockInstallChild == Unsettled("own", Plainly)
unsafeStockInstallParent == Get("related")
stockInstallCycleCheck == Look
stockInstallIssueOrConfirm == Token
executeStockInstall == stockInstallIssueOrConfirm ++ Patch("own", Executing)
verifyStockInstall == Matches("own", Proving) ++ Exists("related", Proving)
installStockItem ==
  unsafeStockInstallChild ++ unsafeStockInstallParent ++ stockInstallCycleCheck ++
  executeStockInstall ++ verifyStockInstall
executeStockUninstall == stockInstallIssueOrConfirm ++ Patch("own", Executing)
verifyStockUninstall == Matches("own", Proving)
uninstallStockItem ==
  unsafeStockInstallChild ++ Look ++ executeStockUninstall ++ verifyStockUninstall

\* A serial number, unique for the part or everywhere, and the policy to delete a
\* depleted item: what an open answer left is not read, it is partial.
prepareStockAdjustment == Unsettled("own", OrError)
stockUnknownResult ==
  [AsError EXCEPT !.pacing = "partial", !.timeout = "partial", !.failure = "partial"]
stockStateMatches == Matches("own", Confirming)
stockSerialGloballyUnique == Step("look", "own", AsError)
stockSerialCollision == Free("own") ++ stockSerialGloballyUnique ++ Maybe(Free("own"))
executeStockPlan(write) == Token ++ write ++ stockStateMatches
reserial == stockSerialCollision ++ executeStockPlan(Move(stockUnknownResult))
assignStockSerial == prepareStockAdjustment ++ Step("look", "own", OrError) ++ reserial
setStockSerial ==
  prepareStockAdjustment ++ (reserial \cup executeStockPlan(Patch("own", stockUnknownResult)))
setStockDeleteOnDeplete ==
  prepareStockAdjustment ++ executeStockPlan(Patch("own", stockUnknownResult))

\* ambiguousCategoryMutation: a refusal of any kind is an error, whatever else goes
\* wrong is settled by a read.
ambiguousCategoryMutation ==
  [AsError EXCEPT !.pacing = "verify", !.timeout = "verify", !.failure = "verify"]

\* A stock location, one of a name under each parent.
validateLocationReferences == Look
validateStockLocationParent == Look
stockLocationDuplicates == Free("own")
verifyStockLocationWrite == Matches("own", Confirming) ++ StillFree("own")
createStockLocation ==
  validateLocationReferences ++ stockLocationDuplicates ++
  Create("own", ambiguousCategoryMutation) ++ verifyStockLocationWrite
updateStockLocation ==
  Require("own") ++ validateLocationReferences ++
  (Patch("own", ambiguousCategoryMutation) \cup
   (stockLocationDuplicates ++ Move(ambiguousCategoryMutation))) ++ verifyStockLocationWrite
restructureStockLocation ==
  Unsettled("own", OrError) ++ validateStockLocationParent ++ stockLocationDuplicates ++ Hash ++
  Move(ambiguousCategoryMutation) ++ verifyStockLocationWrite

\* Details and provenance of a stock item.
updateStockItemMetadata ==
  Unsettled("own", OrError) ++ Hash ++ Patch("own", ambiguousCategoryMutation) ++
  Matches("own", Confirming)
stockProvenanceReferences == Step("look", "own", [Plainly EXCEPT !.failed = "refused"])
updateStockItemProvenance ==
  Unsettled("own", Plainly) ++ stockProvenanceReferences ++ Token ++
  Patch("own", ambiguousCategoryMutation) ++ Matches("own", Confirming)

\* A type of locations, one of each name; it may be deleted from under locations.
stockLocationTypeDuplicates == Free("own")
verifyStockLocationTypeWrite == Matches("own", Confirming) ++ StillFree("own")
createStockLocationType ==
  stockLocationTypeDuplicates ++ Create("own", ambiguousCategoryMutation) ++
  verifyStockLocationTypeWrite
updateStockLocationType ==
  Get("own") ++
  (Patch("own", ambiguousCategoryMutation) \cup
   (stockLocationTypeDuplicates ++ Move(ambiguousCategoryMutation))) ++
  verifyStockLocationTypeWrite
stockLocationTypeReferences == Look
verifyStockLocationTypeDeletion == Absent("own", Proving)
deleteStockLocationType ==
  Get("own") ++ stockLocationTypeReferences ++ Token ++ Remove("own", Executing) ++
  verifyStockLocationTypeDeletion

StockTools == UNION {depleteStockItem, transferStockItem, installStockItem, uninstallStockItem,
  assignStockSerial, setStockSerial, setStockDeleteOnDeplete, createStockLocation,
  updateStockLocation, restructureStockLocation, updateStockItemMetadata,
  updateStockItemProvenance, createStockLocationType, updateStockLocationType,
  deleteStockLocationType}
=============================================================================
