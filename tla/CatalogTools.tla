------------------------------ MODULE CatalogTools ------------------------------
(* The tools of internal/tools that write one record of the catalog:          *)
(* write_tools.go, and the administration of companies, sourcing parts and     *)
(* categories in company_admin_tools.go and category_admin_tools.go.           *)
EXTENDS ToolSteps

\* Creation and update of a part; the answer of the creation names the part.
readPartDetailAfterMutation == Exists("own", Confirming)
createPart == Free("own") ++ Create("own", OrError) ++ readPartDetailAfterMutation
updatePart == Require("own") ++ Patch("own", OrError) ++ readPartDetailAfterMutation

\* One or two parameters of a part, each updated or created, once all are resolved:
\* the part, its category's links, its parameters, the templates.  The second one's
\* error says nothing of the first.
resolveParameterTemplate(kind) == Look ++ Find(kind)
setPartParameters ==
  Look ++ resolveParameterTemplate("own") ++
  (Put("own", AsError) \cup
   (resolveParameterTemplate("related") ++ Put("own", AsError) ++ Put("related", AsError)))

\* writeRecordOutput and sourcingCreateErrorOutput.
writeRecordOutput == Plainly
verifyCreatedCompany == Matches("own", Confirming)
createCompany == Free("own") ++ Create("own", writeRecordOutput) ++ verifyCreatedCompany
createSupplierPart == Free("own") ++ Create("own", Plainly) ++ Matches("own", Confirming)
createManufacturerPart == createSupplierPart

\* Stock for a part at a location that has none of it yet; nothing is read back.
createStockItem == Free("own") ++ Create("own", writeRecordOutput)
resolveInitialStockPart == Require("related") \cup One("related")
initialStockWorkflow ==
  resolveInitialStockPart ++ Look ++ Free("own") ++ Flag ++ Create("own", AsError)

CatalogTools == UNION {createPart, updatePart, createCompany, createSupplierPart,
                       createManufacturerPart, createStockItem, initialStockWorkflow}

-----------------------------------------------------------------------------
(* Administration.                                                          *)

\* ambiguousAdminMutation: a 408, 425 or 429 counts as a rejection.
ambiguousAdminMutation == [AsError EXCEPT !.timeout = "verify", !.failure = "verify"]

\* A company; a role is taken away only when no sourcing link needs it.
hasSupplierLinks == Free("related")
companyRoleIntegrity == StillFree("related")
verifyCompanyUpdate == Matches("own", Confirming)
updateCompanyAdmin ==
  Get("own") ++
  ((Patch("own", ambiguousAdminMutation) ++ verifyCompanyUpdate) \cup
   (Flag ++ hasSupplierLinks ++ Strip(ambiguousAdminMutation) ++ verifyCompanyUpdate ++
    companyRoleIntegrity))

\* A supplier part and a manufacturer part, one for each company and SKU or MPN.
validatePartAndCompany == Look
supplierDuplicates == Free("own")
supplierPartIntegrity == Refresh
verifySupplierPartUpdate == Matches("own", Confirming) ++ supplierPartIntegrity ++ StillFree("own")
updateSupplierPartAdmin ==
  Get("own") ++ validatePartAndCompany ++ Maybe(Look) ++ supplierDuplicates ++
  Move(ambiguousAdminMutation) ++ verifySupplierPartUpdate

manufacturerDuplicates == Free("own")
supplierLinksForManufacturerPart == Free("related")
manufacturerPartIntegrity == Refresh ++ StillFree("related")
verifyManufacturerPartUpdate == Matches("own", Confirming) ++ manufacturerPartIntegrity
updateManufacturerPartAdmin ==
  LET Change(apart) == Write("patch", "own", apart, ambiguousAdminMutation)
      unnamed == (Change({}) \cup (supplierLinksForManufacturerPart ++ Change({"related"}))) ++
                 verifyManufacturerPartUpdate
      named == manufacturerDuplicates ++
               (Change({"own"}) \cup
                (supplierLinksForManufacturerPart ++ Change({"own", "related"}))) ++
               verifyManufacturerPartUpdate ++ StillFree("own")
  IN Get("own") ++ validatePartAndCompany ++ (named \cup unnamed)

\* A category, one of a name under each parent.  What became of a request whose
\* answer was lost is read, but the answer says it is unknown in any case.
recoverCategoryCreate ==
  [AsError EXCEPT !.pacing = "partial", !.timeout = "partial", !.failure = "partial"]
recoverCategoryUpdate == recoverCategoryCreate
categoryDuplicates == Free("own")
validateCategoryParent == Look
verifyCategoryPostWrite == StillFree("own") ++ Refresh
createPartCategory ==
  validateCategoryParent ++ categoryDuplicates ++ Create("own", recoverCategoryCreate) ++
  Matches("own", Confirming) ++ verifyCategoryPostWrite
updatePartCategory ==
  Get("own") ++ validateCategoryParent ++
  ((categoryDuplicates ++ Look ++ Maybe(Flag) ++ Move(recoverCategoryUpdate)) \cup
   (Look ++ Maybe(Flag) ++ Patch("own", recoverCategoryUpdate))) ++
  Matches("own", Confirming) ++ verifyCategoryPostWrite

AdministrationTools == UNION {updateCompanyAdmin, updateSupplierPartAdmin,
  updateManufacturerPartAdmin, createPartCategory, updatePartCategory}
=============================================================================
