------------------------------- MODULE RecordTools -------------------------------
(* The tools of internal/tools that write what belongs to other records:      *)
(* assignments (address_tools.go, contact_tools.go, owner_tools.go,           *)
(* project_code_tools.go, barcode_tools.go), roles and images                  *)
(* (company_role_tools.go, company_image_tools.go),                           *)
(* price breaks (pricing_tools.go), attachments (attachment_tools.go) and      *)
(* parameters (parameter_template_tools.go, parameter_value_tools.go,          *)
(* object_parameter_tools.go, category_parameter_tools.go).                   *)
EXTENDS CatalogTools

\* An address or contact of an order, an owner, a project code of an order or a line.
patchPurchaseOrderAddress == Patch("own", Untold(Verifying))
verifyAddressAssignment == Matches("own", Confirming)
issueAddressPlan == Token
assignAddress ==
  Unsettled("own", Plainly) ++ Maybe(Look) ++ issueAddressPlan ++ patchPurchaseOrderAddress ++
  verifyAddressAssignment

patchPurchaseOrderContact == Patch("own", Untold(Verifying))
verifyContactAssignment == Matches("own", Confirming)
issueContactPlan == Token
assignContact ==
  Unsettled("own", Plainly) ++ Maybe(Look) ++ issueContactPlan ++ patchPurchaseOrderContact ++
  verifyContactAssignment

projectCodeObjectCurrent == Unsettled("own", Plainly)
patchProjectCodeObject == Patch("own", Untold(Verifying))
verifyProjectCodeAssignment == Matches("own", Confirming)
issueProjectCodePlan == Token
assignProjectCode ==
  projectCodeObjectCurrent ++ Maybe(Look) ++ issueProjectCodePlan ++ patchProjectCodeObject ++
  verifyProjectCodeAssignment

ownerObjectCurrent == Unsettled("own", Plainly)
patchOwnerObject == Patch("own", Untold(Verifying))
verifyOwnerAssignment == Matches("own", Confirming)
issueOwnerPlan == Token
assignOwner ==
  ownerObjectCurrent ++ Maybe(Look) ++ issueOwnerPlan ++ patchOwnerObject ++ verifyOwnerAssignment

\* A barcode; whether it is the one asked for is not read back.
assignBarcode == Named ++ Patch("own", Verifying) ++ Exists("own", Confirming)
unassignBarcode ==
  Unsettled("own", Plainly) ++ Flag ++ Patch("own", Verifying) ++ Matches("own", Confirming)

\* A company stops being a customer once no stock and no sales order is left of it;
\* a blocked call does not spend the token.
companyCustomerDependencyAudit == Free("related")
issueCompanyRolePlan == Token
updateCompanyCustomerRole == Strip(Untold(Verifying))
verifyCompanyRoleRemoval == Matches("own", Confirming)
removeCompanyCustomerRole ==
  Unsettled("own", Plainly) ++ companyCustomerDependencyAudit ++ issueCompanyRolePlan ++
  updateCompanyCustomerRole ++ verifyCompanyRoleRemoval

\* The image of a company, read again after the source was fetched; a replacement
\* asks for the flag.
imageMutation == [ambiguousAdminMutation EXCEPT !.refused = "refused"]
exactCompanyImageTarget == Require("own")
resolveCompanyImageSource == Look
verifyCompanyImage == Refresh ++ Matches("own", Confirming)
assignCompanyImage == Maybe(Flag) ++ Patch("own", imageMutation) ++ verifyCompanyImage
setCompanyImage ==
  exactCompanyImageTarget ++ resolveCompanyImageSource ++ exactCompanyImageTarget ++
  assignCompanyImage
setCompanyImageFromURL ==
  exactCompanyImageTarget ++ Look ++ exactCompanyImageTarget ++ assignCompanyImage
clearCompanyImage ==
  Unsettled("own", OrError) ++ Flag ++ Patch("own", imageMutation) ++ Matches("own", Confirming)

\* Price breaks of a part or supplier part, one for each quantity.
priceBreakMutationRejected == OrError
findInternalPriceBreakByQuantity == Free("own")
findSalePriceBreakByQuantity == Free("own")
findSupplierPriceBreakByQuantity == Free("own")
createInternalPriceBreak ==
  findInternalPriceBreakByQuantity ++ Create("own", priceBreakMutationRejected)
createSalePriceBreak ==
  Look ++ findSalePriceBreakByQuantity ++ Create("own", priceBreakMutationRejected)
createSupplierPriceBreak ==
  findSupplierPriceBreakByQuantity ++ Create("own", priceBreakMutationRejected)
updateInternalPriceBreak == Get("own") ++ Patch("own", priceBreakMutationRejected)
updateSalePriceBreak == Get("own") ++ Patch("own", priceBreakMutationRejected)
updateSupplierPriceBreak == Get("own") ++ Patch("own", priceBreakMutationRejected)
deleteInternalPriceBreak ==
  Get("own") ++ Flag ++ Remove("own", priceBreakMutationRejected) ++ Absent("own", AsError)
deleteSalePriceBreak ==
  Get("own") ++ Flag ++ Remove("own", priceBreakMutationRejected) ++ Absent("own", AsError)
deleteSupplierPriceBreak ==
  Get("own") ++ Flag ++ Remove("own", priceBreakMutationRejected) ++ Absent("own", AsError)

\* Only absence is told.
recordOutput == [AsError EXCEPT !.absent = "refused"]
updatePartPricingOverride == Named ++ Patch("own", recordOutput)

\* Attachments: one with the same file name, size or link is added when allowed to.
attachmentWriteRecordOutput == recordOutput
clarifyDuplicateAttachment == Free("own")
resolveUploadSource == Look
attach ==
  (clarifyDuplicateAttachment ++ Create("own", attachmentWriteRecordOutput)) \cup
  Add("own", attachmentWriteRecordOutput)
uploadAttachment == resolveUploadSource ++ attach
uploadAttachmentFromURL ==
  (Maybe(clarifyDuplicateAttachment) ++ Look ++ clarifyDuplicateAttachment ++
   Create("own", attachmentWriteRecordOutput)) \cup
  (Look ++ Add("own", attachmentWriteRecordOutput))
createLinkAttachment == attach
updateAttachmentMetadata == Get("own") ++ Patch("own", attachmentWriteRecordOutput)
deleteAttachment == Get("own") ++ Flag ++ Remove("own", AsError)
setPrimaryImage ==
  Get("own") ++ Get("related") ++ Maybe(Flag) ++ Step("look", "own", AsError) ++
  Patch("own", AsError)

\* Parameter templates, one of each name; no parameter row and no category default
\* may use the one that is deleted, no two rows break the policy one is given.
exactTemplateNameMatches == Free("own")
templateReferences == Free("related")
createParameterTemplate == exactTemplateNameMatches ++ Create("own", AsError)
updateParameterTemplate == Get("own") ++ exactTemplateNameMatches ++ Move(AsError)
deleteParameterTemplate ==
  Get("own") ++ templateReferences ++ Flag ++ Delete("own", AsError) ++ Absent("own", AsError)
parameterTemplateUniquenessConflicts == Free("related")
buildParameterTemplateUniquenessPlan == Get("own") ++ parameterTemplateUniquenessConflicts
updateParameterTemplateUniqueness ==
  buildParameterTemplateUniquenessPlan ++ Token ++ Strip(AsError) ++
  Maybe(Matches("own", Confirming))

\* The rows of one template are moved to another, each as the dry run showed it: one
\* moved is gone from the "related" ones.  Then the template is deleted, unless another
\* row or a category default uses it still; it stays then, which is no failure.
scanTemplateParameters == Step("free", "related", AsError)
sourceCategoryLinks == Step("look", "related", AsError)
buildTemplateMergePlan(rows) ==
  Step("get", "own", AsError) ++ Look ++ rows ++ sourceCategoryLinks ++ Hash
moveTemplateRow ==
  Step("intact", "related", Confirming) ++ Remove("related", Confirming) ++
  Absent("related", Confirming)
deleteEmptiedTemplate ==
  scanTemplateParameters ++ sourceCategoryLinks ++ Delete("own", Confirming) ++
  Absent("own", Confirming)
mergeParameterTemplates ==
  (buildTemplateMergePlan({<<>>}) \cup
   (buildTemplateMergePlan(Step("get", "related", AsError)) ++ moveTemplateRow)) ++
  Maybe(deleteEmptiedTemplate)

\* Parameters of a part or another object, one for each template.
deletePartParameter ==
  Get("own") ++ Step("look", "own", AsError) ++ Flag ++ Remove("own", AsError) ++
  Absent("own", AsError)
resolveObjectWriteTemplate == Look
objectParameterUniquenessConflict == Look
createObjectParameter ==
  resolveObjectWriteTemplate ++ Find("own") ++ Maybe(objectParameterUniquenessConflict) ++
  Put("own", Plainly)
issueObjectParameterDeletePlan == Token
deleteObjectParameter ==
  Get("own") ++ Step("look", "own", AsError) ++ issueObjectParameterDeletePlan ++
  Remove("own", AsError) ++ Absent("own", AsError)

\* The default a category gives for a template, one for each pair.
findCategoryDefaultDuplicate == Free("own")
enrichCategoryDefault == Step("look", "own", AsError)
createCategoryParameterDefault ==
  Look ++ findCategoryDefaultDuplicate ++ Create("own", AsError) ++ enrichCategoryDefault
updateCategoryParameterDefault ==
  Get("own") ++ Look ++ findCategoryDefaultDuplicate ++ Move(AsError) ++ enrichCategoryDefault
deleteCategoryParameterDefault ==
  Get("own") ++ enrichCategoryDefault ++ Flag ++ Remove("own", AsError) ++ Absent("own", AsError)

\* The tools that answer with a mere error when the reading after the write fails.
BareReadBacks == UNION {deleteInternalPriceBreak, deleteSalePriceBreak, deleteSupplierPriceBreak,
  deleteParameterTemplate, mergeParameterTemplates, deletePartParameter, deleteObjectParameter,
  createCategoryParameterDefault, updateCategoryParameterDefault, deleteCategoryParameterDefault}

RecordTools == BareReadBacks \cup UNION {assignAddress, assignContact, assignProjectCode,
  assignOwner, assignBarcode, unassignBarcode,
  removeCompanyCustomerRole, setCompanyImage, setCompanyImageFromURL, clearCompanyImage,
  createInternalPriceBreak, createSalePriceBreak, createSupplierPriceBreak,
  updateInternalPriceBreak, updateSalePriceBreak, updateSupplierPriceBreak,
  updatePartPricingOverride, uploadAttachment, uploadAttachmentFromURL, createLinkAttachment,
  updateAttachmentMetadata, deleteAttachment, setPrimaryImage, createParameterTemplate,
  updateParameterTemplate, updateParameterTemplateUniqueness, createObjectParameter}
=============================================================================
