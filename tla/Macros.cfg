SPECIFICATION MCSpec
CONSTANTS
  FnArgs <- MCFnArgs
  FnQuals <- MCFnQuals
  InputTypes <- MCInputTypes
  MaxInputs = 3
  Outputs <- MCOutputs
  ApiArgs <- MCApiArgs
  TraitQuals <- MCTraitQuals
  TraitItems <- MCTraitItems
  MaxItems = 3
  ItemIdents <- MCItemIdents
INVARIANTS ExpansionWorks ErrorsExact StubAgrees SinksExact
CHECK_DEADLOCK FALSE
