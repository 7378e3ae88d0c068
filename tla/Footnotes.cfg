SPECIFICATION Spec
CONSTANTS
  Ids = {a, 2}
  None = None
  MaxText = 6
INVARIANTS
  TypeOK
  CatalogOfTheText
  ReferencesLeadHome
  AgreeWhenFlat
