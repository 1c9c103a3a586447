SPECIFICATION Spec
CONSTANTS
  Products = {p1, p2, p3}
  Variants = {v1, v2, v3}
  Categories = {c1, c2}
  None = None
  New = New
  FirstProducts = {p1, p2}
  FirstProduct = p1
  FirstVariant = v1
  FirstCategory = c1
  Forms = 1
  MaxRows = 1
  MaxCalls = 3
INVARIANTS ReferencesHold RowsStoredOnce
PROPERTIES TitleIsWhatChanges FormIsKept
