SPECIFICATION Spec
CONSTANTS
  Tabs = {"a", "b"}
  MaxAdds = 4
INVARIANTS
  StoredInOrder
PROPERTIES
  PickGivesChosen
