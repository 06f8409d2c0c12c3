CONSTANTS
  Wrapper = {w1, w2, w3}
  Raw = {h1, h2}
  Object = {o1, o2, o3}
  Null = Null
  Unbuilt = Unbuilt
  Nothing = Nothing
  App = App
SPECIFICATION Spec
SYMMETRY Symmetry
INVARIANTS TypeOK OwnershipSound SingleOwner
PROPERTIES ClosedByItsOwner LeakOnlyByOverwrite LeakedForGood ImplementsUniqueResource
