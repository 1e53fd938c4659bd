SPECIFICATION
  Spec
INVARIANT
  ShowsATableValue
