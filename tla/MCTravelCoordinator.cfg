SPECIFICATION Spec
SYMMETRY Symmetry
CONSTANTS
  Players = {p1, p2, p3}
  MaxEpoch = 2
INVARIANTS
  TypeOK
  NobodyIsSpokenFor
  NeverWaitsForNobody
PROPERTIES
  OneWay
  BarrierSpec
