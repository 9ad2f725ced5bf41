CONSTANTS
  w1 = w1
  Types <- ManyOrScalar
  Numbers <- Edges
  Words <- OneWord
SPECIFICATION ConversionSpec
INVARIANTS RoundTrip ReadsExactly
PROPERTIES WritesExactly
