CONSTANTS
  w1 = w1
  Types <- OneText
  Numbers <- Edges
  Words <- OneWord
SPECIFICATION ConversionSpec
INVARIANTS RoundTrip
