--------------------------- MODULE MCCAConversion ---------------------------
(* Instances of CAConversion for TLC: scalars and arrays of two elements of   *)
(* every element type, and the array of one string.                           *)
EXTENDS CAConversion

CONSTANTS w1

Shapes(array, size) == [code : Codes, array : {array}, size : {size}]

ManyOrScalar == Shapes(FALSE, 1) \cup Shapes(TRUE, 2)
OneText == [code : {"String"}, array : {TRUE}, size : {1}]

Edges == {-1, 1, 255, 65535, 65536}
OneWord == {w1}
==============================================================================
